------------------------------- MODULE IpcProofs -------------------------------
(* Theorems about Ipc, for all sets of cores and messages.                 *)
EXTENDS Ipc, TLAPS

\* What HandoverInv speaks of.
hand == <<requests, g_last_data, msg_in, idc_work, received_msg, pending, idc, enabled,
          busy, edf, ipc_task, task_mask, pm_prepare_D3, power>>

\* It is kept by all steps that leave those variables alone.
LEMMA HandUnchanged == HandoverInv /\ UNCHANGED hand => HandoverInv'
BY DEF hand, HandoverInv, TypeOK, HostSignalledLast, Contexts, Undecided, PowerInv, InFlight, NoneInFlight,
       HasQueued, Runs

\* At the start there is no request.
LEMMA HandInit == Init => HandoverInv
<1> SUFFICES ASSUME Init PROVE HandoverInv
  BY Zenon
<1>1. Nothing \in Request
  BY CoreAssumption, BoundAssumption DEF Nothing, Request, Kind
<1>2. [type |-> "NOTIFY", id |-> 0] \in IdcMsg
  BY BoundAssumption DEF IdcMsg
<1>3. TypeOK
  BY <1>1, <1>2, BoundAssumption DEF Init, TypeOK
<1>4. \A c \in Core : ~pending[c] /\ idc[c] = "idle"
  BY Zenon DEF Init
<1>5. NoneInFlight
  BY <1>4, Zenon DEF NoneInFlight, InFlight, HasQueued, Runs
<1>6. HostSignalledLast
  BY <1>4, Zenon DEF Init, HostSignalledLast
<1>7. Contexts
  BY <1>4, <1>5, Zenon DEF Init, Contexts, Undecided, NoneInFlight, InFlight, HasQueued, Runs
<1>8. PowerInv
  BY <1>4, Zenon DEF Init, PowerInv
<1> QED BY <1>3, <1>6, <1>7, <1>8, Zenon DEF HandoverInv

\* What is under way on the cores and how they are powered.
cores == <<idc_work, received_msg, pending, idc>>
data == <<requests, g_last_data, msg_in>>
rest == <<busy, ipc_task, task_mask, pm_prepare_D3, power>>

\* The EDF thread moves on within a request.
LEMMA HandEdf ==
    ASSUME HandoverInv, edf # "idle",
           edf' \in {"mask", "reply", "complete", "call"},
           edf' = "call" => edf = "wait" /\ ~pm_prepare_D3,
           UNCHANGED <<cores, data, rest, enabled>>
    PROVE  HandoverInv'
<1>1. TypeOK'
  BY Zenon DEF HandoverInv, TypeOK, cores, data
<1>2. HostSignalledLast'
  BY Zenon DEF HandoverInv, HostSignalledLast, rest
<1>3. Contexts'
  BY Zenon DEF HandoverInv, Contexts, Undecided, NoneInFlight, InFlight, HasQueued, Runs, cores, rest
<1>4. PowerInv'
  BY Zenon DEF HandoverInv, PowerInv, cores, rest
<1> QED BY <1>1, <1>2, <1>3, <1>4, Zenon DEF HandoverInv

\* Sending an IDC message gives a core that is on a work item.
LEMMA SendType ==
    ASSUME TypeOK, NEW c \in Core, NEW m \in IdcMsg, idc_send_msg(c, m)
    PROVE  /\ idc_work' \in [Core -> IdcMsg] /\ pending' \in [Core -> BOOLEAN]
           /\ idc_work'[c] = m /\ pending'[c]
           /\ \A d \in Core \ {c} : idc_work'[d] = idc_work[d] /\ pending'[d] = pending[d]
BY Zenon DEF TypeOK, idc_send_msg

\* A message that is no request leaves HandoverInv alone.
LEMMA HandSend ==
    ASSUME HandoverInv, NEW c \in enabled, NEW m \in IdcMsg, m.type # "IPC",
           idc_send_msg(c, m), UNCHANGED <<idc, received_msg, data, rest, enabled>>,
           edf' = edf \/ (edf \in {"process", "call"} /\ edf' = "wait" /\ ~pm_prepare_D3)
    PROVE  HandoverInv'
<1>1. c \in Core /\ TypeOK
  BY Zenon DEF HandoverInv, TypeOK
<1>2. /\ idc_work' \in [Core -> IdcMsg] /\ pending' \in [Core -> BOOLEAN]
      /\ idc_work'[c] = m /\ pending'[c]
      /\ \A d \in Core \ {c} : idc_work'[d] = idc_work[d] /\ pending'[d] = pending[d]
  BY <1>1, SendType, Zenon
<1>3. TypeOK'
  BY <1>1, <1>2, Zenon DEF TypeOK, data
<1>4. \A d \in Core : /\ HasQueued(d)' => HasQueued(d)
                      /\ Runs(d)' <=> Runs(d)
                      /\ InFlight(d)' => InFlight(d)
  BY <1>1, <1>2, Zenon DEF HasQueued, Runs, InFlight
<1>5. Contexts'
  BY <1>4, Zenon DEF HandoverInv, Contexts, Undecided, NoneInFlight, rest
<1>6. PowerInv'
  BY <1>2, <1>1, Zenon DEF HandoverInv, PowerInv, rest
<1>7. HostSignalledLast'
  BY <1>1, <1>2, Zenon DEF HandoverInv, HostSignalledLast, rest
<1> QED BY <1>3, <1>5, <1>6, <1>7, Zenon DEF HandoverInv

\* message_handler takes a request only when nothing is left of the last.
LEMMA HandHostRequest ==
    ASSUME HandoverInv, NEW k \in Kind, NEW c \in Core, HostRequest(k, c)
    PROVE  HandoverInv'
<1>0. /\ ~busy /\ power = "on" /\ edf = "idle" /\ task_mask = {}
      /\ busy' /\ ipc_task'
      /\ UNCHANGED <<cores, msg_in, edf, task_mask, enabled, pm_prepare_D3, power>>
  BY Zenon DEF HandoverInv, HostSignalledLast, HostRequest, item, handler, pm, cores
<1>5. NoneInFlight
  BY <1>0, Zenon DEF HandoverInv, HostSignalledLast, NoneInFlight, InFlight, HasQueued, Runs
<1>6. ~pm_prepare_D3
  BY <1>0, Zenon DEF HandoverInv, PowerInv
<1>1. TypeOK'
  <2>1. requests' \in 0..MaxRequests
    BY BoundAssumption DEF HandoverInv, TypeOK, HostRequest
  <2>2. g_last_data' \in Request
    BY <2>1, Zenon DEF HostRequest, Request
  <2> QED BY <1>0, <2>1, <2>2, Zenon DEF HandoverInv, TypeOK, cores
<1>2. HostSignalledLast'
  BY <1>0, Zenon DEF HostSignalledLast
<1>3. Contexts'
  BY <1>0, <1>5, Zenon DEF HandoverInv, Contexts, Undecided, NoneInFlight, InFlight, HasQueued, Runs, cores
<1>4. PowerInv'
  BY <1>0, <1>6, Zenon DEF HandoverInv, PowerInv, cores
<1> QED BY <1>1, <1>2, <1>3, <1>4, Zenon DEF HandoverInv

\* ipc_do_cmd starts with the mask of its own context.
LEMMA HandDoCmd ==
    ASSUME HandoverInv, DoCmd
    PROVE  HandoverInv'
<1>0. /\ ipc_task /\ edf = "idle" /\ power # "off" /\ busy /\ ~pm_prepare_D3
      /\ ~ipc_task' /\ task_mask' = {"INLINE"} /\ msg_in' = g_last_data /\ edf' = "process"
      /\ UNCHANGED <<cores, requests, g_last_data, busy, enabled, pm_prepare_D3, power>>
  BY Zenon DEF HandoverInv, HostSignalledLast, PowerInv, DoCmd, host, item, handler, pm, cores
<1>5. NoneInFlight
  BY <1>0, Zenon DEF HandoverInv, Contexts, Undecided
<1>1. TypeOK'
  BY <1>0, Zenon DEF HandoverInv, TypeOK, cores
<1>2. HostSignalledLast'
  BY <1>0, Zenon DEF HostSignalledLast
<1>3. Contexts'
  BY <1>0, <1>5, Zenon DEF HandoverInv, Contexts, Undecided, NoneInFlight, InFlight, HasQueued, Runs, cores
<1>4. PowerInv'
  BY <1>0, Zenon DEF HandoverInv, PowerInv, cores
<1> QED BY <1>1, <1>2, <1>3, <1>4, Zenon DEF HandoverInv

\* ipc_process_on_core adds the context of the secondary core first.
LEMMA HandProcessRemote ==
    ASSUME HandoverInv, ProcessRemote
    PROVE  HandoverInv'
<1>0. /\ edf = "process" /\ busy /\ ~pm_prepare_D3
      /\ \/ edf' = "send" /\ task_mask' = task_mask \cup {"SECONDARY_CORE"}
         \/ edf' = "mask" /\ task_mask' = task_mask
      /\ UNCHANGED <<cores, data, busy, ipc_task, enabled, pm_prepare_D3, power>>
  BY Zenon DEF HandoverInv, HostSignalledLast, PowerInv, ProcessRemote, host, item, handler, pm, cores, data
<1>5. NoneInFlight /\ "INLINE" \in task_mask
  BY <1>0, Zenon DEF HandoverInv, Contexts, Undecided
<1>1. TypeOK'
  BY <1>0, Zenon DEF HandoverInv, TypeOK, cores, data
<1>2. HostSignalledLast'
  BY <1>0, Zenon DEF HostSignalledLast
<1>3. Contexts'
  BY <1>0, <1>5, Zenon DEF HandoverInv, Contexts, Undecided, NoneInFlight, InFlight, HasQueued, Runs, cores
<1>4. PowerInv'
  BY <1>0, Zenon DEF HandoverInv, PowerInv, cores
<1> QED BY <1>1, <1>2, <1>3, <1>4 DEF HandoverInv

\* Then it hands the request over, or finds the core gone.
LEMMA HandDelegate ==
    ASSUME HandoverInv, Delegate
    PROVE  HandoverInv'
<1>0. /\ edf = "send" /\ edf' = "mask" /\ busy /\ ~pm_prepare_D3
      /\ UNCHANGED <<idc, received_msg, data, busy, ipc_task, task_mask, enabled, pm_prepare_D3, power>>
  BY Zenon DEF HandoverInv, HostSignalledLast, PowerInv, Delegate, host, pm, data
<1>5. NoneInFlight /\ "INLINE" \in task_mask /\ "SECONDARY_CORE" \in task_mask /\ ~ipc_task
  BY <1>0, Zenon DEF HandoverInv, Contexts, Undecided
<1>6. CASE msg_in.core \notin enabled
  BY <1>0, <1>6, HandEdf, Zenon DEF Delegate, cores, rest, item
<1>7. CASE msg_in.core \in enabled
  <2> DEFINE c == msg_in.core
             m == [type |-> "IPC", id |-> msg_in.id]
  <2>1. c \in Core /\ m \in IdcMsg /\ TypeOK
    BY <1>7, Zenon DEF HandoverInv, TypeOK, Request, IdcMsg
  <2>2. idc_send_msg(c, m) /\ m.type = "IPC"
    BY <1>7, Zenon DEF Delegate
  <2> HIDE DEF c, m
  <2>3. /\ idc_work' \in [Core -> IdcMsg] /\ pending' \in [Core -> BOOLEAN]
        /\ idc_work'[c] = m /\ pending'[c]
        /\ \A d \in Core \ {c} : idc_work'[d] = idc_work[d] /\ pending'[d] = pending[d]
    BY <2>1, <2>2, SendType, Zenon
  <2>4. \A d \in Core : /\ ~Runs(d)'
                        /\ (HasQueued(d)' \/ InFlight(d)') => d = c
    BY <1>0, <1>5, <2>1, <2>3, Zenon DEF NoneInFlight, InFlight, HasQueued, Runs
  <2>5. TypeOK'
    BY <1>0, <2>1, <2>3, Zenon DEF TypeOK, data
  <2>6. HostSignalledLast'
    BY <1>0, Zenon DEF HostSignalledLast
  <2>7. \A d \in Core : idc[d] \notin {"reply", "clear"}
    BY <1>5, Zenon DEF HandoverInv, Contexts, Undecided, NoneInFlight, InFlight
  <2>8. Contexts'
    BY <1>0, <1>5, <2>4, <2>7, Zenon DEF Contexts, Undecided
  <2>9. c \in enabled
    BY <1>7, Zenon DEF c
  <2>10. PowerInv'
    BY <1>0, <2>1, <2>3, <2>9, Zenon DEF HandoverInv, PowerInv
  <2> QED BY <2>5, <2>6, <2>8, <2>10 DEF HandoverInv
<1> QED BY <1>6, <1>7, Zenon

\* A blocking call.
LEMMA HandCallCore ==
    ASSUME HandoverInv, CallCore
    PROVE  HandoverInv'
<1>0. /\ edf \in {"process", "call"} /\ ~pm_prepare_D3
      /\ UNCHANGED <<idc, received_msg, data, rest, enabled>>
  BY Zenon DEF HandoverInv, PowerInv, CallCore, host, pm, data, rest
<1>1. CASE msg_in.core \notin enabled
  BY <1>0, <1>1, HandEdf, Zenon DEF CallCore, cores, item
<1>2. CASE msg_in.core \in enabled
  <2> DEFINE m == [type |-> "PPL_STATE", id |-> msg_in.id]
  <2>1. m \in IdcMsg /\ m.type # "IPC"
    BY Zenon DEF HandoverInv, TypeOK, Request, IdcMsg
  <2>2. idc_send_msg(msg_in.core, m) /\ edf' = "wait"
    BY <1>2, Zenon DEF CallCore
  <2> HIDE DEF m
  <2> QED BY <1>0, <1>2, <2>1, <2>2, HandSend, Zenon
<1> QED BY <1>1, <1>2

\* A core is started or stopped; only an idle one is stopped.
LEMMA HandCorePower ==
    ASSUME HandoverInv, enabled' \subseteq Core, UNCHANGED <<cores, data, rest>>,
           \A c \in enabled \ enabled' : Idle(c),
           \/ edf' = edf /\ enabled' \subseteq enabled
           \/ edf = "process" /\ edf' = "mask"
    PROVE  HandoverInv'
<1>1. TypeOK'
  BY Zenon DEF HandoverInv, TypeOK, cores, data
<1>2. HostSignalledLast'
  BY Zenon DEF HandoverInv, HostSignalledLast, cores, rest
<1>3. Contexts'
  BY Zenon DEF HandoverInv, Contexts, Undecided, NoneInFlight, InFlight, HasQueued, Runs, cores, rest
<1>4. PowerInv'
  <2>1. \A c \in Core : pending'[c] \/ idc'[c] # "idle" => c \in enabled'
    BY Zenon DEF HandoverInv, PowerInv, Idle, cores
  <2>2. pm_prepare_D3 => enabled' = {} /\ edf' = edf
    BY Zenon DEF HandoverInv, PowerInv
  <2> QED BY <2>1, <2>2, Zenon DEF HandoverInv, PowerInv, rest
<1> QED BY <1>1, <1>2, <1>3, <1>4, Zenon DEF HandoverInv

\* D3 is prepared with all secondary cores off.
LEMMA HandPrepareD3 ==
    ASSUME HandoverInv, PrepareD3
    PROVE  HandoverInv'
<1>0. /\ edf = "process" /\ edf' = "mask" /\ busy /\ power # "off"
      /\ UNCHANGED <<cores, data, busy, ipc_task, enabled, power>>
  BY Zenon DEF HandoverInv, HostSignalledLast, PowerInv, PrepareD3, host, item, handler, cores, data
<1>5. "INLINE" \in task_mask /\ NoneInFlight /\ ~ipc_task
  BY <1>0, Zenon DEF HandoverInv, Contexts, Undecided
<1>6. task_mask \subseteq task_mask'
  BY Zenon DEF PrepareD3
<1>7. pm_prepare_D3' => enabled = {} /\ "POWERDOWN" \in task_mask'
  BY Zenon DEF HandoverInv, PowerInv, PrepareD3
<1>1. TypeOK'
  BY <1>0, Zenon DEF HandoverInv, TypeOK, cores, data
<1>2. HostSignalledLast'
  BY <1>0, Zenon DEF HostSignalledLast
<1>3. Contexts'
  BY <1>0, <1>5, <1>6, Zenon DEF HandoverInv, Contexts, Undecided, NoneInFlight, InFlight, HasQueued, Runs, cores
<1>4. PowerInv'
  BY <1>0, <1>5, <1>7, Zenon DEF HandoverInv, PowerInv, cores
<1> QED BY <1>1, <1>2, <1>3, <1>4 DEF HandoverInv

\* The IPC task ends: if no context is left, no core has the request.
LEMMA HandCompleteTask ==
    ASSUME HandoverInv, CompleteTask
    PROVE  HandoverInv'
<1>0. /\ edf = "complete" /\ edf' = "idle" /\ busy
      /\ task_mask' = task_mask \ {"INLINE"}
      /\ busy' <=> task_mask' # {}
      /\ UNCHANGED <<cores, data, ipc_task, enabled, pm_prepare_D3, power>>
  BY Zenon DEF HandoverInv, HostSignalledLast, CompleteTask, Complete, item, handler, pm, cores, data
<1>5. ~ipc_task /\ power # "off"
  BY <1>0, Zenon DEF HandoverInv, Contexts, Undecided, PowerInv
<1>6. \A c \in Core : InFlight(c) => "SECONDARY_CORE" \in task_mask'
  BY <1>0, Zenon DEF HandoverInv, Contexts, Undecided
<1>1. TypeOK'
  BY <1>0, Zenon DEF HandoverInv, TypeOK, cores, data
<1>2. HostSignalledLast'
  <2>1. ~busy' => NoneInFlight
    BY <1>0, <1>6, Zenon DEF NoneInFlight
  <2> QED BY <1>0, <1>5, <2>1, Zenon DEF HostSignalledLast, NoneInFlight, InFlight, HasQueued, Runs, cores
<1>3. Contexts'
  BY <1>0, <1>5, <1>6, Zenon DEF HandoverInv, Contexts, Undecided, NoneInFlight, InFlight, HasQueued, Runs, cores
<1>4. PowerInv'
  BY <1>0, <1>5, Zenon DEF HandoverInv, PowerInv, cores
<1> QED BY <1>1, <1>2, <1>3, <1>4 DEF HandoverInv

\* A secondary core takes its work item.
LEMMA HandIdcStart ==
    ASSUME HandoverInv, NEW c \in Core, IdcStart(c)
    PROVE  HandoverInv'
<1>0. /\ pending[c] /\ idc[c] = "idle" /\ c \in enabled
      /\ UNCHANGED <<data, rest, edf, enabled, idc_work>>
  BY Zenon DEF IdcStart, host, thread, pm, data, rest
<1>1. TypeOK'
  BY <1>0, Zenon DEF HandoverInv, TypeOK, IdcStart, data
<1>5. /\ ~pending'[c] /\ idc'[c] = "run" /\ received_msg'[c] = idc_work[c]
      /\ \A d \in Core \ {c} : /\ pending'[d] = pending[d] /\ idc'[d] = idc[d]
                              /\ received_msg'[d] = received_msg[d]
  BY Zenon DEF HandoverInv, TypeOK, IdcStart
<1>6. \A d \in Core : InFlight(d)' <=> InFlight(d)
  BY <1>0, <1>5, Zenon DEF InFlight, HasQueued, Runs
<1>2. HostSignalledLast'
  BY <1>0, <1>5, Zenon DEF HandoverInv, HostSignalledLast, rest
<1>3. Contexts'
  <2>1. \A d \in Core : ~(HasQueued(d) /\ Runs(d))'
    BY <1>0, <1>5, Zenon DEF HandoverInv, Contexts, Undecided, HasQueued, Runs
  <2>2. \A d \in Core : (idc[d] \in {"reply", "clear"} => Runs(d))'
    BY <1>0, <1>5, Zenon DEF HandoverInv, Contexts, Undecided, Runs
  <2> QED BY <1>0, <1>6, <2>1, <2>2, Zenon DEF HandoverInv, Contexts, Undecided, NoneInFlight, rest
<1>4. PowerInv'
  BY <1>0, <1>5, Zenon DEF HandoverInv, PowerInv, rest
<1> QED BY <1>1, <1>2, <1>3, <1>4, Zenon DEF HandoverInv

\* It works on it.
LEMMA HandIdcWork ==
    ASSUME HandoverInv, NEW c \in Core, IdcRun(c) \/ IdcReply(c) \/ IdcStatus(c)
    PROVE  HandoverInv'
<1>0. idc[c] # "idle" /\ UNCHANGED <<data, rest, edf, enabled, idc_work, pending, received_msg>>
  BY Zenon DEF IdcRun, IdcReply, IdcStatus, host, thread, item, pm, data, rest
<1>1. TypeOK'
  BY <1>0, Zenon DEF HandoverInv, TypeOK, IdcRun, IdcReply, IdcStatus, data
<1>5. /\ \A d \in Core \ {c} : idc'[d] = idc[d]
      /\ idc'[c] = "idle" => received_msg[c].type # "IPC"
      /\ idc'[c] \in {"reply", "clear"} => received_msg[c].type = "IPC"
  BY Zenon DEF HandoverInv, TypeOK, IdcRun, IdcReply, IdcStatus
<1>6. \A d \in Core : (InFlight(d)' <=> InFlight(d)) /\ (Runs(d)' <=> Runs(d))
                      /\ (HasQueued(d)' <=> HasQueued(d))
  <2> SUFFICES ASSUME NEW d \in Core PROVE (HasQueued(d)' <=> HasQueued(d)) /\ (Runs(d)' <=> Runs(d))
    BY Zenon DEF InFlight
  <2>1. HasQueued(d)' <=> HasQueued(d)
    BY <1>0, Zenon DEF HasQueued
  <2>2. CASE d # c
    BY <1>0, <1>5, <2>1, <2>2, Zenon DEF Runs
  <2>3. CASE d = c
    BY <1>0, <1>5, <2>1, <2>3, Zenon DEF Runs
  <2> QED BY <2>2, <2>3, Zenon
<1>2. HostSignalledLast'
  BY <1>0, <1>5, Zenon DEF HandoverInv, HostSignalledLast, rest
<1>3. Contexts'
  <2>1. \A d \in Core : (idc[d] \in {"reply", "clear"} => Runs(d))'
    BY <1>0, <1>5, Zenon DEF HandoverInv, Contexts, Undecided, Runs
  <2> QED BY <1>0, <1>6, <2>1, Zenon DEF HandoverInv, Contexts, Undecided, NoneInFlight, rest
<1>4. PowerInv'
  BY <1>0, <1>5, Zenon DEF HandoverInv, PowerInv, rest
<1> QED BY <1>1, <1>2, <1>3, <1>4, Zenon DEF HandoverInv

\* It leaves the mask: if no context is left, the EDF thread is done.
LEMMA HandIdcClear ==
    ASSUME HandoverInv, NEW c \in Core, IdcClear(c)
    PROVE  HandoverInv'
<1>0. /\ idc[c] = "clear"
      /\ task_mask' = task_mask \ {"SECONDARY_CORE"}
      /\ busy' <=> busy /\ task_mask' # {}
      /\ UNCHANGED <<data, edf, ipc_task, pm_prepare_D3, power, enabled, idc_work, pending, received_msg>>
  BY Zenon DEF IdcClear, Complete, thread, item, pm, data
<1>5. Runs(c) /\ ~HasQueued(c)
  BY <1>0, Zenon DEF HandoverInv, Contexts, Undecided
<1>6. busy /\ ~ipc_task /\ edf \notin Undecided /\ power # "off"
  <2>1. ~NoneInFlight
    BY <1>5, Zenon DEF NoneInFlight, InFlight
  <2>2. busy
    BY <2>1, Zenon DEF HandoverInv, HostSignalledLast, NoneInFlight, InFlight, HasQueued, Runs
  <2> QED BY <2>1, <2>2, Zenon DEF HandoverInv, Contexts, Undecided, PowerInv
<1>7. \A d \in Core \ {c} : ~InFlight(d)
  BY <1>5, Zenon DEF HandoverInv, Contexts, Undecided, InFlight
<1>8. idc'[c] = "idle" /\ \A d \in Core \ {c} : idc'[d] = idc[d]
  BY Zenon DEF HandoverInv, TypeOK, IdcClear
<1>9. NoneInFlight'
  BY <1>0, <1>5, <1>7, <1>8, Zenon DEF NoneInFlight, InFlight, HasQueued, Runs
<1>1. TypeOK'
  BY <1>0, Zenon DEF HandoverInv, TypeOK, IdcClear, data
<1>2. HostSignalledLast'
  <2>1. ~busy' => edf = "idle"
    BY <1>0, <1>6 DEF HandoverInv, Contexts, Undecided
  <2> QED BY <1>0, <1>6, <1>9, <2>1, Zenon DEF HostSignalledLast, NoneInFlight, InFlight, HasQueued, Runs
<1>3. Contexts'
  <2>1. \A d \in Core : ~HasQueued(d)' /\ ~Runs(d)' /\ ~InFlight(d)'
    BY <1>9, Zenon DEF NoneInFlight, InFlight
  <2>2. \A d \in Core : idc'[d] \notin {"reply", "clear"}
    BY <1>7, <1>8, Zenon DEF HandoverInv, Contexts, Undecided, InFlight
  <2>3. (edf # "idle" => "INLINE" \in task_mask) /\ (ipc_task => edf = "idle")
    BY Zenon DEF HandoverInv, Contexts, Undecided
  <2> QED BY <1>0, <1>6, <1>9, <2>1, <2>2, <2>3, Zenon DEF Contexts, Undecided
<1>4. PowerInv'
  BY <1>0, <1>6, <1>8, Zenon DEF HandoverInv, PowerInv
<1> QED BY <1>1, <1>2, <1>3, <1>4 DEF HandoverInv

\* The primary core enters D3, or refuses to.
LEMMA HandSuspend ==
    ASSUME HandoverInv, Suspend
    PROVE  HandoverInv'
<1>0. /\ power = "on" /\ pm_prepare_D3 /\ edf = "idle"
      /\ (power' = "off" /\ ~busy') \/ (power' = "refused" /\ (busy' <=> busy))
      /\ UNCHANGED <<cores, data, edf, ipc_task, task_mask, enabled, pm_prepare_D3>>
  BY Zenon DEF Suspend, thread, item, handler, cores, data
<1>5. ~ipc_task /\ enabled = {} /\ "POWERDOWN" \in task_mask
  BY <1>0, Zenon DEF HandoverInv, PowerInv
<1>6. busy
  BY <1>0, <1>5, Zenon DEF HandoverInv, HostSignalledLast
<1>7. \A c \in Core : ~pending[c] /\ idc[c] = "idle"
  BY <1>5, Zenon DEF HandoverInv, PowerInv
<1>1. TypeOK'
  BY <1>0, Zenon DEF HandoverInv, TypeOK, cores, data
<1>2. HostSignalledLast'
  BY <1>0, <1>5, <1>6, <1>7, Zenon DEF HostSignalledLast, cores
<1>3. Contexts'
  BY <1>0, Zenon DEF HandoverInv, Contexts, Undecided, NoneInFlight, InFlight, HasQueued, Runs, cores
<1>4. PowerInv'
  BY <1>0, <1>5, <1>7, Zenon DEF PowerInv, cores
<1> QED BY <1>1, <1>2, <1>3, <1>4 DEF HandoverInv

\* It comes back with an empty mask.
LEMMA HandResume ==
    ASSUME HandoverInv, Resume
    PROVE  HandoverInv'
<1>0. /\ power = "off" /\ power' = "on" /\ task_mask' = {} /\ ~pm_prepare_D3' /\ ~ipc_task'
      /\ UNCHANGED <<cores, data, busy, edf, enabled>>
  BY Zenon DEF Resume, host, item, handler, cores, data
<1>5. ~busy /\ enabled = {}
  BY <1>0, Zenon DEF HandoverInv, PowerInv
<1>6. edf = "idle"
  BY <1>5, Zenon DEF HandoverInv, HostSignalledLast
<1>7. \A c \in Core : ~pending[c] /\ idc[c] = "idle"
  BY <1>5, Zenon DEF HandoverInv, PowerInv
<1>1. TypeOK'
  BY <1>0, Zenon DEF HandoverInv, TypeOK, cores, data
<1>2. HostSignalledLast'
  BY <1>0, <1>6, <1>7, Zenon DEF HostSignalledLast, cores
<1>3. Contexts'
  BY <1>0, <1>6, <1>7, Zenon DEF Contexts, Undecided, NoneInFlight, InFlight, HasQueued, Runs, cores
<1>4. PowerInv'
  BY <1>0, <1>7, Zenon DEF PowerInv, cores
<1> QED BY <1>1, <1>2, <1>3, <1>4 DEF HandoverInv

\* Every step keeps the invariant.
LEMMA HandStep == HandoverInv /\ [Next]_vars => HandoverInv'
<1> SUFFICES ASSUME HandoverInv, [Next]_vars PROVE HandoverInv'
  BY Zenon
<1>1. CASE \E k \in Kind, c \in Core : HostRequest(k, c)
  BY <1>1, HandHostRequest, Zenon
<1>2. CASE HostTakes
  BY <1>2, HandUnchanged, Zenon DEF HostTakes, hand, thread, item, handler, pm
<1>3. CASE DoCmd
  BY <1>3, HandDoCmd, Zenon
<1>4. CASE ProcessLocal
  BY <1>4, HandEdf, Zenon DEF ProcessLocal, cores, data, rest, host, item, handler, pm
<1>5. CASE ProcessRemote
  BY <1>5, HandProcessRemote, Zenon
<1>6. CASE Delegate
  BY <1>6, HandDelegate, Zenon
<1>7. CASE CallCore
  BY <1>7, HandCallCore
<1>8. CASE CallReturns
  <2>1. edf = "wait" /\ edf' \in {"mask", "call"} /\ UNCHANGED <<cores, data, rest, enabled>>
    BY <1>8, Zenon DEF CallReturns, cores, data, rest, host, item, handler, pm
  <2>2. ~pm_prepare_D3
    BY <2>1, Zenon DEF HandoverInv, PowerInv
  <2> QED BY <2>1, <2>2, HandEdf, Zenon
<1>9. CASE CallTimesOut
  BY <1>9, HandEdf, Zenon DEF CallTimesOut, cores, data, rest, host, item, handler, pm
<1>10. CASE CoreOn
  <2>1. /\ edf = "process" /\ edf' = "mask" /\ enabled' = enabled \cup {msg_in.core}
        /\ UNCHANGED <<cores, data, rest>>
    BY <1>10, Zenon DEF CoreOn, cores, data, rest, host, item, handler
  <2>2. enabled \subseteq Core /\ msg_in.core \in Core
    BY Zenon DEF HandoverInv, TypeOK, Request
  <2>3. enabled' \subseteq Core /\ \A c \in enabled \ enabled' : Idle(c)
    BY <2>1, <2>2, Zenon
  <2> QED BY <2>1, <2>3, HandCorePower, Zenon
<1>11. CASE CoreOff
  <2>1. /\ edf = "process" /\ edf' = "mask"
        /\ UNCHANGED <<cores, data, rest>>
    BY <1>11, Zenon DEF CoreOff, cores, data, rest, host, item, handler
  <2>2. enabled \subseteq Core
    BY Zenon DEF HandoverInv, TypeOK
  <2>3. enabled' = enabled \/ (enabled' = enabled \ {msg_in.core} /\ Idle(msg_in.core))
    BY <1>11, Zenon DEF CoreOff
  <2>4. enabled' \subseteq Core /\ \A c \in enabled \ enabled' : Idle(c)
    BY <2>2, <2>3, Zenon
  <2> QED BY <2>1, <2>4, HandCorePower, Zenon
<1>12. CASE PrepareD3
  BY <1>12, HandPrepareD3
<1>13. CASE CheckMask
  BY <1>13, HandEdf, Zenon DEF CheckMask, cores, data, rest, host, item, handler, pm
<1>14. CASE CheckReply
  BY <1>14, HandEdf, Zenon DEF CheckReply, cores, data, rest, host, item, handler, pm
<1>15. CASE CompleteTask
  BY <1>15, HandCompleteTask
<1>16. ASSUME NEW c \in Core, NotifyCore(c) PROVE HandoverInv'
  <2> DEFINE m == [type |-> "NOTIFY", id |-> 0]
  <2>1. m \in IdcMsg /\ m.type # "IPC"
    BY BoundAssumption DEF IdcMsg
  <2>2. /\ idc_send_msg(c, m) /\ c \in enabled
        /\ UNCHANGED <<idc, received_msg, data, rest, enabled, edf>>
    BY <1>16, Zenon DEF NotifyCore, data, rest, host, thread, pm
  <2> HIDE DEF m
  <2> QED BY <2>1, <2>2, HandSend, Zenon
<1>17. ASSUME NEW c \in Core, CoreIdles(c) PROVE HandoverInv'
  <2>1. enabled' = enabled \ {c} /\ Idle(c) /\ UNCHANGED <<cores, data, rest, edf>>
    BY <1>17, Zenon DEF CoreIdles, cores, data, rest, host, thread, item, handler
  <2>2. enabled \subseteq Core
    BY Zenon DEF HandoverInv, TypeOK
  <2>3. enabled' \subseteq Core /\ enabled' \subseteq enabled /\ \A d \in enabled \ enabled' : Idle(d)
    BY <2>1, <2>2, Zenon
  <2> QED BY <2>1, <2>3, HandCorePower, Zenon
<1>18. ASSUME NEW c \in Core, IdcThread(c) PROVE HandoverInv'
  BY <1>18, HandIdcStart, HandIdcWork, HandIdcClear, Zenon DEF IdcThread
<1>19. ASSUME NEW m \in Msg, Notify(m) \/ FreeMsg(m) PROVE HandoverInv'
  BY <1>19, HandUnchanged, Zenon DEF Notify, FreeMsg, hand, host, thread, item, handler, pm
<1>20. CASE SendQueuedMsg \/ WorkHandlerEnd
  BY <1>20, HandUnchanged, Zenon DEF SendQueuedMsg, WorkHandlerEnd, hand, host, thread, item, handler, pm
<1>21. CASE Suspend
  BY <1>21, HandSuspend
<1>22. CASE Resume
  BY <1>22, HandResume
<1>23. CASE UNCHANGED vars
  BY <1>23, HandUnchanged, Zenon DEF vars, hand, host, thread, item, handler, pm
<1> QED
  BY <1>1, <1>2, <1>3, <1>4, <1>5, <1>6, <1>7, <1>8, <1>9, <1>10, <1>11, <1>12, <1>13, <1>14,
     <1>15, <1>16, <1>17, <1>18, <1>19, <1>20, <1>21, <1>22, <1>23, Zenon
  DEF Next, Step, IdcThread

\* On any number of cores, however the EDF thread, the cores the request was
\* passed to, power management and D3 interleave, the host sees BUSY cleared
\* only when no context works on its request any more.
THEOREM SignalLast == Spec => []HostSignalledLast
<1>1. HandoverInv => HostSignalledLast
  BY Zenon DEF HandoverInv
<1> QED BY <1>1, HandInit, HandStep, PTL DEF Spec

-----------------------------------------------------------------------------
(* One reply to each request.                                              *)

ans == <<msg_reply, replies>>

\* What is to be shown of a step.
Goal == ReplyInv /\ ExactlyOneReply

\* Steps that leave the request, its contexts and its reply alone.
LEMMA ReplyUnchanged ==
    Goal /\ UNCHANGED <<cores, rest, ans, edf, requests>> => Goal'
BY DEF Goal, ReplyInv, ExactlyOneReply, Decided, Delegated, PoweredDown, Settled, HasQueued, Runs,
       Undecided, cores, rest, ans

\* There is no reply at the start, and no request.
LEMMA ReplyInit == Init => Goal
<1> SUFFICES ASSUME Init PROVE Goal
  OBVIOUS
<1>1. Decided
  BY Zenon DEF Init, Decided, Undecided
<1>2. Delegated
  BY Zenon DEF Init, Delegated, HasQueued, Runs
<1>3. PoweredDown /\ replies \in {0, 1}
  BY Zenon DEF Init, PoweredDown
<1>4. ExactlyOneReply
  BY DEF Init, ExactlyOneReply
<1> QED BY <1>1, <1>2, <1>3, <1>4, Zenon DEF Goal, ReplyInv

\* The bound of ExactlyOneReply, without its arithmetic.
LEMMA OneReply ==
    ASSUME ExactlyOneReply, replies' \in {0, 1}, requests' = requests \/ busy',
           ~busy' => (~busy /\ replies' = replies) \/ replies' = 1
    PROVE  ExactlyOneReply'
<1>1. replies' <= 1
  OBVIOUS
<1>2. ~busy' /\ requests' > 0 => replies' = 1
  <2> SUFFICES ASSUME ~busy', requests' > 0, replies' # 1 PROVE FALSE
    BY Zenon
  <2>1. ~busy /\ replies' = replies /\ requests' = requests
    BY Zenon
  <2> QED BY <2>1, Zenon DEF ExactlyOneReply
<1> QED BY <1>1, <1>2, Zenon DEF ExactlyOneReply

\* The EDF thread goes on with a request it has not passed on.
LEMMA ReplyEdf ==
    ASSUME Goal, edf \in Undecided, edf' \in {"mask", "call", "wait"},
           UNCHANGED <<ans, rest, requests>>,
           \A c \in Core : /\ idc'[c] = idc[c] /\ received_msg'[c] = received_msg[c]
                           /\ HasQueued(c)' => HasQueued(c)
    PROVE  Goal'
<1>1. Decided'
  BY Zenon DEF Goal, ReplyInv, Decided, Settled, Undecided, ans, rest
<1>2. Delegated'
  BY Zenon DEF Goal, ReplyInv, Delegated, Runs, ans
<1>3. PoweredDown' /\ replies' \in {0, 1}
  BY Zenon DEF Goal, ReplyInv, PoweredDown, ans, rest
<1>4. ExactlyOneReply'
  BY Zenon DEF Goal, ExactlyOneReply, ans, rest
<1> QED BY <1>1, <1>2, <1>3, <1>4, Zenon DEF Goal, ReplyInv

\* A notification to a core.
LEMMA ReplyNotifyCore ==
    ASSUME HandoverInv, Goal, NEW c \in Core, NotifyCore(c)
    PROVE  Goal'
<1> DEFINE m == [type |-> "NOTIFY", id |-> 0]
<1>1. m \in IdcMsg /\ m.type # "IPC" /\ TypeOK
  BY BoundAssumption DEF IdcMsg, HandoverInv
<1>2. idc_send_msg(c, m) /\ UNCHANGED <<idc, received_msg, rest, ans, edf, requests>>
  BY Zenon DEF NotifyCore, rest, ans, host, thread, answer, pm
<1> HIDE DEF m
<1>3. \A d \in Core : HasQueued(d)' => HasQueued(d)
  BY <1>1, <1>2, SendType DEF HasQueued
<1>4. Delegated'
  BY <1>2, <1>3, Zenon DEF Goal, ReplyInv, Delegated, Runs, ans
<1>5. Decided' /\ PoweredDown' /\ replies' \in {0, 1}
  BY <1>2, Zenon DEF Goal, ReplyInv, Decided, PoweredDown, Settled, Undecided, ans, rest
<1>6. ExactlyOneReply'
  BY <1>2, Zenon DEF Goal, ExactlyOneReply, ans, rest
<1> QED BY <1>4, <1>5, <1>6, Zenon DEF Goal, ReplyInv

\* A new request has no reply.
LEMMA ReplyHostRequest ==
    ASSUME HandoverInv, HandoverInv', Goal, NEW k \in Kind, NEW c \in Core, HostRequest(k, c)
    PROVE  Goal'
<1>0. /\ power = "on" /\ edf = "idle" /\ task_mask = {} /\ ~pm_prepare_D3
      /\ busy' /\ replies' = 0
      /\ UNCHANGED <<cores, edf, task_mask, pm_prepare_D3, power, msg_reply>>
  BY Zenon DEF HandoverInv, HostSignalledLast, PowerInv, HostRequest, item, handler, pm, cores
<1>5. NoneInFlight'
  BY Zenon DEF HandoverInv, Contexts, HostRequest
<1>6. \A d \in Core : idc'[d] \notin {"reply", "clear"}
  BY <1>5, Zenon DEF HandoverInv, Contexts, NoneInFlight, InFlight
<1>1. Decided'
  BY <1>0, Zenon DEF Decided, Undecided
<1>2. Delegated'
  BY <1>0, <1>5, <1>6, Zenon DEF Delegated, NoneInFlight, InFlight
<1>3. PoweredDown' /\ replies' \in {0, 1}
  BY <1>0, Zenon DEF PoweredDown
<1>4. ExactlyOneReply'
  BY <1>0, <1>3, OneReply, Zenon DEF Goal
<1> QED BY <1>1, <1>2, <1>3, <1>4, Zenon DEF Goal, ReplyInv

\* The IPC task starts.
LEMMA ReplyDoCmd ==
    ASSUME HandoverInv, HandoverInv', Goal, DoCmd
    PROVE  Goal'
<1>0. /\ ipc_task /\ ~pm_prepare_D3 /\ busy
      /\ edf' = "process" /\ ~ipc_task' /\ msg_reply' = "request" /\ task_mask' = {"INLINE"}
      /\ UNCHANGED <<busy, pm_prepare_D3, power, replies, requests>>
  BY Zenon DEF HandoverInv, HostSignalledLast, PowerInv, DoCmd, host, pm
<1>5. NoneInFlight'
  BY <1>0, Zenon DEF HandoverInv, Contexts, Undecided
<1>6. \A d \in Core : idc'[d] \notin {"reply", "clear"}
  BY <1>5, Zenon DEF HandoverInv, Contexts, NoneInFlight, InFlight
<1>7. replies = 0
  BY <1>0, Zenon DEF Goal, ReplyInv, Decided
<1>1. Decided'
  BY <1>0, <1>7, Zenon DEF Decided, Undecided
<1>2. Delegated'
  BY <1>5, <1>6, Zenon DEF Delegated, NoneInFlight, InFlight
<1>3. PoweredDown' /\ replies' \in {0, 1}
  BY <1>0, <1>7, Zenon DEF PoweredDown, Goal, ReplyInv
<1>4. ExactlyOneReply'
  BY <1>0, <1>3, OneReply, Zenon DEF Goal
<1> QED BY <1>1, <1>2, <1>3, <1>4, Zenon DEF Goal, ReplyInv

\* The context of the secondary core enters the mask before anyone replies.
LEMMA ReplyProcessRemote ==
    ASSUME HandoverInv, Goal, ProcessRemote
    PROVE  Goal'
<1>0. /\ edf = "process"
      /\ \/ edf' = "send" /\ task_mask' = task_mask \cup {"SECONDARY_CORE"}
         \/ edf' = "mask" /\ task_mask' = task_mask
      /\ UNCHANGED <<cores, ans, busy, ipc_task, pm_prepare_D3, power, requests>>
  BY Zenon DEF ProcessRemote, host, answer, item, handler, pm, cores, ans
<1>5. replies = 0 /\ msg_reply = "request"
  BY <1>0, Zenon DEF Goal, ReplyInv, Decided, Undecided
<1>1. Decided'
  BY <1>0, <1>5, Zenon DEF Decided, Settled, Undecided, ans
<1>2. Delegated'
  BY <1>0, Zenon DEF Goal, ReplyInv, Delegated, HasQueued, Runs, cores, ans
<1>3. PoweredDown' /\ replies' \in {0, 1}
  BY <1>0, Zenon DEF Goal, ReplyInv, PoweredDown, ans
<1>4. ExactlyOneReply'
  BY <1>0, Zenon DEF Goal, ExactlyOneReply, ans
<1> QED BY <1>1, <1>2, <1>3, <1>4, Zenon DEF Goal, ReplyInv

\* A core gets the request with no reply made.
LEMMA ReplyDelegate ==
    ASSUME HandoverInv, HandoverInv', Goal, Delegate
    PROVE  Goal'
<1>0. /\ edf = "send" /\ edf' = "mask"
      /\ UNCHANGED <<idc, received_msg, ans, rest, requests>>
  BY Zenon DEF Delegate, host, answer, pm, ans, rest
<1>5. replies = 0 /\ msg_reply = "request" /\ NoneInFlight
  BY <1>0, Zenon DEF Goal, ReplyInv, Decided, HandoverInv, Contexts, Undecided
<1>1. Decided'
  BY <1>0, <1>5, Zenon DEF Goal, ReplyInv, Decided, Settled, Undecided, ans, rest
<1>2. Delegated'
  BY <1>0, <1>5, Zenon DEF Delegated, NoneInFlight, InFlight, Runs, ans
<1>3. PoweredDown' /\ replies' \in {0, 1}
  BY <1>0, Zenon DEF Goal, ReplyInv, PoweredDown, ans, rest
<1>4. ExactlyOneReply'
  BY <1>0, Zenon DEF Goal, ExactlyOneReply, ans, rest
<1> QED BY <1>1, <1>2, <1>3, <1>4 DEF Goal, ReplyInv

\* A blocking call, made before anyone replies.
LEMMA ReplyCallCore ==
    ASSUME HandoverInv, Goal, CallCore
    PROVE  Goal'
<1>0. /\ edf \in Undecided /\ edf' \in {"mask", "wait"}
      /\ UNCHANGED <<idc, received_msg, ans, rest, requests>>
  BY Zenon DEF CallCore, host, answer, pm, ans, rest, Undecided
<1>1. \A d \in Core : HasQueued(d)' => HasQueued(d)
  <2>1. CASE msg_in.core \notin enabled
    BY <2>1, Zenon DEF CallCore, item, HasQueued
  <2>2. CASE msg_in.core \in enabled
    <3> DEFINE m == [type |-> "PPL_STATE", id |-> msg_in.id]
    <3>1. m \in IdcMsg /\ m.type # "IPC" /\ TypeOK /\ msg_in.core \in Core
      BY Zenon DEF HandoverInv, TypeOK, Request, IdcMsg
    <3>2. idc_send_msg(msg_in.core, m)
      BY <2>2, Zenon DEF CallCore
    <3> HIDE DEF m
    <3> QED BY <3>1, <3>2, SendType DEF HasQueued
  <2> QED BY <2>1, <2>2, Zenon
<1> QED BY <1>0, <1>1, ReplyEdf, Zenon

\* D3 is prepared with no reply made.
LEMMA ReplyPrepareD3 ==
    ASSUME HandoverInv, Goal, PrepareD3
    PROVE  Goal'
<1>0. /\ edf = "process" /\ edf' = "mask"
      /\ \/ task_mask' = task_mask \cup {"POWERDOWN"} /\ pm_prepare_D3'
         \/ task_mask' = task_mask /\ pm_prepare_D3' = pm_prepare_D3
      /\ UNCHANGED <<cores, ans, busy, ipc_task, power, requests>>
  BY Zenon DEF PrepareD3, host, answer, item, handler, cores, ans
<1>5. replies = 0 /\ msg_reply = "request" /\ ~pm_prepare_D3
  BY <1>0, Zenon DEF Goal, ReplyInv, Decided, HandoverInv, PowerInv, Undecided
<1>6. power = "on" /\ "POWERDOWN" \notin task_mask
  BY <1>5, Zenon DEF Goal, ReplyInv, PoweredDown
<1>1. Decided'
  BY <1>0, <1>5, Zenon DEF Decided, Goal, ReplyInv, Settled, Undecided, ans
<1>2. Delegated'
  BY <1>0, Zenon DEF Goal, ReplyInv, Delegated, HasQueued, Runs, cores, ans
<1>3. PoweredDown' /\ replies' \in {0, 1}
  BY <1>0, <1>5, <1>6, Zenon DEF PoweredDown, ans
<1>4. ExactlyOneReply'
  BY <1>0, Zenon DEF Goal, ExactlyOneReply, ans
<1> QED BY <1>1, <1>2, <1>3, <1>4 DEF Goal, ReplyInv

\* The EDF thread leaves the reply to the secondary core, or comes after it.
LEMMA ReplyCheckMask ==
    ASSUME HandoverInv, Goal, CheckMask
    PROVE  Goal'
<1>0. /\ edf = "mask"
      /\ \/ edf' = "complete" /\ "SECONDARY_CORE" \in task_mask
         \/ edf' = "reply" /\ "SECONDARY_CORE" \notin task_mask
      /\ UNCHANGED <<cores, ans, rest, requests>>
  BY Zenon DEF CheckMask, host, answer, item, handler, pm, cores, ans, rest
<1>5. ~ipc_task
  BY <1>0, Zenon DEF HandoverInv, Contexts
<1>1. Decided'
  BY <1>0, <1>5, Zenon DEF Goal, ReplyInv, Decided, Settled, Undecided, ans, rest
<1>2. Delegated'
  BY <1>0, Zenon DEF Goal, ReplyInv, Delegated, HasQueued, Runs, cores, ans
<1>3. PoweredDown' /\ replies' \in {0, 1}
  BY <1>0, Zenon DEF Goal, ReplyInv, PoweredDown, ans, rest
<1>4. ExactlyOneReply'
  BY <1>0, Zenon DEF Goal, ExactlyOneReply, ans, rest
<1> QED BY <1>1, <1>2, <1>3, <1>4 DEF Goal, ReplyInv

\* It replies unless the secondary core has, or D3 will.
LEMMA ReplyCheckReply ==
    ASSUME HandoverInv, Goal, CheckReply
    PROVE  Goal'
<1>0. /\ edf = "reply" /\ edf' = "complete"
      /\ UNCHANGED <<cores, rest, requests>>
  BY Zenon DEF CheckReply, host, item, handler, pm, cores, rest
<1>5. ~ipc_task /\ "SECONDARY_CORE" \notin task_mask /\ Settled
  BY <1>0, Zenon DEF HandoverInv, Contexts, Goal, ReplyInv, Decided
<1>6. NoneInFlight
  BY <1>5, Zenon DEF HandoverInv, Contexts, NoneInFlight
<1>7. \A d \in Core : idc[d] \notin {"reply", "clear"}
  BY <1>6, Zenon DEF HandoverInv, Contexts, NoneInFlight, InFlight
<1>8. CASE pm_prepare_D3
  <2>1. UNCHANGED ans
    BY <1>8, Zenon DEF CheckReply, HandoverInv, PowerInv, answer, ans
  <2>2. Decided'
    BY <1>0, <1>5, <1>8, <2>1, Zenon DEF Decided, Undecided, rest
  <2>3. Delegated'
    BY <1>0, <1>6, <1>7, Zenon DEF Delegated, NoneInFlight, InFlight, HasQueued, Runs, cores
  <2>4. PoweredDown' /\ replies' \in {0, 1}
    BY <1>0, <2>1, Zenon DEF Goal, ReplyInv, PoweredDown, ans, rest
  <2>5. ExactlyOneReply'
    BY <1>0, <2>1, Zenon DEF Goal, ExactlyOneReply, ans, rest
  <2> QED BY <2>2, <2>3, <2>4, <2>5 DEF Goal, ReplyInv
<1>9. CASE ~pm_prepare_D3
  <2>1. "POWERDOWN" \notin task_mask /\ power = "on"
    BY <1>9, Zenon DEF Goal, ReplyInv, PoweredDown
  <2>2. replies' = 1
    <3>1. CASE msg_reply = "request" /\ replies = 0
      BY <2>1, <3>1 DEF CheckReply, SendReply
    <3>2. CASE msg_reply = "reply" /\ replies = 1
      BY <2>1, <3>2, Zenon DEF CheckReply, answer
    <3> QED BY <1>5, <3>1, <3>2, Zenon DEF Settled
  <2>3. Decided'
    BY <1>0, <1>5, <2>2, Zenon DEF Decided, Undecided, rest
  <2>4. Delegated'
    BY <1>0, <1>6, <1>7 DEF Delegated, NoneInFlight, InFlight, HasQueued, Runs, cores
  <2>5. PoweredDown' /\ replies' \in {0, 1}
    BY <1>0, <1>9, <2>1, <2>2, Zenon DEF PoweredDown, rest
  <2>6. ExactlyOneReply'
    BY <1>0, <2>2, <2>5, OneReply, Zenon DEF Goal
  <2> QED BY <2>3, <2>4, <2>5, <2>6 DEF Goal, ReplyInv
<1> QED BY <1>8, <1>9, Zenon

\* The IPC task ends; without a context left it has been replied to.
LEMMA ReplyCompleteTask ==
    ASSUME HandoverInv, Goal, CompleteTask
    PROVE  Goal'
<1>0. /\ edf = "complete" /\ edf' = "idle"
      /\ task_mask' = task_mask \ {"INLINE"}
      /\ busy' <=> busy /\ task_mask' # {}
      /\ UNCHANGED <<cores, ans, ipc_task, pm_prepare_D3, power, requests>>
  BY Zenon DEF CompleteTask, Complete, answer, item, handler, pm, cores, ans
<1>5. ~ipc_task /\ busy
  BY <1>0, Zenon DEF HandoverInv, Contexts, HostSignalledLast
<1>6. replies = 1 \/ "SECONDARY_CORE" \in task_mask \/ "POWERDOWN" \in task_mask
  BY <1>0, Zenon DEF Goal, ReplyInv, Decided, HandoverInv, PowerInv
<1>1. Decided'
  BY <1>0, <1>5, Zenon DEF Decided, Undecided
<1>2. Delegated'
  BY <1>0, Zenon DEF Goal, ReplyInv, Delegated, HasQueued, Runs, cores, ans
<1>3. PoweredDown' /\ replies' \in {0, 1}
  BY <1>0, Zenon DEF Goal, ReplyInv, PoweredDown, ans
<1>4. ExactlyOneReply'
  <2>1. ~busy' => replies' = 1
    BY <1>0, <1>5, <1>6 DEF ans
  <2> QED BY <1>0, <1>3, <2>1, OneReply, Zenon DEF Goal
<1> QED BY <1>1, <1>2, <1>3, <1>4 DEF Goal, ReplyInv

\* A core that has the request excludes the primary core, other cores and D3.
LEMMA Holder ==
    ASSUME HandoverInv, Goal, NEW c \in Core, InFlight(c)
    PROVE  /\ busy /\ ~ipc_task /\ edf \notin Undecided /\ edf # "reply"
           /\ "SECONDARY_CORE" \in task_mask /\ "POWERDOWN" \notin task_mask
           /\ ~pm_prepare_D3 /\ power = "on"
           /\ \A d \in Core \ {c} : ~HasQueued(d) /\ ~Runs(d) /\ idc[d] \notin {"reply", "clear"}
<1>1. ~NoneInFlight
  BY Zenon DEF NoneInFlight
<1>2. busy
  BY <1>1, Zenon DEF HandoverInv, HostSignalledLast, NoneInFlight, InFlight, HasQueued, Runs
<1>3. ~ipc_task /\ edf \notin Undecided /\ "SECONDARY_CORE" \in task_mask
  BY <1>1, Zenon DEF HandoverInv, Contexts
<1>4. edf # "reply"
  BY <1>3, Zenon DEF Goal, ReplyInv, Decided
<1>5. ~pm_prepare_D3
  BY Zenon DEF HandoverInv, PowerInv, InFlight, HasQueued, Runs
<1>6. "POWERDOWN" \notin task_mask /\ power = "on"
  BY <1>5, Zenon DEF Goal, ReplyInv, PoweredDown
<1>7. \A d \in Core \ {c} : ~InFlight(d)
  BY Zenon DEF HandoverInv, Contexts
<1>8. \A d \in Core \ {c} : ~HasQueued(d) /\ ~Runs(d) /\ idc[d] \notin {"reply", "clear"}
  BY <1>7, Zenon DEF HandoverInv, Contexts, InFlight
<1> QED BY <1>2, <1>3, <1>4, <1>5, <1>6, <1>8, Zenon

\* A core takes its work item.
LEMMA ReplyIdcStart ==
    ASSUME HandoverInv, Goal, NEW c \in Core, IdcStart(c)
    PROVE  Goal'
<1>0. /\ pending[c] /\ idc[c] = "idle"
      /\ UNCHANGED <<ans, rest, edf, requests, idc_work>>
  BY Zenon DEF IdcStart, host, thread, answer, pm, ans, rest
<1>5. /\ ~pending'[c] /\ idc'[c] = "run" /\ received_msg'[c] = idc_work[c]
      /\ \A d \in Core \ {c} : /\ pending'[d] = pending[d] /\ idc'[d] = idc[d]
                              /\ received_msg'[d] = received_msg[d]
  BY Zenon DEF HandoverInv, TypeOK, IdcStart
<1>1. Decided'
  BY <1>0, Zenon DEF Goal, ReplyInv, Decided, Settled, Undecided, ans, rest
<1>2. Delegated'
  BY <1>0, <1>5, ZenonT(30) DEF Goal, ReplyInv, Delegated, HasQueued, Runs, ans
<1>3. PoweredDown' /\ replies' \in {0, 1}
  BY <1>0, Zenon DEF Goal, ReplyInv, PoweredDown, ans, rest
<1>4. ExactlyOneReply'
  BY <1>0, Zenon DEF Goal, ExactlyOneReply, ans, rest
<1> QED BY <1>1, <1>2, <1>3, <1>4, Zenon DEF Goal, ReplyInv

\* idc_cmd: a delegated request enters ipc_cmd with no reply made.
LEMMA ReplyIdcRun ==
    ASSUME HandoverInv, Goal, NEW c \in Core, IdcRun(c)
    PROVE  Goal'
<1>0. /\ idc[c] = "run"
      /\ UNCHANGED <<replies, rest, edf, requests, idc_work, pending, received_msg>>
  BY Zenon DEF IdcRun, host, thread, item, pm, rest
<1>5. \A d \in Core \ {c} : idc'[d] = idc[d]
  BY Zenon DEF HandoverInv, TypeOK, IdcRun
<1>6. CASE received_msg[c].type = "IPC"
  <2>1. msg_reply' = "request" /\ idc'[c] = "reply" /\ Runs(c) /\ InFlight(c)
    BY <1>0, <1>6, Zenon DEF HandoverInv, TypeOK, IdcRun, Runs, InFlight
  <2>2. replies = 0
    BY <1>0, <2>1, Zenon DEF Goal, ReplyInv, Delegated
  <2>3. /\ busy /\ ~ipc_task /\ edf \notin Undecided /\ edf # "reply"
        /\ "SECONDARY_CORE" \in task_mask
        /\ \A d \in Core \ {c} : ~HasQueued(d) /\ ~Runs(d) /\ idc[d] \notin {"reply", "clear"}
    BY <2>1, Holder, Zenon
  <2>4. Decided'
    BY <1>0, <2>1, <2>3, Zenon DEF Goal, ReplyInv, Decided, rest
  <2>5. Delegated'
    BY <1>0, <1>5, <2>1, <2>2, <2>3, Zenon DEF Delegated, HasQueued, Runs
  <2>6. PoweredDown' /\ replies' \in {0, 1}
    BY <1>0, Zenon DEF Goal, ReplyInv, PoweredDown, rest
  <2>7. ExactlyOneReply'
    BY <1>0, Zenon DEF Goal, ExactlyOneReply, rest
  <2> QED BY <2>4, <2>5, <2>6, <2>7 DEF Goal, ReplyInv
<1>7. CASE received_msg[c].type # "IPC"
  <2>1. msg_reply' = msg_reply /\ idc'[c] = "status"
    BY <1>7, Zenon DEF HandoverInv, TypeOK, IdcRun
  <2>2. Decided'
    BY <1>0, <2>1, Zenon DEF Goal, ReplyInv, Decided, Settled, Undecided, rest
  <2>3. Delegated'
    BY <1>0, <1>5, <1>7, <2>1, Zenon DEF Goal, ReplyInv, Delegated, HasQueued, Runs
  <2>4. PoweredDown' /\ replies' \in {0, 1}
    BY <1>0 DEF Goal, ReplyInv, PoweredDown, rest
  <2>5. ExactlyOneReply'
    BY <1>0 DEF Goal, ExactlyOneReply, rest
  <2> QED BY <2>2, <2>3, <2>4, <2>5 DEF Goal, ReplyInv
<1> QED BY <1>6, <1>7, Zenon

\* The core that has the request replies to it, the first to do so.
LEMMA ReplyIdcReply ==
    ASSUME HandoverInv, Goal, NEW c \in Core, IdcReply(c)
    PROVE  Goal'
<1>0. /\ idc[c] = "reply"
      /\ UNCHANGED <<rest, edf, requests, idc_work, pending, received_msg>>
  BY Zenon DEF IdcReply, host, thread, item, pm, rest
<1>5. idc'[c] = "status" /\ \A d \in Core \ {c} : idc'[d] = idc[d]
  BY Zenon DEF HandoverInv, TypeOK, IdcReply
<1>6. Runs(c) /\ ~HasQueued(c) /\ InFlight(c)
  BY <1>0, Zenon DEF HandoverInv, Contexts, InFlight
<1>7. /\ busy /\ ~ipc_task /\ edf \notin Undecided /\ edf # "reply"
      /\ "SECONDARY_CORE" \in task_mask /\ "POWERDOWN" \notin task_mask
      /\ ~pm_prepare_D3 /\ power = "on"
      /\ \A d \in Core \ {c} : ~HasQueued(d) /\ ~Runs(d) /\ idc[d] \notin {"reply", "clear"}
  BY <1>6, Holder, Zenon
<1>8. replies = 0 /\ msg_reply = "request"
  BY <1>0, Zenon DEF Goal, ReplyInv, Delegated
<1>9. replies' = 1 /\ msg_reply' = "reply"
  BY <1>7, <1>8 DEF IdcReply, SendReply
<1>1. Decided'
  BY <1>0, <1>7, Zenon DEF Decided, rest
<1>2. Delegated'
  BY <1>0, <1>5, <1>6, <1>7, <1>9, Zenon DEF Delegated, HasQueued, Runs
<1>3. PoweredDown' /\ replies' \in {0, 1}
  BY <1>0, <1>7, <1>9, Zenon DEF PoweredDown, rest
<1>4. ExactlyOneReply'
  BY <1>0, <1>3, <1>9, OneReply, Zenon DEF Goal
<1> QED BY <1>1, <1>2, <1>3, <1>4 DEF Goal, ReplyInv

\* It sets the status.
LEMMA ReplyIdcStatus ==
    ASSUME HandoverInv, Goal, NEW c \in Core, IdcStatus(c)
    PROVE  Goal'
<1>0. /\ idc[c] = "status"
      /\ UNCHANGED <<ans, rest, edf, requests, idc_work, pending, received_msg>>
  BY Zenon DEF IdcStatus, host, thread, answer, pm, rest, ans
<1>5. /\ \A d \in Core \ {c} : idc'[d] = idc[d]
      /\ (idc'[c] = "clear" /\ Runs(c)) \/ idc'[c] = "idle"
  BY <1>0, Zenon DEF HandoverInv, TypeOK, IdcStatus, Runs
<1>1. Decided'
  BY <1>0, Zenon DEF Goal, ReplyInv, Decided, Settled, Undecided, ans, rest
<1>2. Delegated'
  BY <1>0, <1>5, Zenon DEF Goal, ReplyInv, Delegated, HasQueued, Runs, ans
<1>3. PoweredDown' /\ replies' \in {0, 1}
  BY <1>0, Zenon DEF Goal, ReplyInv, PoweredDown, ans, rest
<1>4. ExactlyOneReply'
  BY <1>0, Zenon DEF Goal, ExactlyOneReply, ans, rest
<1> QED BY <1>1, <1>2, <1>3, <1>4 DEF Goal, ReplyInv

\* It leaves the mask, with the reply made.
LEMMA ReplyIdcClear ==
    ASSUME HandoverInv, Goal, NEW c \in Core, IdcClear(c)
    PROVE  Goal'
<1>0. /\ idc[c] = "clear"
      /\ task_mask' = task_mask \ {"SECONDARY_CORE"}
      /\ UNCHANGED <<ans, edf, ipc_task, pm_prepare_D3, power, requests, idc_work, pending, received_msg>>
  BY Zenon DEF IdcClear, Complete, thread, answer, item, pm, ans
<1>5. idc'[c] = "idle" /\ \A d \in Core \ {c} : idc'[d] = idc[d]
  BY Zenon DEF HandoverInv, TypeOK, IdcClear
<1>6. Runs(c) /\ ~HasQueued(c) /\ InFlight(c)
  BY <1>0, Zenon DEF HandoverInv, Contexts, InFlight
<1>7. /\ ~ipc_task /\ edf \notin Undecided /\ edf # "reply"
      /\ "POWERDOWN" \notin task_mask /\ ~pm_prepare_D3 /\ power = "on"
      /\ \A d \in Core \ {c} : ~HasQueued(d) /\ ~Runs(d) /\ idc[d] \notin {"reply", "clear"}
  BY <1>6, Holder, Zenon
<1>8. replies = 1 /\ msg_reply = "reply"
  BY <1>0, <1>6, Zenon DEF Goal, ReplyInv, Delegated
<1>1. Decided'
  BY <1>0, <1>7, <1>8, Zenon DEF Decided, Settled, ans
<1>2. Delegated'
  BY <1>0, <1>5, <1>6, <1>7, Zenon DEF Delegated, HasQueued, Runs
<1>3. PoweredDown' /\ replies' \in {0, 1}
  BY <1>0, <1>7, <1>8, Zenon DEF PoweredDown, ans
<1>4. ExactlyOneReply'
  BY <1>0, <1>3, <1>8, OneReply, Zenon DEF Goal, ans
<1> QED BY <1>1, <1>2, <1>3, <1>4 DEF Goal, ReplyInv

\* D3 answers the request that asked for it, once.
LEMMA ReplySuspend ==
    ASSUME HandoverInv, Goal, Suspend
    PROVE  Goal'
<1>0. /\ power = "on" /\ pm_prepare_D3 /\ edf = "idle"
      /\ power' \in {"off", "refused"} /\ replies' = replies + 1
      /\ UNCHANGED <<cores, edf, ipc_task, task_mask, pm_prepare_D3, requests>>
  BY Zenon DEF Suspend, thread, item, handler, cores
<1>5. ~ipc_task /\ \A c \in Core : ~pending[c] /\ idc[c] = "idle"
  BY <1>0, Zenon DEF HandoverInv, PowerInv
<1>6. replies' = 1
  BY <1>0 DEF Goal, ReplyInv, PoweredDown
<1>1. Decided'
  BY <1>0, <1>5, Zenon DEF Decided, Undecided
<1>2. Delegated'
  BY <1>0, <1>5, Zenon DEF Delegated, HasQueued, Runs, cores
<1>3. PoweredDown' /\ replies' \in {0, 1}
  BY <1>0, <1>6, Zenon DEF PoweredDown
<1>4. ExactlyOneReply'
  BY <1>0, <1>3, <1>6, OneReply, Zenon DEF Goal
<1> QED BY <1>1, <1>2, <1>3, <1>4 DEF Goal, ReplyInv

\* The primary core comes back from D3.
LEMMA ReplyResume ==
    ASSUME HandoverInv, Goal, Resume
    PROVE  Goal'
<1>0. /\ power = "off" /\ power' = "on" /\ task_mask' = {} /\ ~pm_prepare_D3' /\ ~ipc_task'
      /\ UNCHANGED <<cores, ans, busy, edf, requests>>
  BY Zenon DEF Resume, host, answer, item, handler, cores, ans
<1>5. edf = "idle"
  BY <1>0, Zenon DEF HandoverInv, PowerInv, HostSignalledLast
<1>1. Decided'
  BY <1>0, <1>5, Zenon DEF Decided, Undecided
<1>2. Delegated'
  BY <1>0, Zenon DEF Goal, ReplyInv, Delegated, HasQueued, Runs, cores, ans
<1>3. PoweredDown' /\ replies' \in {0, 1}
  BY <1>0, Zenon DEF Goal, ReplyInv, PoweredDown, ans
<1>4. ExactlyOneReply'
  BY <1>0, Zenon DEF Goal, ExactlyOneReply, ans
<1> QED BY <1>1, <1>2, <1>3, <1>4 DEF Goal, ReplyInv

\* Every step keeps the invariant.
LEMMA ReplyStep == HandoverInv /\ HandoverInv' /\ Goal /\ [Next]_vars => Goal'
<1> SUFFICES ASSUME HandoverInv, HandoverInv', Goal, [Next]_vars PROVE Goal'
  BY Zenon
<1> USE DEF cores, rest, ans, host, thread, answer, item, handler, pm
<1>1. CASE \E k \in Kind, c \in Core : HostRequest(k, c)
  BY <1>1, ReplyHostRequest, Zenon
<1>2. CASE HostTakes
  BY <1>2, ReplyUnchanged, Zenon DEF HostTakes
<1>3. CASE DoCmd
  BY <1>3, ReplyDoCmd, Zenon
<1>4. CASE ProcessLocal \/ CallReturns \/ CallTimesOut \/ CoreOn \/ CoreOff
  <2>1. /\ edf \in Undecided /\ edf' \in {"mask", "call"}
        /\ UNCHANGED <<cores, rest, ans, requests>>
    BY <1>4, Zenon DEF ProcessLocal, CallReturns, CallTimesOut, CoreOn, CoreOff, Undecided
  <2>2. \A c \in Core : /\ idc'[c] = idc[c] /\ received_msg'[c] = received_msg[c]
                        /\ HasQueued(c)' => HasQueued(c)
    BY <2>1, Zenon DEF HasQueued
  <2> QED BY <2>1, <2>2, ReplyEdf, Zenon
<1>5. CASE ProcessRemote
  BY <1>5, ReplyProcessRemote, Zenon
<1>6. CASE Delegate
  BY <1>6, ReplyDelegate
<1>7. CASE CallCore
  BY <1>7, ReplyCallCore, Zenon
<1>8. CASE PrepareD3
  BY <1>8, ReplyPrepareD3, Zenon
<1>9. CASE CheckMask \/ CheckReply
  BY <1>9, ReplyCheckMask, ReplyCheckReply, Zenon
<1>10. CASE CompleteTask
  BY <1>10, ReplyCompleteTask
<1>11. ASSUME NEW c \in Core, NotifyCore(c) PROVE Goal'
  BY <1>11, ReplyNotifyCore, Zenon
<1>12. ASSUME NEW c \in Core, CoreIdles(c) PROVE Goal'
  BY <1>12, ReplyUnchanged, Zenon DEF CoreIdles
<1>13. ASSUME NEW c \in Core, IdcThread(c) PROVE Goal'
  BY <1>13, ReplyIdcStart, ReplyIdcRun, ReplyIdcReply, ReplyIdcStatus, ReplyIdcClear, Zenon DEF IdcThread
<1>14. ASSUME NEW m \in Msg, Notify(m) \/ FreeMsg(m) PROVE Goal'
  BY <1>14, ReplyUnchanged, Zenon DEF Notify, FreeMsg
<1>15. CASE SendQueuedMsg \/ WorkHandlerEnd
  BY <1>15, ReplyUnchanged, Zenon DEF SendQueuedMsg, WorkHandlerEnd
<1>16. CASE Suspend \/ Resume
  BY <1>16, ReplySuspend, ReplyResume
<1>17. CASE UNCHANGED vars
  BY <1>17, ReplyUnchanged, Zenon DEF vars
<1> QED
  BY <1>1, <1>2, <1>3, <1>4, <1>5, <1>6, <1>7, <1>8, <1>9, <1>10, <1>11, <1>12, <1>13, <1>14,
     <1>15, <1>16, <1>17, Zenon
  DEF Next, Step, IdcThread

\* On any number of cores, however the EDF thread, the core a request was
\* passed to and D3 race to the end of ipc_cmd, the request gets one reply,
\* and has it when the host sees BUSY cleared.
THEOREM RepliedOnce == Spec => []ExactlyOneReply
<1>1. Goal => ExactlyOneReply
  BY Zenon DEF Goal
<1> QED BY <1>1, HandInit, HandStep, ReplyInit, ReplyStep, PTL DEF Spec

-----------------------------------------------------------------------------
(* The status of a blocking call.                                          *)

CoreSound(c) == ItemSound(c) /\ CallSound(c)

\* A core whose work item, payload and thread a step leaves alone.
LEMMA CoreKept ==
    ASSUME NEW c, CoreSound(c), edf' = "wait" => edf = "wait" /\ msg_in' = msg_in,
           pending'[c] = pending[c], idc_work'[c] = idc_work[c], payload'[c] = payload[c],
           idc'[c] = idc[c], received_msg'[c] = received_msg[c], done'[c] = done[c]
    PROVE  CoreSound(c)'
BY Zenon DEF CoreSound, ItemSound, CallSound

\* A step that leaves the messages between cores alone.
calls == <<idc_work, pending, payload, idc, received_msg, done, clash>>

LEMMA StatusQuiet ==
    ASSUME StatusInv, UNCHANGED calls, edf' = "wait" => edf = "wait" /\ msg_in' = msg_in
    PROVE  StatusInv'
<1>1. ASSUME ~clash, NEW c \in Core PROVE CoreSound(c)'
  BY <1>1, CoreKept, Zenon DEF StatusInv, CoreSound, calls
<1> QED
  BY <1>1, Zenon DEF StatusInv, CoreSound, calls

\* idc_send_msg: a work item that is not in use is written with its payload.
LEMMA StatusSend ==
    ASSUME TypeOK, StatusInv, ~clash, NEW c \in Core, NEW m \in IdcMsg, idc_send_msg(c, m),
           UNCHANGED <<idc, received_msg, msg_in>>,
           edf' = "wait" => \/ edf = "wait"
                            \/ m = [type |-> "PPL_STATE", id |-> msg_in.id] /\ msg_in.core = c
    PROVE  StatusInv'
<1>1. done' \in [Core -> BOOLEAN] /\ ~done'[c] /\ \A d \in Core \ {c} : done'[d] = done[d]
  BY Zenon DEF StatusInv, idc_send_msg
<1>2. /\ payload' \in [Core -> [what : {"command", "status"}, id : 0..MaxRequests]]
      /\ m.type = "PPL_STATE" => payload'[c] = [what |-> "command", id |-> m.id]
      /\ \A d \in Core \ {c} : payload'[d] = payload[d]
  BY Zenon DEF StatusInv, idc_send_msg, IdcMsg
<1>3. /\ idc_work'[c] = m /\ pending'[c]
      /\ \A d \in Core \ {c} : idc_work'[d] = idc_work[d] /\ pending'[d] = pending[d]
  BY Zenon DEF TypeOK, idc_send_msg
<1>4. ~clash' => ~InUse(c)
  BY Zenon DEF idc_send_msg
<1>5. ASSUME ~clash' PROVE CoreSound(c)'
  <2>1. idc[c] = "idle" /\ ~(edf = "wait" /\ msg_in.core = c)
    BY <1>4, <1>5, Zenon DEF InUse
  <2>2. ItemSound(c)'
    BY <1>2, <1>3, <2>1, Zenon DEF ItemSound
  <2>3. CallSound(c)'
    BY <1>1, <1>3, <2>1, Zenon DEF CallSound
  <2> QED
    BY <2>2, <2>3, Zenon DEF CoreSound
<1>6. ASSUME ~clash', NEW d \in Core, d # c PROVE CoreSound(d)'
  <2>1. CoreSound(d)
    BY Zenon DEF StatusInv, CoreSound
  <2>2. CASE edf' = "wait" /\ edf # "wait"
    <3>1. msg_in.core # d
      BY <1>6, <2>2, Zenon
    <3>2. ItemSound(d)'
      BY <1>2, <1>3, <1>6, <2>1, Zenon DEF CoreSound, ItemSound
    <3> QED
      BY <3>1, <3>2, Zenon DEF CoreSound, CallSound
  <2>3. CASE edf' = "wait" => edf = "wait"
    BY <1>1, <1>2, <1>3, <1>6, <2>1, <2>3, CoreKept, Zenon
  <2> QED
    BY <2>2, <2>3, Zenon
<1> QED
  BY <1>1, <1>2, <1>5, <1>6, Zenon DEF StatusInv, CoreSound

\* The thread of a core takes its work item, runs it, and sets the status.
LEMMA StatusIdc ==
    ASSUME TypeOK, StatusInv, ~clash, NEW c \in Core, IdcThread(c)
    PROVE  StatusInv'
<1>1. /\ UNCHANGED <<edf, msg_in, clash, idc_work>>
      /\ \A d \in Core \ {c} :
            /\ pending'[d] = pending[d] /\ payload'[d] = payload[d] /\ done'[d] = done[d]
            /\ idc'[d] = idc[d] /\ received_msg'[d] = received_msg[d]
  <2> USE DEF thread, item, handler
  <2>1. CASE IdcStart(c)
    BY <2>1, Zenon DEF IdcStart, TypeOK
  <2>2. CASE IdcRun(c) \/ IdcReply(c)
    BY <2>2, Zenon DEF IdcRun, IdcReply, TypeOK
  <2>3. CASE IdcStatus(c)
    BY <2>3, Zenon DEF IdcStatus, TypeOK, StatusInv
  <2>4. CASE IdcClear(c)
    BY <2>4, Zenon DEF IdcClear, TypeOK
  <2> QED
    BY <2>1, <2>2, <2>3, <2>4, Zenon DEF IdcThread
<1>2. /\ done' \in [Core -> BOOLEAN]
      /\ payload' \in [Core -> [what : {"command", "status"}, id : 0..MaxRequests]]
  <2>1. CASE IdcStatus(c)
    <3>1. received_msg[c].id \in 0..MaxRequests
      BY Zenon DEF TypeOK, IdcMsg
    <3>2. payload' \in [Core -> [what : {"command", "status"}, id : 0..MaxRequests]]
      BY <2>1, <3>1, Zenon DEF IdcStatus, StatusInv
    <3>3. done' \in [Core -> BOOLEAN]
      BY <2>1, Zenon DEF IdcStatus, StatusInv
    <3> QED
      BY <3>2, <3>3, Zenon
  <2>2. CASE ~IdcStatus(c)
    BY <2>2, Zenon DEF IdcThread, IdcStart, IdcRun, IdcReply, IdcClear, item, handler, StatusInv
  <2> QED
    BY <2>1, <2>2, Zenon
<1>3. ItemSound(c) /\ CallSound(c)
  BY Zenon DEF StatusInv
<1>4. CoreSound(c)'
  <2>1. CASE IdcStart(c)
    <3>1. /\ pending[c] /\ ~pending'[c] /\ received_msg'[c] = idc_work[c] /\ idc'[c] = "run"
          /\ UNCHANGED <<payload, done>>
      BY <2>1, Zenon DEF IdcStart, TypeOK
    <3>2. ItemSound(c)'
      BY <1>3, <3>1, Zenon DEF ItemSound
    <3>3. CallSound(c)'
      BY <1>1, <1>3, <3>1, Zenon DEF CallSound
    <3> QED
      BY <3>2, <3>3, Zenon DEF CoreSound
  <2>2. CASE IdcRun(c) \/ IdcReply(c) \/ IdcClear(c)
    <3>1. /\ idc[c] # "idle" /\ idc'[c] # "run"
          /\ UNCHANGED <<pending, payload, received_msg, done>>
      BY <2>2, Zenon DEF IdcRun, IdcReply, IdcClear, TypeOK, item, handler
    <3>2. ItemSound(c)'
      BY <1>1, <1>3, <3>1, Zenon DEF ItemSound
    <3>3. CallSound(c)'
      BY <1>1, <1>3, <3>1, Zenon DEF CallSound
    <3> QED
      BY <3>2, <3>3 DEF CoreSound
  <2>3. CASE IdcStatus(c)
    <3>1. /\ idc[c] # "idle" /\ idc'[c] \in {"clear", "idle"}
          /\ payload'[c] = [what |-> "status", id |-> received_msg[c].id]
          /\ received_msg[c].type # "IPC" => idc'[c] = "idle"
          /\ UNCHANGED <<pending, received_msg>>
      BY <2>3, Zenon DEF IdcStatus, TypeOK, StatusInv
    <3>2. ItemSound(c)'
      BY <1>3, <3>1, Zenon DEF ItemSound
    <3>3. CallSound(c)'
      <4> SUFFICES ASSUME edf = "wait", msg_in.core = c
          PROVE  CallSound(c)'
        BY <1>1, Zenon DEF CallSound
      <4>1. received_msg[c] = [type |-> "PPL_STATE", id |-> msg_in.id] /\ ~pending[c]
        BY <1>3, <3>1, Zenon DEF CallSound, ItemSound
      <4>2. received_msg[c].type # "IPC" /\ received_msg[c].id = msg_in.id
        BY <4>1
      <4>3. /\ idc'[c] = "idle" /\ ~pending'[c]
            /\ payload'[c] = [what |-> "status", id |-> msg_in.id]
        BY <3>1, <4>1, <4>2, Zenon
      <4> QED
        BY <1>1, <4>3, Zenon DEF CallSound
    <3> QED
      BY <3>2, <3>3 DEF CoreSound
  <2> QED
    BY <2>1, <2>2, <2>3, Zenon DEF IdcThread
<1>5. ASSUME NEW d \in Core, d # c PROVE CoreSound(d)'
  <2>1. CoreSound(d)
    BY Zenon DEF StatusInv, CoreSound
  <2> QED
    BY <1>1, <1>5, <2>1, CoreKept, Zenon
<1> QED
  BY <1>2, <1>4, <1>5, Zenon DEF StatusInv, CoreSound

LEMMA StatusStep == TypeOK /\ StatusInv /\ [Next]_vars => StatusInv'
<1> SUFFICES ASSUME TypeOK, StatusInv, [Next]_vars PROVE StatusInv'
  BY Zenon
<1>1. CASE UNCHANGED vars
  BY <1>1, StatusQuiet, Zenon DEF vars, thread, item, handler, calls
<1>2. CASE DoCmd \/ ProcessLocal \/ ProcessRemote \/ CallReturns \/ CallTimesOut \/ CoreOn \/ CoreOff
           \/ PrepareD3 \/ CheckMask \/ CheckReply \/ CompleteTask
  <2>1. UNCHANGED calls /\ edf' # "wait"
    BY <1>2, Zenon DEF DoCmd, ProcessLocal, ProcessRemote, CallReturns, CallTimesOut, CoreOn, CoreOff,
                PrepareD3, CheckMask, CheckReply, CompleteTask, item, handler, calls
  <2> QED
    BY <2>1, StatusQuiet, Zenon
<1>3. CASE HostTakes \/ SendQueuedMsg \/ WorkHandlerEnd \/ Suspend \/ Resume
  <2>1. UNCHANGED <<calls, edf, msg_in>>
    BY <1>3, Zenon DEF HostTakes, SendQueuedMsg, WorkHandlerEnd, Suspend, Resume, thread, item, handler, calls
  <2> QED
    BY <2>1, StatusQuiet, Zenon
<1>4. ASSUME NEW k, NEW c, HostRequest(k, c) PROVE StatusInv'
  BY <1>4, StatusQuiet, Zenon DEF HostRequest, item, handler, calls
<1>5. ASSUME NEW m, Notify(m) \/ FreeMsg(m) PROVE StatusInv'
  BY <1>5, StatusQuiet, Zenon DEF Notify, FreeMsg, thread, item, handler, calls
<1>6. ASSUME NEW c, CoreIdles(c) PROVE StatusInv'
  BY <1>6, StatusQuiet, Zenon DEF CoreIdles, thread, item, handler, calls
<1>7. ASSUME ~clash, Delegate \/ CallCore PROVE StatusInv'
  <2> DEFINE msg(t) == [type |-> t, id |-> msg_in.id]
  <2>1. msg_in.core \in Core /\ msg("IPC") \in IdcMsg /\ msg("PPL_STATE") \in IdcMsg
    BY Zenon DEF TypeOK, Request, IdcMsg
  <2>2. UNCHANGED <<idc, received_msg, msg_in>>
    BY <1>7, Zenon DEF Delegate, CallCore
  <2>3. \/ edf' # "wait" /\ UNCHANGED calls
        \/ edf' # "wait" /\ idc_send_msg(msg_in.core, msg("IPC"))
        \/ idc_send_msg(msg_in.core, msg("PPL_STATE"))
    BY <1>7, Zenon DEF Delegate, CallCore, item, calls
  <2> HIDE DEF msg
  <2>4. CASE edf' # "wait" /\ UNCHANGED calls
    BY <2>4, StatusQuiet, Zenon
  <2>5. CASE edf' # "wait" /\ idc_send_msg(msg_in.core, msg("IPC"))
    BY <1>7, <2>1, <2>2, <2>5, StatusSend, Zenon
  <2>6. CASE idc_send_msg(msg_in.core, msg("PPL_STATE"))
    <3>1. msg("PPL_STATE") = [type |-> "PPL_STATE", id |-> msg_in.id]
      BY Zenon DEF msg
    <3> QED
      BY <1>7, <2>1, <2>2, <2>6, <3>1, StatusSend, Zenon
  <2> QED
    BY <2>3, <2>4, <2>5, <2>6, Zenon
<1>8. ASSUME ~clash, NEW c \in Core, NotifyCore(c) PROVE StatusInv'
  <2> DEFINE m == [type |-> "NOTIFY", id |-> 0]
  <2>1. m \in IdcMsg
    BY BoundAssumption DEF IdcMsg
  <2>2. idc_send_msg(c, m) /\ UNCHANGED <<idc, received_msg, msg_in, edf>>
    BY <1>8, Zenon DEF NotifyCore, thread
  <2> HIDE DEF m
  <2> QED
    BY <1>8, <2>1, <2>2, StatusSend, Zenon
<1>9. ASSUME ~clash, NEW c \in Core, IdcThread(c) PROVE StatusInv'
  BY <1>9, StatusIdc, Zenon
<1> QED
  BY <1>1, <1>2, <1>3, <1>4, <1>5, <1>6, <1>7, <1>8, <1>9, Zenon DEF Next, Step, IdcThread

\* However calls that time out, delegated requests and notifications between
\* cores follow each other, as long as no work item is overwritten in use the
\* status a caller reads is that of its call, and the command a core reads is
\* the caller's.
THEOREM StatusKept == Spec => []StatusBelongs
<1>1. Init => StatusInv
  <2>1. ASSUME Init, NEW c \in Core PROVE ItemSound(c) /\ CallSound(c)
    BY <2>1, Zenon DEF Init, ItemSound, CallSound
  <2>2. ASSUME Init PROVE done \in [Core -> BOOLEAN]
    BY <2>2, Zenon DEF Init
  <2>3. ASSUME Init PROVE payload \in [Core -> [what : {"command", "status"}, id : 0..MaxRequests]]
    BY <2>3, BoundAssumption DEF Init
  <2> QED
    BY <2>1, <2>2, <2>3, Zenon DEF StatusInv
<1>2. HandoverInv => TypeOK
  BY Zenon DEF HandoverInv
<1>3. TypeOK /\ StatusInv => StatusBelongs
  <2> SUFFICES ASSUME TypeOK, StatusInv, ~clash PROVE StatusBelongs
    BY Zenon DEF StatusBelongs
  <2>1. msg_in.core \in Core
    BY Zenon DEF TypeOK, Request
  <2> QED
    BY <2>1, Zenon DEF StatusInv, StatusBelongs, ItemSound, CallSound
<1> QED
  BY <1>1, <1>2, <1>3, HandInit, HandStep, StatusStep, PTL DEF Spec

-----------------------------------------------------------------------------
(* The queue of messages to the host.                                      *)

ToHost == Msg \cup {"msg_reply"}

\* A sequence without duplicates, by its positions.
LEMMA Distinct ==
    ASSUME NEW s \in Seq(ToHost)
    PROVE  /\ IsInjective(s) <=> \A i, j \in 1..Len(s) : s[i] = s[j] => i = j
           /\ \A m : m \in Range(s) <=> Listed(s, m)
BY DEF IsInjective, Range, Listed

\* The queue, in terms of positions.
LEMMA QueueDef ==
    ASSUME NEW s \in Seq(ToHost), NEW fs
    PROVE  (IsInjective(s) /\ Range(s) \cap fs = {}) <=>
               /\ \A i, j \in 1..Len(s) : s[i] = s[j] => i = j
               /\ \A i \in 1..Len(s) : s[i] \notin fs
BY Distinct DEF Listed

\* Two queues, one after the other.
LEMMA Joined ==
    ASSUME NEW s \in Seq(ToHost), NEW t \in Seq(ToHost)
    PROVE  /\ s \o t \in Seq(ToHost) /\ Len(s \o t) = Len(s) + Len(t)
           /\ \A k \in 1..Len(s) + Len(t) :
                 (s \o t)[k] = IF k <= Len(s) THEN s[k] ELSE t[k - Len(s)]
OBVIOUS

\* The empty list lists nothing.
LEMMA NoneListed == \A m : ~Listed(<<>>, m)
BY DEF Listed

\* What ipc_msg_send makes of the queue.
LEMMA QueueAdds ==
    ASSUME QueueInv, NEW m \in ToHost, m \notin freed, NEW high, ipc_msg_send(m, high)
    PROVE  /\ msg_list' \in Seq(ToHost) /\ IsInjective(msg_list') /\ Range(msg_list') \cap freed = {}
           /\ \A n : n # m => (Listed(msg_list', n) <=> Listed(msg_list, n))
<1>1. msg_list \in Seq(ToHost) /\ Len(msg_list) \in Nat
  BY DEF QueueInv, ToHost
<1>2. /\ \A i, j \in 1..Len(msg_list) : msg_list[i] = msg_list[j] => i = j
      /\ \A i \in 1..Len(msg_list) : msg_list[i] \notin freed
  BY <1>1, QueueDef, SMTT(30) DEF QueueInv, QueueSound
<1>3. CASE msg_list' = msg_list
  BY <1>3, Zenon DEF QueueInv, QueueSound, ToHost
<1>4. CASE ~Listed(msg_list, m) /\ msg_list' = Append(msg_list, m)
  <2>1. /\ msg_list' \in Seq(ToHost) /\ Len(msg_list') = Len(msg_list) + 1
        /\ \A i \in 1..Len(msg_list) : msg_list'[i] = msg_list[i]
        /\ msg_list'[Len(msg_list) + 1] = m
    BY <1>1, <1>4
  <2>2. \A i \in 1..Len(msg_list') : i \in 1..Len(msg_list) \/ i = Len(msg_list) + 1
    BY <1>1, <2>1
  <2>3. \A i \in 1..Len(msg_list) : msg_list[i] # m
    BY <1>4, Zenon DEF Listed
  <2>4. /\ \A i, j \in 1..Len(msg_list') : msg_list'[i] = msg_list'[j] => i = j
        /\ \A i \in 1..Len(msg_list') : msg_list'[i] \notin freed
    BY <1>2, <2>1, <2>2, <2>3, Zenon
  <2>5. \A i \in 1..Len(msg_list) : i \in 1..Len(msg_list')
    BY <1>1, <2>1
  <2>6. \A n : n # m => (Listed(msg_list', n) <=> Listed(msg_list, n))
    BY <2>1, <2>2, <2>5, Zenon DEF Listed
  <2> QED
    BY <2>1, <2>4, <2>6, QueueDef, Zenon
<1>5. CASE ~Listed(msg_list, m) /\ msg_list' = <<m>> \o msg_list
  <2>1. /\ msg_list' \in Seq(ToHost) /\ Len(msg_list') = Len(msg_list) + 1
        /\ \A i \in 1..Len(msg_list) : msg_list'[i + 1] = msg_list[i]
        /\ msg_list'[1] = m
    BY <1>1, <1>5
  <2>2. \A i \in 1..Len(msg_list') : i = 1 \/ (i - 1 \in 1..Len(msg_list) /\ msg_list'[i] = msg_list[i - 1])
    <3> SUFFICES ASSUME NEW i \in 1..Len(msg_list'), i # 1
        PROVE  i - 1 \in 1..Len(msg_list) /\ msg_list'[i] = msg_list[i - 1]
      BY Zenon
    <3>1. i - 1 \in 1..Len(msg_list) /\ (i - 1) + 1 = i
      BY <1>1, <2>1
    <3> QED
      BY <2>1, <3>1, Zenon
  <2>3. \A i \in 1..Len(msg_list) : msg_list[i] # m
    BY <1>5, Zenon DEF Listed
  <2>4. \A i, j \in 1..Len(msg_list') : msg_list'[i] = msg_list'[j] => i = j
    <3> SUFFICES ASSUME NEW i \in 1..Len(msg_list'), NEW j \in 1..Len(msg_list'), msg_list'[i] = msg_list'[j]
        PROVE  i = j
      BY Zenon
    <3>1. i # 1 /\ j # 1 => i - 1 = j - 1
      BY <1>2, <2>2, Zenon
    <3>2. i = 1 <=> j = 1
      <4>1. msg_list'[1] = m
        BY <2>1, Zenon
      <4>2. i = 1 => j = 1
        BY <2>2, <2>3, <4>1, Zenon
      <4>3. j = 1 => i = 1
        BY <2>2, <2>3, <4>1, Zenon
      <4> QED
        BY <4>2, <4>3, Zenon
    <3> QED
      BY <2>1, <3>1, <3>2
  <2>5. \A i \in 1..Len(msg_list') : msg_list'[i] \notin freed
    BY <1>2, <2>1, <2>2, Zenon
  <2>6. \A i \in 1..Len(msg_list) : i + 1 \in 1..Len(msg_list')
    BY <1>1, <2>1
  <2>7. \A n : n # m => (Listed(msg_list', n) <=> Listed(msg_list, n))
    BY <2>1, <2>2, <2>6, SMTT(30) DEF Listed
  <2> QED
    BY <2>1, <2>4, <2>5, <2>7, QueueDef, Zenon
<1> QED
  BY <1>3, <1>4, <1>5, Zenon DEF ipc_msg_send, Queued

\* The worker takes the first message; the others stay.
LEMMA QueueTakes ==
    ASSUME QueueInv, msg_list # <<>>, msg_list' = Tail(msg_list)
    PROVE  /\ msg_list' \in Seq(ToHost) /\ IsInjective(msg_list') /\ Range(msg_list') \cap freed = {}
           /\ Head(msg_list) \in ToHost /\ Listed(msg_list, Head(msg_list))
           /\ \A n : Listed(msg_list', n) => Listed(msg_list, n) /\ n # Head(msg_list)
<1>1. msg_list \in Seq(ToHost) /\ Len(msg_list) \in Nat \ {0}
  BY DEF QueueInv, ToHost
<1>2. /\ \A i, j \in 1..Len(msg_list) : msg_list[i] = msg_list[j] => i = j
      /\ \A i \in 1..Len(msg_list) : msg_list[i] \notin freed
  BY <1>1, QueueDef, SMTT(30) DEF QueueInv, QueueSound
<1>3. /\ msg_list' \in Seq(ToHost) /\ Len(msg_list') = Len(msg_list) - 1
      /\ \A i \in 1..Len(msg_list') : msg_list'[i] = msg_list[i + 1]
      /\ Head(msg_list) = msg_list[1] /\ msg_list[1] \in ToHost
  BY <1>1
<1>4. \A i \in 1..Len(msg_list') : i + 1 \in 1..Len(msg_list) /\ i + 1 # 1
  BY <1>1, <1>3
<1>5. 1 \in 1..Len(msg_list)
  BY <1>1
<1>6. \A i, j \in 1..Len(msg_list') : msg_list'[i] = msg_list'[j] => i = j
  <2>1. \A i, j \in 1..Len(msg_list') : msg_list'[i] = msg_list'[j] => i + 1 = j + 1
    BY <1>2, <1>3, <1>4
  <2> QED
    BY <1>3, <2>1
<1>7. \A i \in 1..Len(msg_list') : msg_list'[i] \notin freed
  BY <1>2, <1>3, <1>4, Zenon
<1>8. \A n : Listed(msg_list', n) => Listed(msg_list, n) /\ n # Head(msg_list)
  BY <1>2, <1>3, <1>4, <1>5 DEF Listed
<1> QED
  BY <1>3, <1>5, <1>6, <1>7, <1>8, QueueDef, Zenon DEF Listed

\* list_item_del in ipc_msg_free: the message is gone, the others stay.
LEMMA QueueFrees ==
    ASSUME QueueInv, NEW m \in Msg, msg_list' = list_item_del(msg_list, m)
    PROVE  /\ msg_list' \in Seq(ToHost) /\ IsInjective(msg_list')
           /\ Range(msg_list') \cap (freed \cup {m}) = {}
           /\ \A n : Listed(msg_list', n) => Listed(msg_list, n)
<1>1. msg_list \in Seq(ToHost) /\ Len(msg_list) \in Nat
  BY DEF QueueInv, ToHost
<1>2. /\ \A i, j \in 1..Len(msg_list) : msg_list[i] = msg_list[j] => i = j
      /\ \A i \in 1..Len(msg_list) : msg_list[i] \notin freed
  BY <1>1, QueueDef, SMTT(30) DEF QueueInv, QueueSound
<1>3. CASE \A i \in 1..Len(msg_list) : msg_list[i] # m
  <2>1. msg_list' = msg_list
    BY <1>3, Zenon DEF list_item_del, Listed
  <2> QED
    BY <1>1, <1>2, <1>3, <2>1, QueueDef, Zenon
<1>4. CASE \E i \in 1..Len(msg_list) : msg_list[i] = m
  <2>1. PICK k \in 1..Len(msg_list) : msg_list[k] = m
    BY <1>4, Zenon
  <2>2. \A i \in 1..Len(msg_list) : msg_list[i] = m => i = k
    BY <1>2, <2>1, Zenon
  <2>3. (CHOOSE i \in 1..Len(msg_list) : msg_list[i] = m) = k
    BY <2>1, <2>2, Zenon
  <2> DEFINE front == SubSeq(msg_list, 1, k - 1)
             back == SubSeq(msg_list, k + 1, Len(msg_list))
  <2>5. /\ front \in Seq(ToHost) /\ Len(front) = k - 1
        /\ \A i \in 1..k - 1 : front[i] = msg_list[i]
    BY <1>1
  <2>6. /\ back \in Seq(ToHost) /\ Len(back) = Len(msg_list) - k
        /\ \A i \in 1..Len(msg_list) - k : back[i] = msg_list[k + i]
    BY <1>1
  <2>7. msg_list' = front \o back
    BY <1>4, <2>3, Zenon DEF list_item_del, Listed
  <2> HIDE DEF front, back
  <2>8. /\ msg_list' \in Seq(ToHost) /\ Len(msg_list') = Len(front) + Len(back)
        /\ \A i \in 1..Len(front) + Len(back) :
              msg_list'[i] = IF i <= Len(front) THEN front[i] ELSE back[i - Len(front)]
    <3>1. front \in Seq(ToHost) /\ back \in Seq(ToHost)
      BY <2>5, <2>6, Zenon
    <3>2. /\ front \o back \in Seq(ToHost) /\ Len(front \o back) = Len(front) + Len(back)
          /\ \A i \in 1..Len(front) + Len(back) :
                (front \o back)[i] = IF i <= Len(front) THEN front[i] ELSE back[i - Len(front)]
      BY <3>1, Joined, Zenon
    <3> QED
      BY <2>7, <3>2, Zenon
  <2> DEFINE old(i) == IF i < k THEN i ELSE i + 1
  <2>9. ASSUME NEW i \in 1..Len(msg_list')
        PROVE  old(i) \in 1..Len(msg_list) /\ old(i) # k /\ msg_list'[i] = msg_list[old(i)]
    <3>0. i \in 1..Len(front) + Len(back)
      BY <2>8, Zenon
    <3>1. CASE i < k
      <4>1. i <= Len(front) /\ i \in 1..k - 1
        BY <1>1, <2>5, <2>8, <3>1
      <4>2. msg_list'[i] = msg_list[i]
        BY <2>5, <2>8, <3>0, <4>1, Zenon
      <4> QED
        BY <1>1, <3>1, <4>2
    <3>2. CASE ~(i < k)
      <4>1. ~(i <= Len(front)) /\ i - Len(front) \in 1..Len(msg_list) - k /\ k + (i - Len(front)) = i + 1
        BY <1>1, <2>5, <2>6, <2>8, <3>2, SMTT(30)
      <4>2. msg_list'[i] = msg_list[i + 1]
        BY <2>6, <2>8, <3>0, <4>1, Zenon
      <4>3. i + 1 \in 1..Len(msg_list) /\ i + 1 # k
        BY <1>1, <2>5, <2>6, <2>8, <3>2
      <4> QED
        BY <3>2, <4>2, <4>3, Zenon
    <3> QED
      BY <3>1, <3>2, Zenon
  <2>10. \A i, j \in 1..Len(msg_list') : msg_list'[i] = msg_list'[j] => i = j
    <3> SUFFICES ASSUME NEW i \in 1..Len(msg_list'), NEW j \in 1..Len(msg_list'), msg_list'[i] = msg_list'[j]
        PROVE  i = j
      BY Zenon
    <3>1. old(i) = old(j)
      BY <1>2, <2>9, SMTT(30)
    <3>2. i \in Int /\ j \in Int /\ k \in Int
      BY <2>1, <2>8
    <3> QED
      BY <3>1, <3>2
  <2> HIDE DEF old
  <2>11. \A i \in 1..Len(msg_list') : msg_list'[i] \notin freed \cup {m}
    BY <1>2, <2>1, <2>9
  <2>12. \A n : Listed(msg_list', n) => Listed(msg_list, n)
    BY <2>9, Zenon DEF Listed
  <2> QED
    BY <2>8, <2>10, <2>11, <2>12, QueueDef, Zenon
<1> QED
  BY <1>3, <1>4, Zenon

LEMMA QueueStep == QueueInv /\ [Next]_vars => QueueInv'
<1> SUFFICES ASSUME QueueInv, [Next]_vars PROVE QueueInv'
  OBVIOUS
<1>1. CASE UNCHANGED <<msg_list, freed>>
  BY <1>1, Zenon DEF QueueInv, QueueSound
<1>2. ASSUME NEW m \in Msg, Notify(m) PROVE QueueInv'
  <2>1. m \in ToHost /\ m \notin freed /\ ipc_msg_send(m, m \in HighPriority) /\ freed' = freed
    BY <1>2, Zenon DEF Notify, ToHost
  <2> QED
    BY <2>1, QueueAdds, Zenon DEF QueueInv, QueueSound, ToHost
<1>3. ASSUME NEW m \in Msg, FreeMsg(m) PROVE QueueInv'
  <2>1. msg_list' = list_item_del(msg_list, m) /\ freed' = freed \cup {m}
    BY <1>3, Zenon DEF FreeMsg
  <2> QED
    BY <2>1, QueueFrees, Zenon DEF QueueInv, QueueSound, ToHost
<1>4. CASE SendQueuedMsg
  <2>1. freed' = freed /\ (msg_list' = msg_list \/ (msg_list # <<>> /\ msg_list' = Tail(msg_list)))
    BY <1>4, Zenon DEF SendQueuedMsg
  <2> QED
    BY <1>1, <2>1, QueueTakes, Zenon DEF QueueInv, QueueSound, ToHost
<1>5. ASSUME NEW by, SendReply(by), freed' = freed PROVE QueueInv'
  <2>1. "msg_reply" \in ToHost /\ "msg_reply" \notin freed /\ ipc_msg_send("msg_reply", TRUE)
    BY <1>5, MsgAssumption, Zenon DEF SendReply, QueueInv, ToHost
  <2> QED
    BY <1>5, <2>1, QueueAdds, Zenon DEF QueueInv, QueueSound, ToHost
<1>6. ASSUME NEW c, IdcReply(c) \/ CheckReply PROVE QueueInv'
  <2>1. freed' = freed /\ (msg_list' = msg_list \/ SendReply("primary") \/ SendReply("secondary"))
    BY <1>6, Zenon DEF IdcReply, CheckReply
  <2> QED
    BY <1>1, <1>5, <2>1, Zenon
<1>7. CASE UNCHANGED vars
  BY <1>1, <1>7, Zenon DEF vars, queue
<1>8. CASE \/ HostTakes \/ DoCmd \/ ProcessLocal \/ ProcessRemote \/ Delegate \/ CallCore \/ CallReturns
           \/ CallTimesOut \/ CoreOn \/ CoreOff \/ PrepareD3 \/ CheckMask \/ CompleteTask
           \/ WorkHandlerEnd \/ Suspend \/ Resume
  BY <1>1, <1>8, Zenon DEF HostTakes, DoCmd, ProcessLocal, ProcessRemote, Delegate, CallCore, CallReturns,
     CallTimesOut, CoreOn, CoreOff, PrepareD3, CheckMask, CompleteTask, WorkHandlerEnd, Suspend, Resume, queue
<1>9. ASSUME NEW c, NotifyCore(c) \/ CoreIdles(c) \/ IdcStart(c) \/ IdcRun(c) \/ IdcStatus(c) \/ IdcClear(c)
      PROVE  QueueInv'
  BY <1>1, <1>9, Zenon DEF NotifyCore, CoreIdles, IdcStart, IdcRun, IdcStatus, IdcClear, queue
<1>10. ASSUME NEW k, NEW c, HostRequest(k, c) PROVE QueueInv'
  BY <1>1, <1>10, Zenon DEF HostRequest, queue
<1> QED
  BY <1>2, <1>3, <1>4, <1>6, <1>7, <1>8, <1>9, <1>10, Zenon DEF Next, Step

LEMMA QueueInit == Init => QueueInv
<1> SUFFICES ASSUME Init PROVE QueueInv
  OBVIOUS
<1>1. msg_list = <<>> /\ freed = {}
  BY Zenon DEF Init
<1>2. <<>> \in Seq(Msg \cup {"msg_reply"})
  OBVIOUS
<1>3. DOMAIN <<>> = {}
  OBVIOUS
<1> QED
  BY <1>1, <1>2, <1>3, Zenon DEF QueueInv, QueueSound, IsInjective, Range

\* Whoever sends, takes and frees messages, in whichever order, a message is on
\* the queue at most once, and never when it is freed.
THEOREM QueueKept == Spec => []QueueSound
<1>1. QueueInv => QueueSound
  BY Zenon DEF QueueInv
<1> QED
  BY <1>1, QueueInit, QueueStep, PTL DEF Spec

-----------------------------------------------------------------------------
(* The reply on its way to the host.                                       *)

\* A step that leaves the request alone, and gives none to a core.
LEMMA RequestKept ==
    ASSUME RequestKnown, UNCHANGED <<g_last_data, requests, ipc_task, msg_in>>,
           task_mask' \subseteq task_mask \/ task_mask' \subseteq task_mask \cup {"POWERDOWN"},
           edf' = "send" => edf = "send", ~NoneInFlight' => ~NoneInFlight \/ edf = "send"
    PROVE  RequestKnown'
BY Zenon DEF RequestKnown

\* What gives no core a request: a step that neither queues one nor takes one.
LEMMA FlightKept ==
    ASSUME \A c \in Core : InFlight(c)' => InFlight(c)
    PROVE  ~NoneInFlight' => ~NoneInFlight
BY Zenon DEF NoneInFlight

LEMMA FlightSame ==
    ASSUME UNCHANGED <<idc_work, pending, idc, received_msg>>
    PROVE  \A c \in Core : InFlight(c)' <=> InFlight(c)
BY Zenon DEF InFlight, HasQueued, Runs

\* A core that a step does not touch.
LEMMA FlightOne ==
    ASSUME NEW d, idc_work'[d] = idc_work[d], pending'[d] = pending[d],
           idc'[d] = idc[d], received_msg'[d] = received_msg[d]
    PROVE  InFlight(d)' <=> InFlight(d)
BY Zenon DEF InFlight, HasQueued, Runs

LEMMA RequestStep == HandoverInv /\ RequestKnown /\ [Next]_vars => RequestKnown'
<1> SUFFICES ASSUME HandoverInv, RequestKnown, [Next]_vars PROVE RequestKnown'
  OBVIOUS
<1> USE DEF host, thread, item, handler
<1>1. CASE \/ UNCHANGED vars \/ HostTakes \/ ProcessLocal \/ CallReturns \/ CallTimesOut \/ CoreOn \/ CoreOff
           \/ PrepareD3 \/ CheckMask \/ CheckReply \/ CompleteTask \/ SendQueuedMsg \/ WorkHandlerEnd
           \/ Suspend
  <2>1. /\ UNCHANGED <<g_last_data, requests, ipc_task, msg_in, idc_work, pending, idc, received_msg>>
        /\ task_mask' \subseteq task_mask \cup {"POWERDOWN"} /\ (edf' = "send" => edf = "send")
    BY <1>1, Zenon DEF vars, HostTakes, ProcessLocal, CallReturns, CallTimesOut, CoreOn, CoreOff, PrepareD3,
       CheckMask, CheckReply, CompleteTask, Complete, SendQueuedMsg, WorkHandlerEnd, Suspend
  <2> QED
    BY <2>1, FlightSame, FlightKept, RequestKept, Zenon
<1>2. ASSUME NEW m, Notify(m) \/ FreeMsg(m) PROVE RequestKnown'
  <2>1. UNCHANGED <<g_last_data, requests, ipc_task, msg_in, idc_work, pending, idc, received_msg, task_mask, edf>>
    BY <1>2, Zenon DEF Notify, FreeMsg
  <2> QED
    BY <2>1, FlightSame, FlightKept, RequestKept, Zenon
<1>3. ASSUME NEW c, CoreIdles(c) PROVE RequestKnown'
  <2>1. UNCHANGED <<g_last_data, requests, ipc_task, msg_in, idc_work, pending, idc, received_msg, task_mask, edf>>
    BY <1>3, Zenon DEF CoreIdles
  <2> QED
    BY <2>1, FlightSame, FlightKept, RequestKept, Zenon
<1>4. ASSUME NEW k, NEW c, HostRequest(k, c) PROVE RequestKnown'
  <2>1. /\ g_last_data'.id = requests' /\ ipc_task' /\ ~busy
        /\ UNCHANGED <<task_mask, edf, msg_in, idc_work, pending, idc, received_msg>>
    BY <1>4, Zenon DEF HostRequest
  <2>2. edf = "idle" /\ NoneInFlight
    BY <2>1, Zenon DEF HandoverInv, HostSignalledLast, NoneInFlight, InFlight, HasQueued, Runs
  <2> QED
    BY <2>1, <2>2, FlightSame, FlightKept, Zenon DEF RequestKnown
<1>5. CASE DoCmd
  <2>1. /\ ipc_task /\ msg_in' = g_last_data /\ task_mask' = {"INLINE"} /\ edf' = "process"
        /\ UNCHANGED <<g_last_data, requests, idc_work, pending, idc, received_msg>>
    BY <1>5, Zenon DEF DoCmd
  <2>2. NoneInFlight
    BY <2>1, Zenon DEF HandoverInv, Contexts
  <2> QED
    BY <2>1, <2>2, FlightSame, FlightKept, Zenon DEF RequestKnown
<1>6. CASE ProcessRemote
  <2>1. /\ edf = "process" /\ msg_in.kind = "remote"
        /\ task_mask' \subseteq task_mask \cup {"SECONDARY_CORE"}
        /\ UNCHANGED <<g_last_data, requests, ipc_task, msg_in>>
    BY <1>6, Zenon DEF ProcessRemote
  <2> QED
    BY <2>1, Zenon DEF RequestKnown
<1>7. ASSUME NEW c \in Core, IdcThread(c) PROVE RequestKnown'
  <2>1. /\ UNCHANGED <<g_last_data, requests, ipc_task, msg_in, edf>> /\ task_mask' \subseteq task_mask
    BY <1>7, Zenon DEF IdcThread, IdcStart, IdcRun, IdcReply, IdcStatus, IdcClear, Complete
  <2>2. ASSUME NEW d \in Core, d # c PROVE InFlight(d)' <=> InFlight(d)
    <3>1. /\ idc_work'[d] = idc_work[d] /\ pending'[d] = pending[d]
          /\ idc'[d] = idc[d] /\ received_msg'[d] = received_msg[d]
      BY <1>7, <2>2, Zenon DEF IdcThread, IdcStart, IdcRun, IdcReply, IdcStatus, IdcClear, HandoverInv, TypeOK
    <3> QED
      BY <3>1, FlightOne, Zenon
  <2>3. InFlight(c)' => InFlight(c)
    <3>1. CASE IdcStart(c)
      BY <3>1, Zenon DEF IdcStart, HandoverInv, TypeOK, InFlight, HasQueued, Runs
    <3>2. CASE ~IdcStart(c)
      <4>1. idc[c] # "idle" /\ UNCHANGED <<idc_work, pending, received_msg>>
        BY <1>7, <3>2, Zenon DEF IdcThread, IdcRun, IdcReply, IdcStatus, IdcClear
      <4> QED
        BY <4>1, Zenon DEF InFlight, HasQueued, Runs
    <3> QED
      BY <3>1, <3>2, Zenon
  <2> QED
    BY <2>1, <2>2, <2>3, FlightKept, RequestKept, Zenon
<1>8. ASSUME NEW c \in Core, NEW m, m.type # "IPC", idc_send_msg(c, m),
             UNCHANGED <<idc, received_msg>>
      PROVE  ~NoneInFlight' => ~NoneInFlight
  <2>1. ASSUME NEW d \in Core, d # c PROVE InFlight(d)' <=> InFlight(d)
    <3>1. idc_work'[d] = idc_work[d] /\ pending'[d] = pending[d]
      BY <1>8, <2>1, Zenon DEF idc_send_msg, HandoverInv, TypeOK
    <3> QED
      BY <1>8, <3>1, FlightOne, Zenon
  <2>2. idc_work'[c] = m
    BY <1>8, Zenon DEF idc_send_msg, HandoverInv, TypeOK
  <2>3. InFlight(c)' => InFlight(c)
    BY <1>8, <2>2, Zenon DEF InFlight, HasQueued, Runs
  <2> QED
    BY <2>1, <2>3, FlightKept, Zenon
<1>9. ASSUME NEW c \in Core, NotifyCore(c) PROVE RequestKnown'
  <2> DEFINE m == [type |-> "NOTIFY", id |-> 0]
  <2>1. /\ idc_send_msg(c, m) /\ m.type # "IPC"
        /\ UNCHANGED <<idc, received_msg, g_last_data, requests, ipc_task, msg_in, task_mask, edf>>
    BY <1>9, Zenon DEF NotifyCore
  <2> HIDE DEF m
  <2> QED
    BY <1>8, <2>1, RequestKept, Zenon
<1>10. CASE CallCore
  <2> DEFINE m == [type |-> "PPL_STATE", id |-> msg_in.id]
  <2>1. /\ UNCHANGED <<idc, received_msg, g_last_data, requests, ipc_task, msg_in, task_mask>>
        /\ edf' # "send" /\ m.type # "IPC"
        /\ UNCHANGED <<idc_work, pending>> \/ idc_send_msg(msg_in.core, m)
    BY <1>10, Zenon DEF CallCore
  <2>2. msg_in.core \in Core
    BY Zenon DEF HandoverInv, TypeOK, Request
  <2> HIDE DEF m
  <2>3. ~NoneInFlight' => ~NoneInFlight
    BY <1>8, <2>1, <2>2, FlightSame, FlightKept, Zenon
  <2> QED
    BY <2>1, <2>3, RequestKept, Zenon
<1>11. CASE Delegate
  <2>1. /\ edf = "send" /\ edf' = "mask"
        /\ UNCHANGED <<g_last_data, requests, ipc_task, msg_in, task_mask>>
    BY <1>11, Zenon DEF Delegate
  <2> QED
    BY <2>1, RequestKept, Zenon
<1>12. CASE Resume
  <2>1. /\ power = "off" /\ ~ipc_task' /\ task_mask' = {}
        /\ UNCHANGED <<g_last_data, requests, msg_in, edf, idc_work, pending, idc, received_msg>>
    BY <1>12, Zenon DEF Resume
  <2>2. ~ipc_task
    BY <2>1, Zenon DEF HandoverInv, PowerInv
  <2> QED
    BY <2>1, <2>2, FlightSame, FlightKept, Zenon DEF RequestKnown
<1> QED
  BY <1>1, <1>2, <1>3, <1>4, <1>5, <1>6, <1>7, <1>9, <1>10, <1>11, <1>12, Zenon DEF Next, Step, IdcThread

\* A step that sends no reply: it may take one to the host's mailbox.
LEMMA ReplyKept ==
    ASSUME ReplyKnown, UNCHANGED <<awaiting, replies, reply, requests, msg_in>>, busy' => busy,
           ipc_task' => ipc_task, InTransit' => InTransit, ~(tx' = "msg_reply" /\ Waiting'),
           task_mask' \subseteq task_mask \/ ~InTransit
    PROVE  ReplyKnown'
BY Zenon DEF ReplyKnown, ReplyMatches

\* SendReply, the first to this request.
LEMMA ReplySent ==
    ASSUME QueueInv, RequestKnown, ReplyKnown, NEW by \in {"primary", "secondary"}, SendReply(by),
           UNCHANGED <<tx, awaiting, msg_in, busy, ipc_task, task_mask, requests>>,
           busy, ~ipc_task, replies = 0,
           by = "secondary" => msg_in.kind = "remote",
           by = "primary" => task_mask \cap {"SECONDARY_CORE", "POWERDOWN"} = {}
    PROVE  ReplyKnown'
<1>1. awaiting /\ ~InTransit
  BY DEF ReplyKnown
<1>2. replies' = 1 /\ reply' = [id |-> msg_in.id, by |-> by]
  BY DEF SendReply
<1>3. msg_in.id = requests /\ (by = "primary" => task_mask \subseteq {"INLINE"})
  BY Zenon DEF RequestKnown
<1>4. tx' # "msg_reply"
  BY <1>1, Zenon DEF InTransit
<1> QED
  BY <1>1, <1>2, <1>3, <1>4, Zenon DEF ReplyKnown, ReplyMatches

LEMMA KnownStep ==
    HandoverInv /\ Goal /\ QueueInv /\ RequestKnown /\ ReplyKnown /\ [Next]_vars => ReplyKnown'
<1> SUFFICES ASSUME HandoverInv, Goal, QueueInv, RequestKnown, ReplyKnown, [Next]_vars PROVE ReplyKnown'
  BY Zenon
<1> USE DEF host, thread, answer, queue
<1>1. ASSUME UNCHANGED <<msg_list, tx, awaiting, replies, reply, requests, msg_in>>, busy' => busy,
             ipc_task' => ipc_task, task_mask' \subseteq task_mask \/ ~InTransit
      PROVE  ReplyKnown'
  <2>1. (InTransit' <=> InTransit) /\ (Waiting' <=> Waiting)
    BY <1>1, Zenon DEF InTransit, Waiting
  <2>2. ~(tx' = "msg_reply" /\ Waiting')
    BY <1>1, <2>1, Zenon DEF ReplyKnown
  <2> QED
    BY <1>1, <2>1, <2>2, ReplyKept, Zenon
<1>2. CASE \/ UNCHANGED vars \/ ProcessLocal \/ Delegate \/ CallCore \/ CallReturns \/ CallTimesOut
           \/ CoreOn \/ CoreOff \/ CheckMask \/ CompleteTask \/ WorkHandlerEnd \/ Resume
  <2>1. UNCHANGED <<msg_list, tx, awaiting, replies, reply, requests, msg_in>>
    BY <1>2, Zenon DEF vars, ProcessLocal, Delegate, CallCore, CallReturns, CallTimesOut, CoreOn, CoreOff,
       CheckMask, CompleteTask, Complete, WorkHandlerEnd, Resume
  <2>2. task_mask' \subseteq task_mask
    BY <1>2, Zenon DEF vars, ProcessLocal, Delegate, CallCore, CallReturns, CallTimesOut, CoreOn, CoreOff,
       CheckMask, CompleteTask, Complete, WorkHandlerEnd, Resume
  <2>3. (busy' => busy) /\ (ipc_task' => ipc_task)
    <3>1. CASE CompleteTask
      BY <3>1, Zenon DEF CompleteTask, Complete
    <3>2. CASE Resume
      BY <3>2, Zenon DEF Resume
    <3>3. CASE \/ UNCHANGED vars \/ ProcessLocal \/ Delegate \/ CallCore \/ CallReturns
               \/ CallTimesOut \/ CoreOn \/ CoreOff \/ CheckMask \/ WorkHandlerEnd
      <4>1. UNCHANGED <<busy, ipc_task>>
        BY <3>3, Zenon DEF vars, ProcessLocal, Delegate, CallCore, CallReturns, CallTimesOut, CoreOn,
           CoreOff, CheckMask, WorkHandlerEnd
      <4> QED
        BY <4>1, Zenon
    <3> QED
      BY <1>2, <3>1, <3>2, <3>3, Zenon
  <2> QED
    BY <1>1, <2>1, <2>2, <2>3, Zenon
<1>3. ASSUME NEW c, NotifyCore(c) \/ CoreIdles(c) \/ IdcStart(c) \/ IdcRun(c) \/ IdcStatus(c) \/ IdcClear(c)
      PROVE  ReplyKnown'
  <2>1. /\ UNCHANGED <<msg_list, tx, awaiting, replies, reply, requests, msg_in, ipc_task>>
        /\ task_mask' \subseteq task_mask
    BY <1>3, Zenon DEF NotifyCore, CoreIdles, IdcStart, IdcRun, IdcStatus, IdcClear, Complete
  <2>2. busy' => busy
    BY <1>3, Zenon DEF NotifyCore, CoreIdles, IdcStart, IdcRun, IdcStatus, IdcClear, Complete
  <2> QED
    BY <1>1, <2>1, <2>2, Zenon
<1>4. CASE ProcessRemote \/ PrepareD3
  <2>1. /\ UNCHANGED <<msg_list, tx, awaiting, replies, reply, requests, msg_in, busy, ipc_task>>
        /\ edf = "process"
    BY <1>4, Zenon DEF ProcessRemote, PrepareD3
  <2>2. replies = 0
    BY <2>1, Zenon DEF Goal, ReplyInv, Decided, Undecided
  <2>3. ~InTransit
    BY <2>2 DEF ReplyKnown
  <2> QED
    BY <1>1, <2>1, <2>3, Zenon
<1>5. CASE DoCmd
  <2>1. ipc_task /\ UNCHANGED <<msg_list, tx, awaiting, replies, busy>>
    BY <1>5, Zenon DEF DoCmd
  <2>2. ~InTransit /\ ~InTransit' /\ tx # "msg_reply"
    BY <2>1, Zenon DEF ReplyKnown, InTransit, Waiting
  <2> QED
    BY <2>1, <2>2, Zenon DEF ReplyKnown, ReplyMatches
<1>6. ASSUME NEW k, NEW c, HostRequest(k, c) PROVE ReplyKnown'
  <2>1. ~awaiting /\ awaiting' /\ UNCHANGED <<msg_list, tx>>
    BY <1>6, Zenon DEF HostRequest
  <2>2. ~InTransit /\ ~InTransit' /\ tx # "msg_reply"
    BY <2>1, Zenon DEF ReplyKnown, InTransit, Waiting
  <2> QED
    BY <2>1, <2>2, Zenon DEF ReplyKnown, ReplyMatches
<1>7. CASE HostTakes
  <2>1. /\ tx' = "none" /\ awaiting' = (awaiting /\ tx # "msg_reply")
        /\ UNCHANGED <<msg_list, replies, reply, requests, msg_in, busy, ipc_task, task_mask>>
    BY <1>7, Zenon DEF HostTakes
  <2>2. InTransit' => Waiting
    BY <2>1, Zenon DEF InTransit, Waiting
  <2>3. CASE tx = "msg_reply"
    <3>1. ~InTransit' /\ replies = 1
      BY <2>2, <2>3, Zenon DEF ReplyKnown, InTransit
    <3> QED
      BY <2>1, <3>1 DEF ReplyKnown, ReplyMatches
  <2>4. CASE tx # "msg_reply"
    <3>1. (awaiting' <=> awaiting) /\ (InTransit' => InTransit)
      BY <2>1, <2>2, <2>4, Zenon DEF InTransit, Waiting
    <3> QED
      BY <2>1, <3>1, Zenon DEF ReplyKnown, ReplyMatches
  <2> QED
    BY <2>3, <2>4, Zenon
<1>8. CASE SendQueuedMsg
  <2>1. /\ UNCHANGED <<awaiting, replies, reply, requests, msg_in, busy, ipc_task, task_mask>>
        /\ \/ UNCHANGED <<msg_list, tx>>
           \/ tx = "none" /\ msg_list # <<>> /\ tx' = Head(msg_list) /\ msg_list' = Tail(msg_list)
    BY <1>8, Zenon DEF SendQueuedMsg
  <2>2. CASE UNCHANGED <<msg_list, tx>>
    BY <1>1, <2>1, <2>2, Zenon
  <2>3. CASE msg_list # <<>> /\ tx' = Head(msg_list) /\ msg_list' = Tail(msg_list)
    <3>1. /\ Waiting' => Waiting /\ tx' # "msg_reply"
          /\ tx' = "msg_reply" => Waiting
      BY <2>3, QueueTakes, Zenon DEF Waiting
    <3>2. InTransit' => InTransit
      BY <3>1, Zenon DEF InTransit, Waiting
    <3> QED
      BY <2>1, <3>1, <3>2, ReplyKept, Zenon
  <2> QED
    BY <2>1, <2>2, <2>3, Zenon
<1>9. ASSUME NEW m \in Msg, Notify(m) \/ FreeMsg(m) PROVE ReplyKnown'
  <2>1. UNCHANGED <<tx, awaiting, replies, reply, requests, msg_in, busy, ipc_task, task_mask>>
    BY <1>9, Zenon DEF Notify, FreeMsg
  <2>2. Waiting' => Waiting
    <3>1. CASE Notify(m)
      <4>1. m \in ToHost /\ m \notin freed /\ ipc_msg_send(m, m \in HighPriority) /\ "msg_reply" # m
        BY <3>1, MsgAssumption, Zenon DEF Notify, ToHost
      <4> QED
        BY <4>1, QueueAdds, Zenon DEF Waiting
    <3>2. CASE FreeMsg(m)
      <4>1. msg_list' = list_item_del(msg_list, m)
        BY <3>2, Zenon DEF FreeMsg
      <4> QED
        BY <4>1, QueueFrees, Zenon DEF Waiting
    <3> QED
      BY <1>9, <3>1, <3>2, Zenon
  <2>3. (InTransit' => InTransit) /\ ~(tx' = "msg_reply" /\ Waiting')
    BY <2>1, <2>2, Zenon DEF InTransit, Waiting, ReplyKnown
  <2> QED
    BY <2>1, <2>3, ReplyKept, Zenon
<1>10. CASE CheckReply
  <2>1. /\ edf = "reply" /\ UNCHANGED <<tx, awaiting, msg_in, busy, ipc_task, task_mask, requests>>
        /\ \/ UNCHANGED <<msg_list, replies, reply>>
           \/ msg_reply = "request" /\ "POWERDOWN" \notin task_mask /\ SendReply("primary")
    BY <1>10, Zenon DEF CheckReply
  <2>2. CASE UNCHANGED <<msg_list, replies, reply>>
    BY <1>1, <2>1, <2>2, Zenon
  <2>3. CASE msg_reply = "request" /\ "POWERDOWN" \notin task_mask /\ SendReply("primary")
    <3>1. "SECONDARY_CORE" \notin task_mask /\ replies = 0
      BY <2>1, <2>3, Zenon DEF Goal, ReplyInv, Decided, Settled
    <3>2. busy /\ ~ipc_task
      BY <2>1, Zenon DEF HandoverInv, HostSignalledLast, Contexts
    <3> QED
      BY <2>1, <2>3, <3>1, <3>2, ReplySent
  <2> QED
    BY <2>1, <2>2, <2>3, Zenon
<1>11. ASSUME NEW c \in Core, IdcReply(c) PROVE ReplyKnown'
  <2>1. /\ idc[c] = "reply" /\ UNCHANGED <<tx, awaiting, msg_in, busy, ipc_task, task_mask, requests>>
        /\ UNCHANGED <<msg_list, replies, reply>> \/ SendReply("secondary")
    BY <1>11, Zenon DEF IdcReply
  <2>2. CASE UNCHANGED <<msg_list, replies, reply>>
    BY <1>1, <2>1, <2>2, Zenon
  <2>3. CASE SendReply("secondary")
    <3>1. InFlight(c) /\ ~NoneInFlight /\ replies = 0
      BY <2>1, Zenon DEF HandoverInv, Contexts, InFlight, NoneInFlight, Goal, ReplyInv, Delegated
    <3>2. msg_in.kind = "remote" /\ ~ipc_task
      BY <3>1, Zenon DEF RequestKnown, HandoverInv, Contexts
    <3>3. busy
      BY <3>1, Zenon DEF HandoverInv, HostSignalledLast, InFlight, HasQueued, Runs
    <3> QED
      BY <2>1, <2>3, <3>1, <3>2, <3>3, ReplySent
  <2> QED
    BY <2>1, <2>2, <2>3, Zenon
<1>12. CASE Suspend
  <2>1. power = "on" /\ pm_prepare_D3 /\ replies' = replies + 1 /\ UNCHANGED <<msg_list, tx>>
    BY <1>12, Zenon DEF Suspend
  <2>2. replies = 0 /\ replies' = 1
    BY <2>1 DEF Goal, ReplyInv, PoweredDown
  <2>3. ~InTransit /\ ~InTransit' /\ tx' # "msg_reply"
    BY <2>1, <2>2 DEF ReplyKnown, InTransit, Waiting
  <2> QED
    BY <2>2, <2>3 DEF ReplyKnown, ReplyMatches
<1> QED
  BY <1>2, <1>3, <1>4, <1>5, <1>6, <1>7, <1>8, <1>9, <1>10, <1>11, <1>12, Zenon DEF Next, Step

\* Whichever core replies, and whatever else the worker has to send, the reply
\* the host reads is that of its last request, made by the core that ran it.
THEOREM ReplyBelongs == Spec => []ReplyMatches
<1>1. Init => RequestKnown /\ ReplyKnown
  <2> SUFFICES ASSUME Init PROVE RequestKnown /\ ReplyKnown
    BY Zenon
  <2>1. RequestKnown
    BY Zenon DEF Init, RequestKnown, Nothing, NoneInFlight, InFlight, HasQueued, Runs
  <2>2. ~InTransit /\ tx # "msg_reply" /\ ~busy
    BY NoneListed, Zenon DEF Init, InTransit, Waiting
  <2> QED
    BY <2>1, <2>2, Zenon DEF ReplyKnown, ReplyMatches
<1>2. ReplyKnown => ReplyMatches
  BY Zenon DEF ReplyKnown
<1> QED
  BY <1>1, <1>2, HandInit, HandStep, ReplyInit, ReplyStep, QueueInit, QueueStep, RequestStep,
     KnownStep, PTL DEF Spec
=============================================================================
