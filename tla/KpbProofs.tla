------------------------------ MODULE KpbProofs ------------------------------
(***************************************************************************)
(* Proofs about Kpb, for any segments and buffers.                         *)
(***************************************************************************)
EXTENDS Kpb, TLAPS

-----------------------------------------------------------------------------
(* The EDF queue.                                                          *)

\* The queues with a start of the draining task.
LEMMA HasDrain ==
    /\ ~Contains(<<>>, "drain") /\ ~Contains(<<"ipc">>, "drain")
    /\ Contains(<<"drain">>, "drain")
    /\ Contains(<<"ipc", "drain">>, "drain") /\ Contains(<<"drain", "ipc">>, "drain")
<1>1. ~Contains(<<>>, "drain") /\ ~Contains(<<"ipc">>, "drain")
  BY DEF Contains
<1>2. Contains(<<"drain">>, "drain")
  BY DEF Contains
<1>3. Contains(<<"ipc", "drain">>, "drain")
  BY DEF Contains
<1>4. Contains(<<"drain", "ipc">>, "drain")
  BY DEF Contains
<1> QED
  BY <1>1, <1>2, <1>3, <1>4, SMTT(20)

\* Those with a request.
LEMMA HasIpc ==
    /\ Contains(<<"ipc">>, "ipc")
    /\ Contains(<<"ipc", "drain">>, "ipc") /\ Contains(<<"drain", "ipc">>, "ipc")
<1>1. Contains(<<"ipc">>, "ipc")
  BY DEF Contains
<1>2. Contains(<<"ipc", "drain">>, "ipc")
  BY DEF Contains
<1>3. Contains(<<"drain", "ipc">>, "ipc")
  BY DEF Contains
<1> QED
  BY <1>1, <1>2, <1>3, Zenon

\* Two entries in a row.
LEMMA TwoEntries ==
    ASSUME NEW x \in {"ipc", "drain"}, NEW y \in {"ipc", "drain"}
    PROVE  Append(<<x>>, y) = <<x, y>>
<1> DEFINE s == Append(<<x>>, y)
<1>1. <<x>> \in Seq({"ipc", "drain"}) /\ Len(<<x>>) = 1 /\ <<x>>[1] = x
  OBVIOUS
<1>2. s \in Seq({"ipc", "drain"}) /\ Len(s) = 2 /\ s[1] = x /\ s[2] = y
  BY <1>1
<1> HIDE DEF s
<1>3. s = <<x, y>>
  BY <1>2
<1> QED
  BY <1>3, Zenon DEF s

\* What is taken from the queue, and what remains.
LEMMA Takes ==
    /\ Head(<<"ipc">>) = "ipc" /\ Tail(<<"ipc">>) = <<>>
    /\ Head(<<"drain">>) = "drain" /\ Tail(<<"drain">>) = <<>>
    /\ Head(<<"ipc", "drain">>) = "ipc" /\ Tail(<<"ipc", "drain">>) = <<"drain">>
    /\ Head(<<"drain", "ipc">>) = "drain" /\ Tail(<<"drain", "ipc">>) = <<"ipc">>
<1>1. Head(<<"ipc">>) = "ipc" /\ Tail(<<"ipc">>) = <<>>
  OBVIOUS
<1>2. Head(<<"drain">>) = "drain" /\ Tail(<<"drain">>) = <<>>
  OBVIOUS
<1>3. Head(<<"ipc", "drain">>) = "ipc" /\ Tail(<<"ipc", "drain">>) = <<"drain">>
  OBVIOUS
<1>4. Head(<<"drain", "ipc">>) = "drain" /\ Tail(<<"drain", "ipc">>) = <<"ipc">>
  OBVIOUS
<1> QED
  BY <1>1, <1>2, <1>3, <1>4, Zenon

\* The EDF thread takes a request.
LEMMA Turned ==
    ASSUME DrainInv, IpcTurn
    PROVE  /\ ~task /\ edf_workq' \in Queues /\ ~Behind'
           /\ (Queued' <=> Queued) /\ (Queued <=> Behind)
<1>1. \/ edf_workq = <<"ipc">> /\ edf_workq' = <<>>
      \/ edf_workq = <<"ipc", "drain">> /\ edf_workq' = <<"drain">>
  <2>1. Head(edf_workq) = "ipc" /\ edf_workq # <<>> /\ edf_workq' = Tail(edf_workq) /\ edf_workq \in Queues
    BY Zenon DEF DrainInv, IpcTurn
  <2> QED
    BY <2>1, Takes, "ipc" # "drain", Zenon DEF Queues
<1>2. <<"ipc">> # <<"ipc", "drain">> /\ <<>> # <<"ipc", "drain">> /\ <<"drain">> # <<"ipc", "drain">>
  BY Zenon
<1>3. ~task
  BY DEF IpcTurn
<1> QED
  BY <1>1, <1>2, <1>3, HasDrain, Zenon DEF Queued, Behind, Queues

\* The EDF thread takes a start of the task.
LEMMA Taken ==
    ASSUME DrainInv, edf_workq # <<>>, Head(edf_workq) = "drain", edf_workq' = Tail(edf_workq)
    PROVE  edf_workq' \in Queues /\ ~Behind' /\ Queued /\ ~Queued'
<1>1. \/ edf_workq = <<"drain">> /\ edf_workq' = <<>>
      \/ edf_workq = <<"drain", "ipc">> /\ edf_workq' = <<"ipc">>
  BY Takes, "ipc" # "drain", Zenon DEF DrainInv, Queues
<1>2. <<"ipc">> # <<"ipc", "drain">> /\ <<>> # <<"ipc", "drain">>
  OBVIOUS
<1> QED
  BY <1>1, <1>2, HasDrain, Zenon DEF Queued, Behind, Queues

\* A request joins the queue.
LEMMA Asked ==
    ASSUME DrainInv, HostAsks
    PROVE  edf_workq' \in Queues /\ ~Behind' /\ (Queued' <=> Queued)
<1>1. edf_workq = <<>> \/ edf_workq = <<"drain">>
  BY HasIpc, Zenon DEF DrainInv, HostAsks, Queues
<1>2. \/ edf_workq = <<>> /\ edf_workq' = <<"ipc">>
      \/ edf_workq = <<"drain">> /\ edf_workq' = <<"drain", "ipc">>
  <2>1. Append(<<>>, "ipc") = <<"ipc">>
    OBVIOUS
  <2>2. Append(<<"drain">>, "ipc") = <<"drain", "ipc">>
    BY TwoEntries
  <2> QED
    BY <1>1, <2>1, <2>2, Zenon DEF HostAsks
<1>3. <<"ipc">> # <<"ipc", "drain">> /\ <<"drain", "ipc">> # <<"ipc", "drain">>
  BY Zenon
<1> QED
  BY <1>2, <1>3, HasDrain, Zenon DEF Queued, Behind, Queues

\* A start of the task joins it.
LEMMA Joined ==
    ASSUME DrainInv, ~Queued, edf_workq' = Append(edf_workq, "drain")
    PROVE  edf_workq' \in Queues /\ Queued'
<1>1. edf_workq = <<>> \/ edf_workq = <<"ipc">>
  BY HasDrain, Zenon DEF DrainInv, Queued, Queues
<1>2. edf_workq' = <<"drain">> \/ edf_workq' = <<"ipc", "drain">>
  <2>1. Append(<<>>, "drain") = <<"drain">>
    OBVIOUS
  <2>2. Append(<<"ipc">>, "drain") = <<"ipc", "drain">>
    BY TwoEntries
  <2> QED
    BY <1>1, <2>1, <2>2, Zenon
<1> QED
  BY <1>2, HasDrain, Zenon DEF Queued, Queues

-----------------------------------------------------------------------------
(* The task of a draining KPB.                                             *)

LEMMA SameQueue ==
    ASSUME edf_workq' = edf_workq
    PROVE  (Queued' <=> Queued) /\ (Behind' <=> Behind)
BY Zenon DEF Queued, Behind

\* New data are only counted.
LEMMA Counted ==
    ASSUME DOMAIN dd = DOMAIN NoDrain, NEW n, dd' = [dd EXCEPT !.rt = n]
    PROVE  DOMAIN dd' = DOMAIN NoDrain /\ dd'.req = dd.req
<1>1. DOMAIN NoDrain = {"req", "hb", "rt"}
  BY DEF NoDrain
<1> QED
  BY <1>1

\* What the steps leave alone keeps the invariant.
LEMMA DrainUntouched ==
    ASSUME DrainInv, UNCHANGED <<state, comp, sel_sink, task, fault, edf_workq>>,
           DOMAIN dd' = DOMAIN NoDrain, dd'.req = dd.req
    PROVE  DrainInv'
<1>1. (Queued' <=> Queued) /\ (Behind' <=> Behind)
  BY SameQueue
<1> QED
  BY <1>1, Zenon DEF DrainInv

LEMMA DrainHostAsks ==
    ASSUME DrainInv, HostAsks
    PROVE  DrainInv'
<1>1. UNCHANGED <<state, comp, sel_sink, task, dd, fault>>
  BY Zenon DEF HostAsks, sinks, drain
<1>2. edf_workq' \in Queues /\ ~Behind' /\ (Queued' <=> Queued)
  BY Asked, Zenon
<1> QED
  BY <1>1, <1>2, Zenon DEF DrainInv

LEMMA DrainIpcRequest ==
    ASSUME DrainInv, ~fault, IpcRequest
    PROVE  DrainInv'
<1>1. IpcTurn
  BY Zenon DEF IpcRequest, Bind, Prepare, PrepareFails, Start, AskStop, Free, OtherRequest
<1>2. /\ ~task /\ edf_workq' \in Queues /\ ~Behind'
      /\ (Queued' <=> Queued) /\ (Queued <=> Behind)
  BY <1>1, Turned, Zenon
<1>3. ASSUME NEW sel, NEW host, Bind(sel, host) PROVE DrainInv'
  <2>1. comp = "READY" /\ UNCHANGED <<state, comp, task, dd, fault>>
    BY <1>3, Zenon DEF Bind, drain
  <2> QED
    BY <1>2, <2>1, Zenon DEF DrainInv
<1>4. CASE Prepare
  <2>1. /\ comp = "READY" /\ sel_sink /\ UNCHANGED <<sel_sink, host_sink, task, dd, fault>>
        /\ comp' = "PREPARE" /\ state' = "RUN"
    BY <1>4, Zenon DEF Prepare, sinks, drain
  <2>2. ~Queued
    BY <1>2, <2>1, Zenon DEF DrainInv
  <2>3. comp' # "READY" /\ state' # "INIT_DRAINING" /\ state' # "DRAINING"
    BY <2>1, Zenon
  <2> QED
    BY <1>2, <2>1, <2>2, <2>3, Zenon DEF DrainInv
<1>5. CASE PrepareFails
  <2>1. comp = "READY" /\ UNCHANGED <<task, dd, fault>>
    BY <1>5, Zenon DEF PrepareFails, drain
  <2>2. \/ state' = "PREPARING"
        \/ state = "CREATED" /\ UNCHANGED state
        \/ state' = "RESETTING"
    BY <1>5, Zenon DEF PrepareFails, kpb_reset, ResetNow
  <2>3. state' \notin {"RUN", "INIT_DRAINING", "DRAINING"}
    BY <2>2
  <2> QED
    BY <1>2, <2>1, <2>3, Zenon DEF DrainInv
<1>6. CASE Start \/ AskStop \/ OtherRequest
  <2>1. UNCHANGED <<state, sel_sink, task, dd, fault>> /\ (comp' = comp \/ comp' = "ACTIVE")
    BY <1>6, Zenon DEF Start, AskStop, OtherRequest, sinks, drain
  <2>2. "ACTIVE" # "READY"
    OBVIOUS
  <2> QED
    BY <1>2, <2>1, <2>2, Zenon DEF DrainInv
<1>7. CASE Free
  <2>1. state' = "CREATED" /\ dd' = NoDrain /\ (fault' <=> Queued) /\ task' = task
    BY <1>7, Zenon DEF Free, Queued
  <2>2. state' \notin {"RUN", "INIT_DRAINING", "DRAINING"}
    BY <2>1
  <2> QED
    BY <1>2, <2>1, <2>2, Zenon DEF DrainInv
<1> QED
  BY <1>3, <1>4, <1>5, <1>6, <1>7, Zenon DEF IpcRequest

LEMMA DrainLLStop ==
    ASSUME DrainInv, LLStop
    PROVE  DrainInv'
<1>1. UNCHANGED <<task, dd, fault, edf_workq>>
  BY Zenon DEF LLStop, drain
<1>2. (Queued' <=> Queued) /\ (Behind' <=> Behind)
  BY <1>1, SameQueue, Zenon
<1>3. \/ state' = "RESETTING" /\ comp' = "STOPPED"
      \/ state = "CREATED" /\ UNCHANGED state
      \/ state' = "PREPARING" /\ sel_sink' = FALSE
  BY Zenon DEF LLStop, kpb_reset, ResetNow
<1>4. state' \notin {"RUN", "INIT_DRAINING", "DRAINING"} /\ "STOPPED" # "READY"
  BY <1>3
<1>5. Behind => state # "CREATED"
  BY Zenon DEF DrainInv
<1> QED
  BY <1>1, <1>2, <1>3, <1>4, <1>5, Zenon DEF DrainInv

LEMMA DrainLLCopy ==
    ASSUME DrainInv, NEW more, LLCopy(more)
    PROVE  DrainInv'
<1>1. UNCHANGED <<state, comp, sel_sink, task, fault, edf_workq>>
  BY Zenon DEF LLCopy, sinks, threads
<1>2. dd' = dd \/ \E n : dd' = [dd EXCEPT !.rt = n]
  BY Zenon DEF LLCopy, CopyRun, CopyDrain, CopyHost
<1>3. DOMAIN dd' = DOMAIN NoDrain /\ dd'.req = dd.req
  BY <1>2, Counted, Zenon DEF DrainInv
<1> QED
  BY <1>1, <1>3, DrainUntouched, Zenon

LEMMA DrainLLCopyLate ==
    ASSUME DrainInv, LLCopyLate
    PROVE  DrainInv'
<1>1. state' = "RESETTING" /\ comp' = "STOPPED" /\ UNCHANGED <<task, fault, edf_workq>>
  BY Zenon DEF LLCopyLate, sinks, threads
<1>2. dd' = dd \/ \E n : dd' = [dd EXCEPT !.rt = n]
  BY Zenon DEF LLCopyLate
<1>3. DOMAIN dd' = DOMAIN NoDrain /\ dd'.req = dd.req
  BY <1>2, Counted, Zenon DEF DrainInv
<1>4. (Queued' <=> Queued) /\ (Behind' <=> Behind)
  BY <1>1, SameQueue, Zenon
<1>5. comp' # "READY"
  BY <1>1
<1>6. state' \notin {"RUN", "INIT_DRAINING", "DRAINING"}
  BY <1>1, Zenon
<1> QED
  BY <1>1, <1>3, <1>4, <1>5, <1>6, Zenon DEF DrainInv

LEMMA DrainDetect ==
    ASSUME DrainInv, NEW req \in DrainReq, Detect(req)
    PROVE  DrainInv'
<1>1. UNCHANGED <<comp, sel_sink, task>>
  BY Zenon DEF Detect, sinks
<1>2. CASE ~host_sink
  <2>1. UNCHANGED <<state, dd, edf_workq>> /\ fault'
    BY <1>2, Zenon DEF Detect
  <2>2. (Queued' <=> Queued) /\ (Behind' <=> Behind)
    BY <2>1, SameQueue, Zenon
  <2> QED
    BY <1>1, <2>1, <2>2, Zenon DEF DrainInv
<1>3. CASE host_sink
  <2>1. /\ state = "RUN" /\ state' = "INIT_DRAINING"
        /\ edf_workq' = Append(edf_workq, "drain")
        /\ \E b : dd' = [dd EXCEPT !.req = req, !.hb = b]
    BY <1>3, Zenon DEF Detect
  <2>2. ~Queued /\ comp # "READY" /\ ~task
    BY <2>1, Zenon DEF DrainInv
  <2>3. edf_workq' \in Queues /\ Queued'
    BY <2>1, <2>2, Joined, Zenon
  <2>4. DOMAIN dd' = DOMAIN NoDrain /\ dd'.req = req
    <3>1. DOMAIN dd = {"req", "hb", "rt"} /\ DOMAIN NoDrain = {"req", "hb", "rt"}
      BY DEF DrainInv, NoDrain
    <3>2. PICK b : dd' = [dd EXCEPT !.req = req, !.hb = b]
      BY <2>1, Zenon
    <3> QED
      BY <3>1, <3>2
  <2>5. state' \notin {"RUN", "DRAINING"}
    BY <2>1
  <2> QED
    BY <1>1, <2>1, <2>2, <2>3, <2>4, <2>5, Zenon DEF DrainInv
<1> QED
  BY <1>2, <1>3, Zenon

\* A task that starts has something to drain.
LEMMA DrainDrainStart ==
    ASSUME 0 \notin DrainReq, DrainInv, ~fault, DrainStart
    PROVE  DrainInv'
<1>1. edf_workq' \in Queues /\ ~Behind' /\ Queued /\ ~Queued'
  BY Taken, Zenon DEF DrainStart
<1>2. dd.req > 0
  <2>1. dd.req \in DrainReq
    BY <1>1, Zenon DEF DrainInv
  <2>2. dd.req \in 0..BufferSize /\ dd.req # 0
    BY <2>1, DrainAssumption, Zenon
  <2> QED
    BY <2>2
<1>3. state' = "DRAINING" /\ task'
  BY <1>2, Zenon DEF DrainStart
<1>4. DOMAIN dd' = DOMAIN NoDrain
  <2>1. dd' = [dd EXCEPT !.req = 0, !.hb = 1]
    BY Zenon DEF DrainStart
  <2> QED
    BY <2>1 DEF DrainInv
<1>5. state' \notin {"RUN", "INIT_DRAINING"}
  BY <1>3
<1> QED
  BY <1>1, <1>3, <1>4, <1>5, Zenon DEF DrainInv

LEMMA DrainDrainStep ==
    ASSUME DrainInv, DrainStep
    PROVE  DrainInv'
<1>1. task /\ UNCHANGED <<comp, sel_sink, edf_workq>>
  BY Zenon DEF DrainStep, sinks, threads
<1>2. dd' = dd \/ \E n : dd' = [dd EXCEPT !.rt = n]
  BY Zenon DEF DrainStep
<1>3. DOMAIN dd' = DOMAIN NoDrain
  BY <1>2, Counted, Zenon DEF DrainInv
<1>4. \E done \in BOOLEAN : state' = StateAfter(done) /\ task' = ~done
  BY Zenon DEF DrainStep
<1>5. \/ state' = state /\ (task' \/ state # "DRAINING")
      \/ state' = "HOST_COPY"
  BY <1>4, Zenon DEF StateAfter
<1>6. (Queued' <=> Queued) /\ (Behind' <=> Behind)
  BY <1>1, SameQueue, Zenon
<1>7. ~Queued /\ ~Behind /\ state \notin {"RUN", "INIT_DRAINING"}
  BY <1>1, HasDrain, Zenon DEF DrainInv, Queued, Behind
<1>8. state' \notin {"RUN", "INIT_DRAINING"} /\ (state' = "DRAINING" => task')
  BY <1>5, <1>7
<1> QED
  BY <1>1, <1>3, <1>6, <1>7, <1>8, Zenon DEF DrainInv

LEMMA DrainDrainReset ==
    ASSUME DrainInv, DrainReset
    PROVE  DrainInv'
<1>1. state' = "PREPARING" /\ ~task' /\ task /\ UNCHANGED <<dd, edf_workq>>
  BY Zenon DEF DrainReset, ResetNow, threads
<1>2. (Queued' <=> Queued) /\ (Behind' <=> Behind)
  BY <1>1, SameQueue, Zenon
<1>3. ~Queued /\ ~Behind
  BY <1>1, HasDrain, Zenon DEF DrainInv, Queued, Behind
<1>4. state' \notin {"RUN", "INIT_DRAINING", "DRAINING"}
  BY <1>1
<1> QED
  BY <1>1, <1>2, <1>3, <1>4, Zenon DEF DrainInv

LEMMA DrainInit == Init => DrainInv
<1> SUFFICES ASSUME Init PROVE DrainInv
  OBVIOUS
<1>1. /\ state = "CREATED" /\ comp = "READY" /\ ~task /\ dd = NoDrain /\ edf_workq = <<>>
  BY Zenon DEF Init
<1>2. ~Queued /\ ~Behind
  <2>1. <<>> # <<"ipc", "drain">>
    OBVIOUS
  <2> QED
    BY <1>1, <2>1, HasDrain, Zenon DEF Queued, Behind
<1>3. state \notin {"RUN", "INIT_DRAINING", "DRAINING"}
  BY <1>1
<1> QED
  BY <1>1, <1>2, <1>3, Zenon DEF DrainInv, Queues

LEMMA DrainNext ==
    ASSUME 0 \notin DrainReq, DrainInv, [Next]_vars
    PROVE  DrainInv'
<1>1. CASE UNCHANGED vars
  <2>1. UNCHANGED <<state, comp, sel_sink, task, dd, fault, edf_workq>>
    BY <1>1, Zenon DEF vars, sinks, drain, threads
  <2> QED
    BY <2>1, DrainUntouched, Zenon DEF DrainInv
<1>2. CASE StopLate \/ HostReads
  <2>1. UNCHANGED <<state, comp, sel_sink, task, dd, fault, edf_workq>>
    BY <1>2, Zenon DEF StopLate, HostReads, sinks, drain, threads
  <2> QED
    BY <2>1, DrainUntouched, Zenon DEF DrainInv
<1>3. CASE Next
  BY <1>2, <1>3, DrainHostAsks, DrainIpcRequest, DrainLLStop, DrainLLCopy, DrainLLCopyLate,
     DrainDetect, DrainDrainStart, DrainDrainStep, DrainDrainReset, Zenon DEF Next, Step
<1> QED
  BY <1>1, <1>3, Zenon

\* Requests, resets and detections in any order leave no KPB draining without a
\* task that ends it, if detections ask for some history: the task that
\* kpb_init_draining schedules starts with the request of its own detection.
THEOREM TaskForDraining == ASSUME 0 \notin DrainReq PROVE Spec => []DrainingHasTask
<1>1. DrainInv => DrainingHasTask
  BY Zenon DEF DrainInv, DrainingHasTask
<1> QED
  BY <1>1, DrainInit, DrainNext, PTL DEF Spec
=============================================================================
