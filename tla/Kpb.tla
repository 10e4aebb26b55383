--------------------------------- MODULE Kpb ---------------------------------
(***************************************************************************)
(* The key phrase buffer (src/src/audio/kpb.c): it passes the microphone   *)
(* stream to a detector and keeps its recent past in a ring of memory      *)
(* segments.  When the detector reports a key phrase, a draining task      *)
(* sends the requested history to the host, then what arrived meanwhile,   *)
(* then lets the stream flow to the host.                                  *)
(*                                                                         *)
(* The model follows the IPC4 build with AMS, on the primary core.  LL     *)
(* cycles are atomic; the draining task is, from one yield to the next     *)
(* (k_sched_lock).  The task and the IPC thread share the one EDF work     *)
(* queue (src/zephyr/edf_schedule.c), first in, first out.                 *)
(*                                                                         *)
(* A sample is its number in the stream modulo SampleMod, which exceeds    *)
(* the samples alive at one time.  Behaviours end when a NULL sink or      *)
(* freed memory is used (fault).                                           *)
(***************************************************************************)
EXTENDS Integers, SequencesExt

CONSTANTS Size,        \* the sizes of the segments, in samples
          SourceSize,  \* capacity of the source buffer
          HostSize,    \* capacity of the host sink buffer
          DrainReq,    \* the amounts of history a detector asks for
          SampleMod,
          Late         \* kpb_buffer_data may exceed its millisecond

Segment == 1..Len(Size)
BufferSize == FoldSeq(+, 0, Size)
ASSUME SizeAssumption == Len(Size) > 0 /\ \A b \in Segment : Size[b] > 0
ASSUME ModAssumption == SampleMod > BufferSize + SourceSize + HostSize
ASSUME DrainAssumption == DrainReq \subseteq 0..BufferSize
ASSUME SourceAssumption == SourceSize <= BufferSize
ASSUME LateAssumption == Late \in BOOLEAN

VARIABLES
    state,       \* kpb->state
    comp,        \* dev->state: "READY", "PREPARE" or "ACTIVE"; "STOPPED" for
                 \* PREPARE in a pipeline that was stopped and not reset
    sel_sink, host_sink,    \* the sinks are not NULL
    hb,          \* the segments: data, w_ptr, r_ptr and state
    c_hb,        \* hd.c_hb, 0 for NULL
    buffered, free,         \* hd.buffered, hd.free
    head,        \* the next sample to leave the source buffer
    source,      \* samples in the source buffer
    dd,          \* draining_task_data: drain_req, hb, buffered_while_draining
    task,        \* the draining task runs
    drain_req, buff,        \* its local variables
    edf_workq,   \* the EDF work queue
    ipc,         \* the IPC thread: "idle" or in the "wait" for a stop
    stop,        \* an LL cycle has a stop to execute
    host_q,      \* the samples in the host sink buffer
    host_next,   \* history: the sample the host should read next
    promised,    \* history: requested samples that are not yet drained
    disturbed,   \* history: buffering has timed out, or a reset has come
                 \* between a detection and the end of its task
    fault        \* history: a NULL sink or freed memory was used

sinks == <<sel_sink, host_sink>>
history == <<hb, c_hb, buffered, free>>
stream == <<head, source>>
drain == <<dd, task, drain_req, buff>>
threads == <<edf_workq, ipc, stop>>
hostside == <<host_q, host_next, promised>>
vars == <<state, comp, sinks, history, stream, drain, threads, hostside, disturbed, fault>>

\* The data of a cleared segment, which is no sample.
Silence == -1

Empty(b) == [data |-> [i \in 0..Size[b] - 1 |-> Silence], w |-> 0, r |-> 0, state |-> "FREE"]
NoDrain == [req |-> 0, hb |-> 1, rt |-> 0]

Init ==
    /\ state = "CREATED" /\ comp = "READY"
    /\ sel_sink = FALSE /\ host_sink = FALSE
    /\ hb = [b \in Segment |-> Empty(b)] /\ c_hb = 0 /\ buffered = 0 /\ free = 0
    /\ head = 0 /\ source = 0
    /\ dd = NoDrain /\ task = FALSE /\ drain_req = 0 /\ buff = 1
    /\ edf_workq = <<>> /\ ipc = "idle" /\ stop = FALSE
    /\ host_q = <<>> /\ host_next = 0 /\ promised = 0
    /\ disturbed = FALSE /\ fault = FALSE

-----------------------------------------------------------------------------
(* The IPC thread.                                                         *)

\* The host sends a request.
HostAsks ==
    /\ ipc = "idle" /\ ~Contains(edf_workq, "ipc")
    /\ edf_workq' = Append(edf_workq, "ipc")
    /\ UNCHANGED <<state, comp, sinks, history, stream, drain, ipc, stop, hostside, disturbed, fault>>

\* The EDF thread takes the request.
IpcTurn ==
    /\ ~task /\ ipc = "idle" /\ edf_workq # <<>> /\ Head(edf_workq) = "ipc"
    /\ edf_workq' = Tail(edf_workq)

\* A request that does not concern KPB.
OtherRequest ==
    /\ IpcTurn
    /\ UNCHANGED <<state, comp, sinks, history, stream, drain, ipc, stop, hostside, disturbed, fault>>

\* kpb_bind and kpb_unbind.
Bind(sel, host) ==
    /\ comp = "READY"
    /\ IpcTurn
    /\ sel_sink' = sel /\ host_sink' = host
    /\ UNCHANGED <<state, comp, history, stream, drain, ipc, stop, hostside, disturbed, fault>>

Allocated == IF c_hb = 0 THEN 1 ELSE c_hb

\* kpb_prepare, and the reset of the pipeline's buffers.  Samples are numbered
\* from here.
Prepare ==
    /\ comp = "READY" /\ sel_sink /\ state \notin {"RESETTING", "RESET_FINISHING"}
    /\ IpcTurn
    /\ comp' = "PREPARE" /\ state' = "RUN"
    /\ buffered' = 0 /\ c_hb' = Allocated /\ free' = BufferSize
    /\ hb' = [b \in Segment |-> Empty(b)]
    /\ head' = 0 /\ source' = 0 /\ host_q' = <<>> /\ host_next' = 0
    /\ UNCHANGED <<sinks, drain, ipc, stop, promised, disturbed, fault>>

\* kpb_trigger, for a start.
Start ==
    /\ comp = "PREPARE"
    /\ IpcTurn
    /\ comp' = "ACTIVE"
    /\ UNCHANGED <<state, sinks, history, stream, drain, ipc, stop, hostside, disturbed, fault>>

\* The IPC thread leaves the stop to the LL thread and waits.
AskStop ==
    /\ comp \in {"ACTIVE", "STOPPED"} /\ ~stop
    /\ IpcTurn
    /\ stop' = TRUE /\ ipc' = "wait"
    /\ UNCHANGED <<state, comp, sinks, history, stream, drain, hostside, disturbed, fault>>

\* Mutant of StopLate: the wait has no end.
StopLateNever == FALSE /\ UNCHANGED vars

\* It stops waiting (ipc_wait_for_compound_msg).
StopLate ==
    /\ ipc = "wait"
    /\ ipc' = "idle"
    /\ UNCHANGED <<state, comp, sinks, history, stream, drain, edf_workq, stop, hostside, disturbed, fault>>

\* The default branch of kpb_reset.
ResetNow ==
    /\ buffered' = 0
    /\ sel_sink' = FALSE /\ host_sink' = FALSE
    /\ hb' = IF c_hb = 0 THEN hb ELSE [b \in Segment |-> Empty(b)]
    /\ state' = "PREPARING"
    /\ comp' = "READY"

\* kpb_reset, of a component that pipeline_comp_reset has stopped.
kpb_reset ==
    CASE state \in {"BUFFERING", "DRAINING"} ->
            state' = "RESETTING" /\ comp' = "STOPPED" /\ UNCHANGED <<sinks, hb, buffered>>
      [] state = "CREATED" -> comp' = "READY" /\ UNCHANGED <<state, sinks, hb, buffered>>
      [] OTHER -> ResetNow

\* kpb_prepare fails: at once, when the parameters of the host or the state do
\* not fit; when there is no memory for the history or no place for a consumer
\* of the detector's messages; at its end, when there is no sink for the
\* detector, or another component fails.  ipc4_pcm_params resets the pipeline.
PrepareFails ==
    /\ comp = "READY"
    /\ IpcTurn
    /\ \/ kpb_reset /\ UNCHANGED <<c_hb, free>>
       \/ ResetNow /\ c_hb' = 0 /\ UNCHANGED free
       \/ ResetNow /\ c_hb' = Allocated /\ free' = BufferSize
    /\ UNCHANGED <<stream, drain, ipc, stop, hostside, disturbed, fault>>

\* The LL thread executes the stop and resets the pipeline, if the pipeline's
\* task is still scheduled.
LLStop ==
    /\ stop /\ comp = "ACTIVE"
    /\ stop' = FALSE /\ ipc' = "idle"
    /\ kpb_reset
    /\ disturbed' = (disturbed \/ task \/ Contains(edf_workq, "drain"))
    /\ UNCHANGED <<c_hb, free, stream, drain, edf_workq, hostside, fault>>

\* kpb_free, and a new instance.  A task in the queue is not cancelled.
Free ==
    /\ comp = "READY"
    /\ IpcTurn
    /\ fault' = Contains(edf_workq, "drain")
    /\ state' = "CREATED"
    /\ sel_sink' = FALSE /\ host_sink' = FALSE
    /\ c_hb' = 0 /\ buffered' = 0 /\ free' = 0
    /\ hb' = [b \in Segment |-> Empty(b)]
    /\ dd' = NoDrain
    /\ UNCHANGED <<comp, stream, task, drain_req, buff, ipc, stop, hostside, disturbed>>

-----------------------------------------------------------------------------
(* An LL cycle.                                                            *)

Sample(i) == (head + i) % SampleMod

\* One sample into the current segment, as kpb_buffer_data does.
Put(h, x) ==
    LET c == h.c
        w == h.hb[c].w + 1
        full == w = Size[c]
        next == IF c = Len(Size) THEN 1 ELSE c + 1
        stored == [h.hb EXCEPT ![c] = [@ EXCEPT !.data[@.w] = x, !.w = IF full THEN 0 ELSE w]]
    IN  IF ~full \/ next = c THEN [hb |-> stored, c |-> c]
        ELSE [hb |-> [stored EXCEPT ![c].state = "FULL", ![next].state = "FREE"], c |-> next]

\* kpb_buffer_data of the next n samples of the source.
Filled(n) == FoldLeft(Put, [hb |-> hb, c |-> c_hb], [i \in 1..n |-> Sample(i - 1)])
Buffer(n) == hb' = Filled(n).hb /\ c_hb' = Filled(n).c

Consume(avail, n) == head' = (head + n) % SampleMod /\ source' = avail - n

\* kpb_copy in RUN: n samples to the detector and to the history.
CopyRun(avail, n) ==
    /\ state = "RUN" /\ sel_sink
    /\ Buffer(n)
    /\ buffered' = buffered + Min({BufferSize - buffered, n})
    /\ Consume(avail, n)
    /\ UNCHANGED <<free, dd, host_q>>

\* Mutant of CopyDrain: the space for new data is not reduced.
CopyDrainFree(avail) ==
    /\ state \in {"INIT_DRAINING", "DRAINING"}
    /\ LET n == Min({avail, free})
       IN  /\ Buffer(n)
           /\ dd' = [dd EXCEPT !.rt = @ + n]
           /\ Consume(avail, n)
    /\ UNCHANGED <<buffered, free, host_q>>

\* kpb_copy while draining: to the history only.
CopyDrain(avail) ==
    /\ state \in {"INIT_DRAINING", "DRAINING"}
    /\ LET n == Min({avail, free})
       IN  /\ Buffer(n)
           /\ dd' = [dd EXCEPT !.rt = @ + n]
           /\ free' = free - n
           /\ Consume(avail, n)
    /\ UNCHANGED <<buffered, host_q>>

HostFree == HostSize - Len(host_q)

\* kpb_copy in HOST_COPY: to the host only.
CopyHost(avail) ==
    /\ state = "HOST_COPY" /\ host_sink
    /\ LET n == Min({avail, HostFree})
       IN  /\ host_q' = host_q \o [i \in 1..n |-> Sample(i - 1)]
           /\ Consume(avail, n)
    /\ UNCHANGED <<history, dd>>

\* A cycle in which the source gets more samples and kpb_copy runs.
LLCopy(more) ==
    /\ comp = "ACTIVE" /\ ~stop /\ source + more <= SourceSize
    /\ LET avail == source + more
       IN  (\E n \in 0..avail : CopyRun(avail, n)) \/ CopyDrain(avail) \/ CopyHost(avail)
    /\ UNCHANGED <<state, comp, sinks, task, drain_req, buff, threads, host_next, promised, disturbed, fault>>

\* A cycle in which kpb_buffer_data times out before one of its segments: the
\* state stays BUFFERING, and the samples in the source.  The copy has failed,
\* so pipeline_xrun_recover stops KPB and resets it, for which kpb_reset in
\* BUFFERING leaves RESETTING, and the task of the pipeline ends.
LLCopyLate ==
    /\ Late /\ comp = "ACTIVE" /\ ~stop /\ source > 0
    /\ state \in {"RUN", "INIT_DRAINING", "DRAINING"}
    /\ LET n == IF state = "RUN" THEN source ELSE Min({source, free})
           StartsSegment(done) == Filled(done).hb[Filled(done).c].w = 0
       IN  /\ \E done \in 0..n - 1 : (done = 0 \/ StartsSegment(done)) /\ Buffer(done)
           /\ IF state = "RUN" THEN sel_sink /\ UNCHANGED <<dd, free>>
              ELSE dd' = [dd EXCEPT !.rt = @ + n] /\ free' = free - n
    /\ state' = "RESETTING" /\ comp' = "STOPPED"
    /\ disturbed' = TRUE
    /\ UNCHANGED <<sinks, buffered, stream, task, drain_req, buff, threads, hostside, fault>>

-----------------------------------------------------------------------------
(* Draining.                                                               *)

\* The segment i steps back from the current one.
Back(i) == ((c_hb - 1 - i) % Len(Size)) + 1

\* What kpb_init_draining finds in a segment, and in it and all later ones.
Stored(b) == IF hb[b].state = "FREE" THEN hb[b].w ELSE Size[b]
StoredFrom(i) == FoldSeq(+, 0, [j \in 1..i + 1 |-> Stored(Back(j - 1))])

\* Mutant of StartOf: the rest of the current segment is forgotten.
StartOfShort(req) ==
    LET enough == {i \in 0..Len(Size) - 1 : StoredFrom(i) >= req}
    IN  IF enough # {} THEN [hb |-> Back(Min(enough)), r |-> StoredFrom(Min(enough)) - req]
        ELSE [hb |-> c_hb, r |-> hb[c_hb].w]

\* Where the last req samples start: the search of kpb_init_draining.
StartOf(req) ==
    LET enough == {i \in 0..Len(Size) - 1 : StoredFrom(i) >= req}
        all == StoredFrom(Len(Size) - 1) + Size[c_hb] - hb[c_hb].w
    IN  IF enough # {} THEN [hb |-> Back(Min(enough)), r |-> StoredFrom(Min(enough)) - req]
        ELSE [hb |-> c_hb, r |-> hb[c_hb].w + all - req]

\* A detection reaches kpb_init_draining, which looks at the host sink first:
\* KPB consumes the detector's messages from its first kpb_prepare on.
Detect(req) ==
    /\ state # "CREATED"
    /\ IF ~host_sink
       THEN fault' = TRUE /\ UNCHANGED <<state, hb, free, dd, edf_workq, host_next, promised>>
       ELSE /\ state = "RUN" /\ buffered >= req
            /\ state' = "INIT_DRAINING"
            /\ free' = BufferSize - req
            /\ LET s == StartOf(req)
               IN  /\ hb' = [hb EXCEPT ![s.hb].r = s.r]
                   /\ dd' = [dd EXCEPT !.req = req, !.hb = s.hb]
            /\ edf_workq' = Append(edf_workq, "drain")
            /\ host_next' = (head - req) % SampleMod
            /\ promised' = req
            /\ fault' = ~sel_sink
    /\ UNCHANGED <<comp, sinks, c_hb, buffered, stream, task, drain_req, buff, ipc, stop, host_q, disturbed>>

\* The EDF thread starts kpb_draining_task, which copies its data.
DrainStart ==
    /\ ~task /\ ipc = "idle" /\ edf_workq # <<>> /\ Head(edf_workq) = "drain"
    /\ edf_workq' = Tail(edf_workq)
    /\ state' = "DRAINING"
    /\ drain_req' = dd.req /\ buff' = dd.hb
    /\ dd' = [dd EXCEPT !.req = 0, !.hb = 1]
    /\ task' = (dd.req > 0)
    /\ fault' = (dd.req = 0 /\ ~host_sink)
    /\ UNCHANGED <<comp, sinks, history, stream, ipc, stop, hostside, disturbed>>

\* The samples one turn of its loop copies.
SizeToCopy ==
    LET size_to_read == Size[buff] - hb[buff].r
    IN  IF size_to_read > HostFree THEN Min({HostFree, drain_req})
        ELSE Min({size_to_read, drain_req})

\* Whether that reaches the end of the segment.
MoveBuffer == Size[buff] - hb[buff].r <= Min({HostFree, drain_req})

\* Mutant of StateAfter: the end of draining is not recorded.
StateAfterKept(done) == state

\* The end of draining lets the stream through, unless the state was changed.
StateAfter(done) == IF done /\ state = "DRAINING" THEN "HOST_COPY" ELSE state

\* One turn of the loop, and what follows the last (where the read position is
\* dead).
DrainStep ==
    /\ task /\ state # "RESETTING"
    /\ LET n == SizeToCopy
           r == hb[buff].r
           left == drain_req - n
           done == left = 0 /\ dd.rt = 0
       IN  /\ host_q' = host_q \o [i \in 1..n |-> hb[buff].data[r + i - 1]]
           /\ free' = free + Min({BufferSize - free, n})
           /\ promised' = promised - Min({promised, n})
           /\ IF MoveBuffer
              THEN /\ hb' = [hb EXCEPT ![buff].r = 0]
                   /\ buff' = IF done \/ buff = Len(Size) THEN 1 ELSE buff + 1
              ELSE /\ hb' = [hb EXCEPT ![buff].r = IF done THEN 0 ELSE r + n]
                   /\ buff' = IF done THEN 1 ELSE buff
           /\ drain_req' = IF left = 0 THEN dd.rt ELSE left
           /\ dd' = IF left = 0 THEN [dd EXCEPT !.rt = 0] ELSE dd
           /\ state' = StateAfter(done)
           /\ task' = ~done
           /\ fault' = (done /\ ~host_sink)
    /\ UNCHANGED <<comp, sinks, c_hb, buffered, stream, threads, host_next, disturbed>>

\* The task finds a reset to finish.  It then restores the copy type of the
\* host sink, which the reset has set to NULL.
DrainReset ==
    /\ task /\ state = "RESETTING"
    /\ ResetNow
    /\ task' = FALSE
    /\ fault' = TRUE
    /\ UNCHANGED <<c_hb, free, stream, dd, drain_req, buff, threads, hostside, disturbed>>

\* The host component takes samples from its buffer.
HostReads ==
    /\ host_q # <<>>
    /\ \E n \in 1..Len(host_q) :
          /\ host_q' = SubSeq(host_q, n + 1, Len(host_q))
          /\ host_next' = (host_next + n) % SampleMod
    /\ UNCHANGED <<state, comp, sinks, history, stream, drain, threads, promised, disturbed, fault>>

-----------------------------------------------------------------------------
IpcRequest ==
    \/ \E sel, host \in BOOLEAN : Bind(sel, host)
    \/ Prepare \/ PrepareFails \/ Start \/ AskStop \/ Free \/ OtherRequest

Step ==
    \/ HostAsks \/ IpcRequest \/ StopLate \/ LLStop
    \/ \E more \in 0..SourceSize : LLCopy(more)
    \/ LLCopyLate
    \/ \E req \in DrainReq : Detect(req)
    \/ DrainStart \/ DrainStep \/ DrainReset
    \/ HostReads

Next == ~fault /\ Step

Spec == Init /\ [][Next]_vars

\* The EDF thread runs (its wait is bounded), and the host reads.
Fairness ==
    /\ WF_vars(~fault /\ (IpcRequest \/ StopLate \/ DrainStart \/ DrainStep))
    /\ WF_vars(~fault /\ HostReads)

FairSpec == Spec /\ Fairness

-----------------------------------------------------------------------------
(* Properties.                                                             *)

Queued == Contains(edf_workq, "drain")

\* The host reads one unbroken stream, from exactly the requested distance
\* before the detection, through the history and what arrived while it
\* drained, into the live samples: nothing lost, repeated or out of order.
StreamIntact ==
    ~disturbed =>
        \A i \in 1..Len(host_q) : host_q[i] = (host_next + i - 1) % SampleMod

\* New data never overwrites those staged for draining (the comment on
\* hd.free in kpb_init_draining): staged and free samples make up the buffer.
StagedFits ==
    ~disturbed => /\ Queued => free + dd.req + dd.rt = BufferSize
                  /\ task => free + drain_req + dd.rt = BufferSize

\* A KPB that is draining has a task that will end the draining.
DrainingHasTask == state \in {"INIT_DRAINING", "DRAINING"} => Queued \/ task

\* Why it has one.  The EDF queue holds one request and one start of the task at
\* most, in the order of their arrival.  A request ahead of the task may follow
\* a reset, but one request cannot both bind the detector's sink anew and prepare
\* for the next detection; so no detection finds the task in the queue.
Queues == {<<>>, <<"ipc">>, <<"drain">>, <<"ipc", "drain">>, <<"drain", "ipc">>}
Behind == edf_workq = <<"ipc", "drain">>
DrainInv ==
    /\ DOMAIN dd = DOMAIN NoDrain
    /\ edf_workq \in Queues
    /\ state \in {"RUN", "INIT_DRAINING"} => comp # "READY" /\ ~task
    /\ state = "INIT_DRAINING" => Queued
    /\ state = "DRAINING" => task
    /\ task => ~Queued
    /\ Queued /\ ~fault => dd.req \in DrainReq
    /\ Queued => state # "RUN"
    /\ Behind => \/ state \in {"INIT_DRAINING", "RESETTING"} /\ comp # "READY"
                 \/ state = "PREPARING" /\ ~sel_sink

\* The history a detection asked for reaches the host, unless a reset comes
\* first or buffering times out.
HistoryDelivered == promised > 0 ~> (promised = 0 \/ disturbed)

\* A reset is gentle on a task in progress (the comment in kpb_reset): the
\* task finds the host sink it was given.
DrainKeepsSink == Queued \/ task => host_sink

\* A reset that kpb_reset puts off is finished by the draining task.
ResetHasTask == state = "RESETTING" => Queued \/ task
=============================================================================
