------------------------------- MODULE DpStream -------------------------------
(***************************************************************************)
(* A DP module between two LL modules, from end to end:                    *)
(*                                                                         *)
(*   LL1 -> stream a -> dp_queue inq -> DP -> dp_queue outq -> stream b    *)
(*                                                                  -> LL2 *)
(*                                                                         *)
(* The LL thread runs LL1, the module adapter of the DP module, which      *)
(* copies between the streams (src/src/include/sof/audio/audio_stream.h)   *)
(* and their shadow queues (src/src/audio/buffer.c), and LL2; then the DP  *)
(* scheduler looks for work (src/src/schedule/zephyr_dp_schedule.c).  The  *)
(* DP thread may be on another core.  The queues are the bounded FIFOs     *)
(* that module DpQueue is shown to implement; one unit of data is what     *)
(* divides all block sizes, numbered modulo SampleMod.                     *)
(***************************************************************************)
EXTENDS Integers, Sequences, FiniteSetsExt

CONSTANTS ChunkIn,    \* what LL1 produces in a cycle: its OBS
          Block,      \* IBS and OBS of the DP module
          ChunkOut,   \* what LL2 needs in a cycle: its IBS
          SampleMod

ASSUME ChunkAssumption == {ChunkIn, Block, ChunkOut} \subseteq Nat \ {0}
\* What an LL cycle brings must be what it takes away.
ASSUME RateAssumption == ChunkIn = ChunkOut /\ Block >= ChunkOut

\* Sizes of the buffers made by ipc_comp_connect, and of their shadows
\* (dp_queue_create, where the alignment to cache lines may add more).
SizeOfA == 2 * ChunkIn
SizeOfB == 2 * ChunkOut
SizeOfIn == 2 * Max({ChunkIn, Block})
SizeOfOut == 2 * Max({Block, ChunkOut})
ASSUME ModAssumption ==
    SampleMod \in Nat /\ SampleMod > SizeOfA + SizeOfB + SizeOfIn + SizeOfOut + Block

\* module_adapter_calculate_dp_period, in LL cycles, and the first tick after
\* the deadline that follows from it.
Period == Block \div ChunkOut
Deadline == (Block + ChunkOut - 1) \div ChunkOut

VARIABLES a, b,         \* the streams: data, r_ptr, w_ptr, avail
          inq, outq,    \* the shadow queues, oldest unit first
          ll,           \* where the LL thread is in its cycle
          to_copy,      \* buffer_sync_shadow_dp_queue: what it decided to copy
          task,         \* state of the DP task
          block,        \* what the DP thread has taken and not yet produced
          age,          \* LL cycles since the task was triggered
          ll_cycles_to_start, dp_startup_delay,
          sent, heard,  \* history: the next unit of LL1, and for LL2
          running,      \* history: LL1 has begun to produce
          playing,      \* history: LL2 has begun to consume
          late,         \* history: the DP thread has missed a deadline
          overrun, underrun, failed  \* history: what has gone wrong

streams == <<a, b>>
queues == <<inq, outq>>
dp == <<task, block, age>>
startup == <<ll_cycles_to_start, dp_startup_delay>>
past == <<sent, heard, running, playing, late, overrun, underrun, failed>>
vars == <<streams, queues, ll, to_copy, dp, startup, past>>

-----------------------------------------------------------------------------
(* Audio streams.                                                          *)

\* audio_stream_reset, on a zeroed buffer.
Reset(size) == [data |-> [i \in 0..size - 1 |-> 0], r |-> 0, w |-> 0, avail |-> 0]

Wrap(size, ptr) == IF ptr >= size THEN ptr - size ELSE ptr

Free(s, size) == size - s.avail

\* Mutant of Produce: equal pointers always mean an empty stream.
ProduceEmpty(s, size, units) ==
    LET w == Wrap(size, s.w + Len(units))
        Written(i) == (i - s.w) % size < Len(units)
    IN  [data |-> [i \in 0..size - 1 |->
                      IF Written(i) THEN units[((i - s.w) % size) + 1] ELSE s.data[i]],
         r |-> s.r, w |-> w, avail |-> (w - s.r) % size]

\* Writing units, and audio_stream_produce.
Produce(s, size, units) ==
    LET w == Wrap(size, s.w + Len(units))
        r == IF Len(units) > Free(s, size) THEN w ELSE s.r
        Written(i) == (i - s.w) % size < Len(units)
    IN  [data |-> [i \in 0..size - 1 |->
                      IF Written(i) THEN units[((i - s.w) % size) + 1] ELSE s.data[i]],
         r |-> r, w |-> w,
         avail |-> IF r = w THEN size ELSE IF r < w THEN w - r ELSE size - (r - w)]

\* The n oldest units of a stream.
Oldest(s, size, n) == [i \in 1..n |-> s.data[Wrap(size, s.r + i - 1)]]

\* audio_stream_consume.
Consume(s, size, n) ==
    LET r == Wrap(size, s.r + n)
    IN  [data |-> s.data, r |-> r, w |-> s.w,
         avail |-> IF r = s.w THEN 0 ELSE IF r < s.w THEN s.w - r ELSE size - (r - s.w)]

-----------------------------------------------------------------------------
Init ==
    /\ a = Reset(SizeOfA) /\ b = Reset(SizeOfB)
    /\ inq = <<>> /\ outq = <<>>
    /\ ll = "LL1" /\ to_copy = 0
    /\ task = "QUEUED" /\ block = <<>> /\ age = 0
    /\ ll_cycles_to_start = Period /\ dp_startup_delay = TRUE
    /\ sent = 0 /\ heard = 0
    /\ running = FALSE /\ playing = FALSE
    /\ late = FALSE /\ overrun = FALSE /\ underrun = FALSE /\ failed = FALSE

\* LL1 produces its chunk, from some cycle on.
LL1 ==
    /\ ll = "LL1" /\ ll' = "read_in"
    /\ \/ ~running /\ UNCHANGED <<a, sent, running, overrun>>
       \/ /\ Free(a, SizeOfA) >= ChunkIn
          /\ running' = TRUE
          /\ a' = Produce(a, SizeOfA, [i \in 1..ChunkIn |-> (sent + i - 1) % SampleMod])
          /\ sent' = (sent + ChunkIn) % SampleMod
          /\ UNCHANGED overrun
       \/ /\ Free(a, SizeOfA) < ChunkIn
          /\ overrun' = TRUE
          /\ UNCHANGED <<a, sent, running>>
    /\ UNCHANGED <<b, queues, to_copy, dp, startup, heard, playing, late, underrun, failed>>

\* buffer_sync_shadow_dp_queue of a, up to its decision.
ReadIn ==
    /\ ll = "read_in" /\ ll' = "copy_in"
    /\ to_copy' = Min({a.avail, SizeOfIn - Len(inq)})
    /\ UNCHANGED <<streams, queues, dp, startup, past>>

\* source_to_sink_copy from a; a failure ends the copy of the adapter.  While
\* the startup delay lasts nothing goes to b.
CopyIn ==
    /\ ll = "copy_in"
    /\ IF to_copy > a.avail \/ to_copy > SizeOfIn - Len(inq)
       THEN failed' = TRUE /\ ll' = "LL2" /\ UNCHANGED <<a, inq>>
       ELSE /\ inq' = inq \o Oldest(a, SizeOfA, to_copy)
            /\ a' = IF to_copy = 0 THEN a ELSE Consume(a, SizeOfA, to_copy)
            /\ ll' = IF dp_startup_delay THEN "LL2" ELSE "read_out"
            /\ UNCHANGED failed
    /\ to_copy' = 0
    /\ UNCHANGED <<b, outq, dp, startup, sent, heard, running, playing, late, overrun, underrun>>

\* Mutant of ReadOut: the free space of the stream is not looked at.
ReadOutUnlimited ==
    /\ ll = "read_out" /\ ll' = "copy_out"
    /\ to_copy' = Len(outq)
    /\ UNCHANGED <<streams, queues, dp, startup, past>>

\* buffer_sync_shadow_dp_queue of b, limited to the IBS of LL2.
ReadOut ==
    /\ ll = "read_out" /\ ll' = "copy_out"
    /\ to_copy' = Min({Len(outq), Free(b, SizeOfB), ChunkOut})
    /\ UNCHANGED <<streams, queues, dp, startup, past>>

\* source_to_sink_copy to b.
CopyOut ==
    /\ ll = "copy_out" /\ ll' = "LL2"
    /\ IF to_copy > Len(outq) \/ to_copy > Free(b, SizeOfB)
       THEN failed' = TRUE /\ UNCHANGED <<b, outq>>
       ELSE /\ b' = IF to_copy = 0 THEN b
                    ELSE Produce(b, SizeOfB, SubSeq(outq, 1, to_copy))
            /\ outq' = SubSeq(outq, to_copy + 1, Len(outq))
            /\ UNCHANGED failed
    /\ to_copy' = 0
    /\ UNCHANGED <<a, inq, dp, startup, sent, heard, running, playing, late, overrun, underrun>>

\* LL2 drains its stream.
LL2 ==
    /\ ll = "LL2" /\ ll' = "tick"
    /\ IF b.avail >= ChunkOut
       THEN /\ b' = Consume(b, SizeOfB, b.avail)
            /\ heard' = (heard + b.avail) % SampleMod
            /\ playing' = TRUE
            /\ UNCHANGED underrun
       ELSE underrun' = (underrun \/ playing) /\ UNCHANGED <<b, heard, playing>>
    /\ UNCHANGED <<a, queues, to_copy, dp, startup, sent, running, late, overrun, failed>>

\* Mutant of Ready: the whole queue must be free.
ReadyEmpty == Len(inq) >= Block /\ outq = <<>>

\* module_is_ready_to_process.
Ready == Len(inq) >= Block /\ SizeOfOut - Len(outq) >= Block

\* Mutant of Tick: a task that has missed a deadline is not triggered again.
TickNotLate ==
    /\ ll = "tick" /\ ll' = "LL1"
    /\ ll_cycles_to_start' = Max({0, ll_cycles_to_start - 1})
    /\ dp_startup_delay' = (dp_startup_delay /\ ll_cycles_to_start # 1)
    /\ \/ /\ task = "QUEUED" /\ Ready /\ ~late
          /\ task' = "RUNNING" /\ age' = 0
          /\ UNCHANGED late
       \/ /\ task = "QUEUED" /\ ~(Ready /\ ~late)
          /\ UNCHANGED <<task, age, late>>
       \/ /\ task = "RUNNING"
          /\ age' = Min({age + 1, Deadline - 1})
          /\ late' = (late \/ age + 1 = Deadline)
          /\ UNCHANGED task
    /\ UNCHANGED <<streams, queues, to_copy, block, sent, heard, running, playing,
                   overrun, underrun, failed>>

\* scheduler_dp_ll_tick: the startup delay runs from the scheduling of the task,
\* and a triggered task has a period to finish, or is late.
Tick ==
    /\ ll = "tick" /\ ll' = "LL1"
    /\ ll_cycles_to_start' = Max({0, ll_cycles_to_start - 1})
    /\ dp_startup_delay' = (dp_startup_delay /\ ll_cycles_to_start # 1)
    /\ \/ /\ task = "QUEUED" /\ Ready
          /\ task' = "RUNNING" /\ age' = 0
          /\ UNCHANGED late
       \/ /\ task = "QUEUED" /\ ~Ready
          /\ UNCHANGED <<task, age, late>>
       \/ /\ task = "RUNNING"
          /\ age' = Min({age + 1, Deadline - 1})
          /\ late' = (late \/ age + 1 = Deadline)
          /\ UNCHANGED task
    /\ UNCHANGED <<streams, queues, to_copy, block, sent, heard, running, playing,
                   overrun, underrun, failed>>

\* The DP thread takes a block and gives its space back.
DpTake ==
    /\ task = "RUNNING" /\ block = <<>>
    /\ block' = SubSeq(inq, 1, Block)
    /\ inq' = SubSeq(inq, Block + 1, Len(inq))
    /\ UNCHANGED <<streams, outq, ll, to_copy, task, age, startup, past>>

\* It commits what it made of it.
DpGive ==
    /\ block # <<>>
    /\ outq' = outq \o block
    /\ block' = <<>> /\ task' = "QUEUED" /\ age' = 0
    /\ UNCHANGED <<streams, inq, ll, to_copy, startup, past>>

-----------------------------------------------------------------------------
LLThread == LL1 \/ ReadIn \/ CopyIn \/ ReadOut \/ CopyOut \/ LL2 \/ Tick
DpThread == DpTake \/ DpGive
Next == LLThread \/ DpThread

\* The timer drives the LL thread, and the DP thread meets its deadlines.  LL1
\* begins to produce.
Fairness == WF_vars(LLThread) /\ WF_vars(DpThread) /\ SF_vars(LL1 /\ sent' # sent)

Spec == Init /\ [][Next]_vars /\ Fairness

-----------------------------------------------------------------------------
(* Properties.                                                             *)

\* The pointers stay in their buffers and the counts within their sizes.
StreamType(s, size) ==
    /\ s.data \in [0..size - 1 -> Int]
    /\ s.r \in 0..size - 1 /\ s.w \in 0..size - 1 /\ s.avail \in 0..size
TypeOK ==
    /\ StreamType(a, SizeOfA) /\ StreamType(b, SizeOfB)
    /\ inq \in Seq(Int) /\ outq \in Seq(Int) /\ block \in Seq(Int)
    /\ Len(inq) <= SizeOfIn
    /\ to_copy \in Nat /\ sent \in Nat

\* Inductive: what the copies and the DP thread are about to rely on.
SyncInv ==
    /\ TypeOK
    /\ task = "RUNNING" /\ block = <<>> => Block <= Len(inq)
    /\ ll = "copy_in" => to_copy <= a.avail /\ to_copy <= SizeOfIn - Len(inq)
    /\ ll = "copy_out" => to_copy <= Len(outq) /\ to_copy <= Free(b, SizeOfB)
    /\ ~failed

Contents(s, size) == Oldest(s, size, s.avail)
InTransit == Contents(b, SizeOfB) \o outq \o block \o inq \o Contents(a, SizeOfA)

\* What LL1 produces reaches LL2 complete and in order, through two streams,
\* two queues and the DP thread.
Unbroken ==
    /\ \A i \in 1..Len(InTransit) : InTransit[i] = (heard + i - 1) % SampleMod
    /\ (heard + Len(InTransit)) % SampleMod = sent

\* The same, place by place: each of them holds the units that follow those of
\* the places downstream, and the pointers of a stream are as far apart as it
\* has units.
Consecutive(q, first) == \A i \in 1..Len(q) : q[i] = (first + i - 1) % SampleMod
StreamConsecutive(s, size, first) ==
    /\ s.w = Wrap(size, s.r + s.avail)
    /\ \A i \in 1..s.avail : s.data[Wrap(size, s.r + i - 1)] = (first + i - 1) % SampleMod
OutFirst == heard + b.avail
BlockFirst == OutFirst + Len(outq)
InFirst == BlockFirst + Len(block)
NewFirst == InFirst + Len(inq)
FlowInv ==
    /\ heard \in Nat
    /\ StreamConsecutive(b, SizeOfB, heard)
    /\ Consecutive(outq, OutFirst) /\ Consecutive(block, BlockFirst) /\ Consecutive(inq, InFirst)
    /\ StreamConsecutive(a, SizeOfA, NewFirst)
    /\ sent = (NewFirst + a.avail) % SampleMod

\* The sizes buffer_sync_shadow_dp_queue has read are still good when
\* source_to_sink_copy uses them, with the DP thread at work in between.
SyncSucceeds == ~failed

\* A DP module that meets its deadlines never holds up LL1: there is room for
\* every chunk.
NoOverrun == overrun => late

\* Both LL modules go on for ever.
KeepsFlowing == []<><<LL1 /\ sent' # sent>>_vars /\ []<><<LL2 /\ heard' # heard>>_vars

\* Once LL2 has begun to consume, a DP module that meets its deadlines keeps it
\* supplied (the comment
\* on dp_startup_delay in src/src/include/module/module/base.h).
NoUnderrun == underrun => late
=============================================================================
