------------------------------- MODULE DpQueue -------------------------------
(***************************************************************************)
(* The lockless single-producer single-consumer queue between an LL and a  *)
(* DP module (src/src/audio/dp_queue.c), used through the sink and source  *)
(* wrappers (src/src/module/audio/sink_api.c, source_api.c).  In shared    *)
(* mode the two ends run on different cores: the data buffer is cached on  *)
(* each of them and the queue writes back and invalidates the lines.       *)
(*                                                                         *)
(* Calls that fail (-EBUSY, -ENODATA) change nothing and are stuttering    *)
(* steps; num_of_bytes_processed, a statistic, is left out.                *)
(***************************************************************************)
EXTENDS Integers

CONSTANTS MinAvailable,  \* min_available: the reader's input block size, IBS
          MinFreeSpace,  \* min_free_space: the writer's output block size, OBS
          DcacheAlign,   \* PLATFORM_DCACHE_ALIGN, the length of a cache line
          Shared,        \* DP_QUEUE_MODE_SHARED
          Byte,          \* the values of a byte of audio
          NoByte,        \* "not in the reader's cache"
          Params,        \* sof_ipc_stream_params, opaque
          Requests       \* the sizes the two modules ask for

ASSUME SizesAssumption ==
    /\ MinAvailable \in Nat \ {0}
    /\ MinFreeSpace \in Nat \ {0}
    /\ DcacheAlign \in Nat \ {0}
    /\ Requests \subseteq Nat \ {0}
ASSUME ModeAssumption == Shared \in BOOLEAN
ASSUME ByteAssumption == NoByte \notin Byte /\ Byte # {}

-----------------------------------------------------------------------------
Larger(a, b) == IF a > b THEN a ELSE b
Smaller(a, b) == IF a < b THEN a ELSE b

AlignUp(val, align) == (val + align - 1) - ((val + align - 1) % align)

\* data_buffer_size
Size == AlignUp(2 * Larger(MinAvailable, MinFreeSpace), DcacheAlign)

Slots == 0 .. Size - 1
Offsets == 0 .. 2 * Size - 1

\* dp_queue_get_pointer, as an index into _data_buffer
Pointer(offset) == IF offset >= Size THEN offset - Size ELSE offset

\* dp_queue_inc_offset: offsets live in the "double area" 0 .. 2*size-1
IncOffset(offset, inc) ==
    IF offset + inc >= 2 * Size THEN offset + inc - 2 * Size ELSE offset + inc

\* _dp_queue_get_data_available
DataAvailable(w, r) == IF w - r < 0 THEN 2 * Size + (w - r) ELSE w - r

\* dp_queue_get_free_size
FreeSize(w, r) == Size - DataAvailable(w, r)

\* The circular range of n slots from start: [start, end) then the wrapped rest.
CircRange(start, n) ==
    {s \in Slots : (start <= s /\ s < start + n) \/ s < start + n - Size}

\* What a dcache operation on the slots S touches: whole lines.
Lines(S) == {s \in Slots : \E t \in S : s \div DcacheAlign = t \div DcacheAlign}

-----------------------------------------------------------------------------
VARIABLES
    write_offset, read_offset,
    requested_write_frag_size,  \* sof_sink: what get_buffer granted
    requested_read_frag_size,   \* sof_source: what get_data granted
    committing,  \* size of the commit between write-back and publication, or 0
    fetching,    \* size of the get_data between its check and invalidation, or 0
    wcache,      \* the buffer as the writer's core sees it
    mem,         \* the buffer in memory
    rcache,      \* the reader's core: cached bytes, NoByte where it has none
    params, hw_params_configured

offsets == <<write_offset, read_offset>>
writer == <<requested_write_frag_size, committing>>
reader == <<requested_read_frag_size, fetching>>
data == <<wcache, mem, rcache>>
stream == <<params, hw_params_configured>>
vars == <<offsets, writer, reader, data, stream>>

WriteWindow == CircRange(Pointer(write_offset), requested_write_frag_size)
ReadWindow == CircRange(Pointer(read_offset), requested_read_frag_size)
Committed == CircRange(Pointer(read_offset), DataAvailable(write_offset, read_offset))

\* What the reader loads from slot s.
ReaderSees(s) ==
    IF ~Shared THEN wcache[s]
    ELSE IF rcache[s] = NoByte THEN mem[s] ELSE rcache[s]

-----------------------------------------------------------------------------
Init ==
    /\ write_offset = 0 /\ read_offset = 0
    /\ requested_write_frag_size = 0 /\ requested_read_frag_size = 0
    /\ committing = 0 /\ fetching = 0
    /\ mem \in [Slots -> Byte]
    /\ wcache = mem
    /\ rcache = [s \in Slots |-> NoByte]
    /\ params = {} /\ hw_params_configured = FALSE

\* Mutant of GetBuffer: the -ENODATA check is missing.
GetBufferUnchecked(n) ==
    /\ requested_write_frag_size = 0
    /\ requested_write_frag_size' = n
    /\ UNCHANGED <<offsets, committing, reader, data, stream>>

\* sink_get_buffer: one read of the other side's _read_offset decides.
GetBuffer(n) ==
    /\ requested_write_frag_size = 0
    /\ n <= FreeSize(write_offset, read_offset)
    /\ requested_write_frag_size' = n
    /\ UNCHANGED <<offsets, committing, reader, data, stream>>

\* The writer's module fills (part of) what it was granted, in its cache.
Fill ==
    /\ requested_write_frag_size > 0
    /\ committing = 0
    /\ \E f \in [WriteWindow -> Byte] :
          wcache' = [s \in Slots |-> IF s \in WriteWindow THEN f[s] ELSE wcache[s]]
    /\ UNCHANGED <<offsets, writer, reader, mem, rcache, stream>>

\* Mutant of WriteBackShared: the committed bytes stay in the writer's cache.
WriteBackNothing(S) == mem

\* dcache_writeback_region on the slots S, a no-op in local mode
WriteBackShared(S) ==
    IF Shared THEN [s \in Slots |-> IF s \in Lines(S) THEN wcache[s] ELSE mem[s]]
              ELSE mem

\* Mutant of CommitWriteBack: the line at the end of the range is not written back.
CommitWriteBackShort(n) ==
    /\ requested_write_frag_size > 0
    /\ committing = 0
    /\ n > 0
    /\ committing' = Smaller(n, requested_write_frag_size)
    /\ mem' = WriteBackShared(CircRange(Pointer(write_offset), committing' - 1))
    /\ UNCHANGED <<offsets, requested_write_frag_size, reader, wcache, rcache, stream>>

\* sink_commit_buffer, dp_queue_commit_buffer up to the write-back
CommitWriteBack(n) ==
    /\ requested_write_frag_size > 0
    /\ committing = 0
    /\ n > 0
    /\ committing' = Smaller(n, requested_write_frag_size)
    /\ mem' = WriteBackShared(CircRange(Pointer(write_offset), committing'))
    /\ UNCHANGED <<offsets, requested_write_frag_size, reader, wcache, rcache, stream>>

\* the rest of dp_queue_commit_buffer: move _write_offset, the grant ends
CommitPublish ==
    /\ committing > 0
    /\ write_offset' = IncOffset(write_offset, committing)
    /\ committing' = 0
    /\ requested_write_frag_size' = 0
    /\ UNCHANGED <<read_offset, reader, data, stream>>

\* sink_commit_buffer(sink, 0): the grant is given back unused
CommitNothing ==
    /\ requested_write_frag_size > 0
    /\ committing = 0
    /\ requested_write_frag_size' = 0
    /\ UNCHANGED <<offsets, committing, reader, data, stream>>

\* source_get_data up to the check of _write_offset
GetDataCheck(n) ==
    /\ requested_read_frag_size = 0
    /\ fetching = 0
    /\ n > 0
    /\ n <= DataAvailable(write_offset, read_offset)
    /\ fetching' = n
    /\ UNCHANGED <<offsets, writer, requested_read_frag_size, data, stream>>

\* Mutant of InvalidateShared: the wrapped part of the range is forgotten.
InvalidateNoWrap(S) ==
    IF Shared
    THEN [s \in Slots |->
            IF s \in Lines({t \in S : t >= Pointer(read_offset)})
            THEN NoByte ELSE rcache[s]]
    ELSE rcache

\* dcache_invalidate_region on the slots S, a no-op in local mode
InvalidateShared(S) ==
    IF Shared THEN [s \in Slots |-> IF s \in Lines(S) THEN NoByte ELSE rcache[s]]
              ELSE rcache

\* the rest of source_get_data: invalidate, hand out the pointer
GetDataInvalidate ==
    /\ fetching > 0
    /\ rcache' = InvalidateShared(CircRange(Pointer(read_offset), fetching))
    /\ requested_read_frag_size' = fetching
    /\ fetching' = 0
    /\ UNCHANGED <<offsets, writer, wcache, mem, stream>>

\* source_release_data, dp_queue_release_data
ReleaseData(n) ==
    /\ requested_read_frag_size > 0
    /\ read_offset' = IncOffset(read_offset, Smaller(n, requested_read_frag_size))
    /\ requested_read_frag_size' = 0
    /\ UNCHANGED <<write_offset, writer, fetching, data, stream>>

\* Hardware: the line of slot s enters or leaves the reader's cache (a load, a
\* prefetch; the reader never dirties a line), or a dirty line is evicted
\* from the writer's cache.
ReaderLineFill(s) ==
    /\ Shared
    /\ rcache' = [t \in Slots |->
                    IF t \in Lines({s}) /\ rcache[t] = NoByte THEN mem[t] ELSE rcache[t]]
    /\ UNCHANGED <<offsets, writer, reader, wcache, mem, stream>>

ReaderLineEvict(s) ==
    /\ Shared
    /\ rcache' = [t \in Slots |-> IF t \in Lines({s}) THEN NoByte ELSE rcache[t]]
    /\ UNCHANGED <<offsets, writer, reader, wcache, mem, stream>>

WriterLineEvict(s) ==
    /\ Shared
    /\ mem' = [t \in Slots |-> IF t \in Lines({s}) THEN wcache[t] ELSE mem[t]]
    /\ UNCHANGED <<offsets, writer, reader, wcache, rcache, stream>>

\* dp_queue_set_ipc_params, called by either end
SetIpcParams(p, force_update) ==
    /\ ~hw_params_configured \/ force_update
    /\ params' = {p}
    /\ hw_params_configured' = TRUE
    /\ UNCHANGED <<offsets, writer, reader, data>>

Hardware ==
    \E s \in {t \in Slots : t % DcacheAlign = 0} :
        ReaderLineFill(s) \/ ReaderLineEvict(s) \/ WriterLineEvict(s)

Next ==
    \/ \E n \in Requests : \/ GetBuffer(n)
                           \/ CommitWriteBack(n)
                           \/ GetDataCheck(n)
    \/ \E n \in Requests \cup {0} : ReleaseData(n)
    \/ Fill \/ CommitPublish \/ CommitNothing \/ GetDataInvalidate
    \/ Hardware
    \/ \E p \in Params, force_update \in BOOLEAN : SetIpcParams(p, force_update)

Spec == Init /\ [][Next]_vars

\* The use dp_queue.h prescribes: the writer works in blocks of MinFreeSpace
\* bytes, the reader in blocks of MinAvailable, and each of them is scheduled
\* again and again (the LL tick, the DP thread).
WriteBlock == GetBuffer(MinFreeSpace) \/ CommitWriteBack(MinFreeSpace) \/ CommitPublish
ReadBlock == GetDataCheck(MinAvailable) \/ GetDataInvalidate \/ ReleaseData(MinAvailable)

BlockSpec ==
    /\ Init
    /\ [][WriteBlock \/ ReadBlock \/ Hardware]_vars
    /\ WF_vars(WriteBlock)
    /\ WF_vars(ReadBlock)

-----------------------------------------------------------------------------
\* Both offsets stay in the double area, and every size within the buffer.
TypeOK ==
    /\ write_offset \in Offsets /\ read_offset \in Offsets
    /\ requested_write_frag_size \in 0..Size /\ requested_read_frag_size \in 0..Size
    /\ committing \in 0..Size /\ fetching \in 0..Size
    /\ wcache \in [Slots -> Byte] /\ mem \in [Slots -> Byte]
    /\ rcache \in [Slots -> Byte \cup {NoByte}]
    /\ params \in SUBSET Params /\ hw_params_configured \in BOOLEAN

\* sink_api.h: "After calling get_buffer, the space for data is guaranteed to be
\* available for exclusive use on the caller core": what the writer was granted
\* never overlaps a byte that is committed and not released, hence never what
\* the reader was lent, whatever the other end did since the grant.
ExclusiveWindows ==
    /\ WriteWindow \cap Committed = {}
    /\ ReadWindow \subseteq Committed

\* source_api.h promises that data got from a source needs no further cache
\* operation: whatever lines the reader's core holds or prefetches, it sees in
\* its window the bytes the writer put there.
CoherentWindow == \A s \in ReadWindow : ReaderSees(s) = wcache[s]

\* While data is lent, no step of the writer, of the cache or of memory changes
\* what the reader sees in it.
LentDataIsStable ==
    [][requested_read_frag_size > 0 /\ requested_read_frag_size' > 0
         => \A s \in ReadWindow : ReaderSees(s)' = ReaderSees(s)]_vars

\* The slot of the i-th oldest byte, and what memory (the shared cache in local
\* mode) holds in a slot.
Slot(i) == Pointer(IncOffset(read_offset, i - 1))
InQueue(s) == IF Shared THEN mem[s] ELSE wcache[s]

\* The bytes between the offsets, and those the reader sees in its window.
Queued == [i \in 1 .. DataAvailable(write_offset, read_offset) |-> InQueue(Slot(i))]
Lent == [i \in 1 .. requested_read_frag_size |-> ReaderSees(Slot(i))]

Fifo == INSTANCE ByteFifo WITH Capacity <- Size, queue <- Queued, lent <- Lent

\* The queue implements a FIFO of data_buffer_size bytes: nothing is lost,
\* duplicated, reordered or invented between commit_buffer and release_data.
ImplementsFifo == Fifo!Spec

\* dp_queue.h: a buffer of 2*MAX(IBS,OBS) allows "free read/write in various
\* data chunk sizes": neither end ever waits for the other forever.
KeepsFlowing ==
    /\ []<><<CommitPublish>>_vars
    /\ []<><<ReleaseData(MinAvailable)>>_vars
=============================================================================
