---------------------------- MODULE DpQueueProofs ----------------------------
(***************************************************************************)
(* Proofs about DpQueue, for every block size, cache line length, mode and *)
(* set of byte values.                                                     *)
(***************************************************************************)
EXTENDS DpQueue, Sequences, TLAPS

\* Offsets never drift further apart than the buffer, and every grant fits.
Accounting ==
    /\ DataAvailable(write_offset, read_offset) <= Size
    /\ requested_write_frag_size <= FreeSize(write_offset, read_offset)
    /\ committing <= requested_write_frag_size
    /\ fetching <= DataAvailable(write_offset, read_offset)
    /\ requested_read_frag_size <= DataAvailable(write_offset, read_offset)
    /\ requested_read_frag_size > 0 => fetching = 0

\* Committed bytes, and those being committed, have reached memory.
WrittenBack ==
    Shared => \A s \in Committed \cup CircRange(Pointer(write_offset), committing) :
                 mem[s] = wcache[s]

\* The reader's cache holds no stale byte of the window it was lent.
NotStale == Shared => \A s \in ReadWindow : rcache[s] \in {NoByte, mem[s]}

DpInv == TypeOK /\ Accounting /\ WrittenBack /\ NotStale

-----------------------------------------------------------------------------
\* dp_queue_create always ends up with a buffer that has room for two blocks.
LEMMA SizeType == Size \in Nat \ {0}
<1> DEFINE v == 2 * Larger(MinAvailable, MinFreeSpace)
<1>1. v \in Nat /\ v > 0
  BY SizesAssumption DEF Larger
<1>2. (v + DcacheAlign - 1) % DcacheAlign \in 0 .. DcacheAlign - 1
  BY <1>1, SizesAssumption
<1>3. AlignUp(v, DcacheAlign) \in Nat \ {0}
  BY <1>1, <1>2, SizesAssumption DEF AlignUp
<1> QED
  BY <1>3, Zenon DEF Size

\* What dp_queue_get_pointer and dp_queue_inc_offset return for an offset of
\* the double area and an increment of at most the buffer size.
LEMMA OffsetTypes ==
    ASSUME NEW o \in Offsets, NEW n \in 0..Size
    PROVE  Pointer(o) \in Slots /\ IncOffset(o, n) \in Offsets
BY SizeType DEF Offsets, Slots, Pointer, IncOffset

LEMMA AvailableType ==
    ASSUME NEW w \in Offsets, NEW r \in Offsets
    PROVE  DataAvailable(w, r) \in 0 .. 2 * Size - 1
BY SizeType DEF Offsets, DataAvailable

\* A grant of free space does not meet the committed bytes.
LEMMA FreeIsDisjoint ==
    ASSUME NEW w \in Offsets, NEW r \in Offsets, NEW n \in 0..Size,
           DataAvailable(w, r) <= Size, n <= FreeSize(w, r)
    PROVE  CircRange(Pointer(w), n) \cap CircRange(Pointer(r), DataAvailable(w, r)) = {}
BY SizeType DEF Offsets, Slots, Pointer, DataAvailable, FreeSize, CircRange

\* Moving _write_offset by n adds n bytes and exactly the range they occupy.
LEMMA Publishing ==
    ASSUME NEW w \in Offsets, NEW r \in Offsets, NEW n \in 0..Size,
           DataAvailable(w, r) <= Size, n <= FreeSize(w, r)
    PROVE  /\ DataAvailable(IncOffset(w, n), r) = DataAvailable(w, r) + n
           /\ CircRange(Pointer(r), DataAvailable(IncOffset(w, n), r))
                = CircRange(Pointer(r), DataAvailable(w, r)) \cup CircRange(Pointer(w), n)
<1>1. DataAvailable(IncOffset(w, n), r) = DataAvailable(w, r) + n
  BY SizeType DEF Offsets, DataAvailable, IncOffset, FreeSize
<1>2. ASSUME NEW s \in Slots
      PROVE  s \in CircRange(Pointer(r), DataAvailable(w, r) + n)
               <=> \/ s \in CircRange(Pointer(r), DataAvailable(w, r))
                   \/ s \in CircRange(Pointer(w), n)
  BY SizeType DEF Offsets, Slots, DataAvailable, FreeSize, CircRange, Pointer
<1> QED
  BY <1>1, <1>2, Zenon DEF CircRange

\* Moving _read_offset by n removes n bytes and uncovers no slot.
LEMMA Releasing ==
    ASSUME NEW w \in Offsets, NEW r \in Offsets, NEW n \in 0..Size,
           DataAvailable(w, r) <= Size, n <= DataAvailable(w, r)
    PROVE  /\ DataAvailable(w, IncOffset(r, n)) = DataAvailable(w, r) - n
           /\ CircRange(Pointer(IncOffset(r, n)), DataAvailable(w, IncOffset(r, n)))
                \subseteq CircRange(Pointer(r), DataAvailable(w, r))
<1>1. DataAvailable(w, IncOffset(r, n)) = DataAvailable(w, r) - n
  BY SizeType DEF Offsets, DataAvailable, IncOffset
<1>2. ASSUME NEW s \in Slots,
             s \in CircRange(Pointer(IncOffset(r, n)), DataAvailable(w, r) - n)
      PROVE  s \in CircRange(Pointer(r), DataAvailable(w, r))
  BY <1>2, SizeType DEF Offsets, Slots, DataAvailable, IncOffset, CircRange, Pointer
<1> QED
  BY <1>1, <1>2, Zenon DEF CircRange

\* A shorter range from the same slot covers no more, an empty one nothing.
LEMMA Shorter ==
    ASSUME NEW p \in Slots, NEW m \in 0..Size, NEW n \in 0..m
    PROVE  CircRange(p, n) \subseteq CircRange(p, m) /\ CircRange(p, 0) = {}
BY SizeType DEF Slots, CircRange

\* A cache operation on some slots covers at least those slots.
LEMMA LinesCover == ASSUME NEW S \in SUBSET Slots PROVE S \subseteq Lines(S)
BY Zenon DEF Lines

-----------------------------------------------------------------------------
LEMMA DpInvInit == Init => DpInv
<1> SUFFICES ASSUME Init PROVE DpInv
  BY Zenon
<1>1. TypeOK
  <2>1. wcache \in [Slots -> Byte] /\ mem \in [Slots -> Byte]
    BY Zenon DEF Init
  <2>2. rcache \in [Slots -> Byte \cup {NoByte}]
    BY Zenon DEF Init
  <2>3. 0 \in Offsets /\ 0 \in 0..Size
    BY SizeType DEF Offsets
  <2> QED
    BY <2>1, <2>2, <2>3, Zenon DEF Init, TypeOK
<1>2. DataAvailable(write_offset, read_offset) = 0
  BY DEF Init, DataAvailable
<1>3. Accounting
  BY <1>2, SizeType DEF Init, Accounting, FreeSize
<1>4. WrittenBack
  BY Zenon DEF Init, WrittenBack
<1>5. NotStale
  BY Zenon DEF Init, NotStale, ReadWindow, CircRange
<1> QED
  BY <1>1, <1>3, <1>4, <1>5, Zenon DEF DpInv

\* The facts about the windows that the steps below share.
LEMMA Windows ==
    ASSUME TypeOK, Accounting
    PROVE  /\ WriteWindow \cap Committed = {}
           /\ ReadWindow \subseteq Committed
           /\ CircRange(Pointer(write_offset), committing) \subseteq WriteWindow
           /\ WriteWindow \subseteq Slots /\ Committed \subseteq Slots
<1> USE SizeType
<1>1. DataAvailable(write_offset, read_offset) \in 0..Size
  BY AvailableType DEF TypeOK, Accounting
<1>2. Pointer(write_offset) \in Slots /\ Pointer(read_offset) \in Slots
  BY OffsetTypes, Zenon DEF TypeOK
<1>3. WriteWindow \cap Committed = {}
  BY FreeIsDisjoint, Zenon DEF TypeOK, Accounting, WriteWindow, Committed
<1>4. ReadWindow \subseteq Committed
  BY <1>1, <1>2, Shorter DEF TypeOK, Accounting, ReadWindow, Committed
<1>5. CircRange(Pointer(write_offset), committing) \subseteq WriteWindow
  BY <1>2, Shorter DEF TypeOK, Accounting, WriteWindow
<1> QED
  BY <1>3, <1>4, <1>5, Zenon DEF WriteWindow, Committed, CircRange

LEMMA DpInvNext == DpInv /\ [Next]_vars => DpInv'
<1> SUFFICES ASSUME DpInv, [Next]_vars PROVE DpInv'
  BY Zenon
<1> USE SizeType DEF DpInv
<1>0. /\ WriteWindow \cap Committed = {}
      /\ ReadWindow \subseteq Committed
      /\ CircRange(Pointer(write_offset), committing) \subseteq WriteWindow
      /\ WriteWindow \subseteq Slots /\ Committed \subseteq Slots
  BY Windows, Zenon
<1>1. ASSUME NEW n \in Requests, GetBuffer(n) PROVE DpInv'
  <2>0. n \in 0..Size
    BY <1>1, AvailableType, SizesAssumption DEF GetBuffer, FreeSize, TypeOK
  <2>1. TypeOK'
    BY <1>1, <2>0, Zenon DEF GetBuffer, TypeOK, offsets, reader, data, stream
  <2>2. Accounting'
    BY <1>1, <2>0 DEF GetBuffer, TypeOK, Accounting, offsets, reader
  <2>3. WrittenBack' /\ NotStale'
    BY <1>1, Zenon DEF GetBuffer, WrittenBack, NotStale, Committed, ReadWindow,
                offsets, reader, data
  <2> QED
    BY <2>1, <2>2, <2>3, Zenon
<1>2. ASSUME Fill PROVE DpInv'
  <2>1. PICK f \in [WriteWindow -> Byte] :
           wcache' = [s \in Slots |-> IF s \in WriteWindow THEN f[s] ELSE wcache[s]]
    BY <1>2, Zenon DEF Fill
  <2>2. TypeOK'
    BY <1>2, <2>1, Zenon DEF Fill, TypeOK, offsets, writer, reader, stream
  <2>3. Accounting' /\ NotStale'
    BY <1>2, Zenon DEF Fill, Accounting, NotStale, ReadWindow, offsets, writer, reader
  <2>4. WrittenBack'
    <3>1. CircRange(Pointer(write_offset), 0) = {}
      BY OffsetTypes, Shorter DEF TypeOK
    <3>2. \A s \in Committed : wcache'[s] = wcache[s]
      BY <1>0, <2>1, Zenon
    <3> QED
      BY <1>2, <3>1, <3>2, Zenon DEF Fill, WrittenBack, Committed, offsets, writer
  <2> QED
    BY <2>2, <2>3, <2>4, Zenon
<1>3. ASSUME NEW n \in Requests, CommitWriteBack(n) PROVE DpInv'
  <2> DEFINE range == CircRange(Pointer(write_offset), committing')
  <2>1. committing' \in 1..Size /\ committing' <= requested_write_frag_size
    BY <1>3, SizesAssumption DEF CommitWriteBack, Smaller, TypeOK
  <2>2. mem' = WriteBackShared(range)
    BY <1>3, Zenon DEF CommitWriteBack
  <2>3. TypeOK'
    BY <1>3, <2>1, <2>2 DEF CommitWriteBack, WriteBackShared, TypeOK, offsets,
                            reader, stream
  <2>4. Accounting'
    BY <1>3, <2>1, Zenon DEF CommitWriteBack, Accounting, offsets, reader
  <2>5. range \subseteq Slots /\ range \subseteq Lines(range)
    BY LinesCover, Zenon DEF CircRange
  <2>6. Shared => /\ \A s \in range : mem'[s] = wcache[s]
                  /\ \A s \in Committed : mem'[s] = wcache[s]
    BY <1>0, <2>2, <2>5, Zenon DEF WriteBackShared, WrittenBack
  <2>7. WrittenBack'
    BY <1>3, <2>6, Zenon DEF CommitWriteBack, WrittenBack, Committed, offsets
  <2>8. NotStale'
    BY <1>0, <1>3, <2>6 DEF CommitWriteBack, WrittenBack, NotStale, ReadWindow,
                            offsets, reader
  <2> QED
    BY <2>3, <2>4, <2>7, <2>8, Zenon
<1>4. CASE CommitPublish
  <2>1. /\ write_offset' \in Offsets
        /\ DataAvailable(write_offset, read_offset)'
             = DataAvailable(write_offset, read_offset) + committing
        /\ Committed' = Committed \cup CircRange(Pointer(write_offset), committing)
    <3>1. committing \in 0..Size /\ committing <= FreeSize(write_offset, read_offset)
      BY AvailableType DEF TypeOK, Accounting, FreeSize
    <3>2. write_offset' = IncOffset(write_offset, committing) /\ read_offset' = read_offset
      BY <1>4, Zenon DEF CommitPublish
    <3> QED
      BY <3>1, <3>2, Publishing, OffsetTypes, Zenon DEF TypeOK, Accounting, Committed
  <2>2. TypeOK'
    BY <1>4, <2>1 DEF CommitPublish, TypeOK, reader, data, stream
  <2>3. Accounting'
    BY <1>4, <2>1, AvailableType DEF CommitPublish, TypeOK, Accounting, FreeSize, reader
  <2>4. CircRange(Pointer(write_offset), committing)' = {}
    BY <1>4, <2>1, OffsetTypes, Shorter DEF CommitPublish
  <2>5. WrittenBack' /\ NotStale'
    BY <1>4, <2>1, <2>4, Zenon DEF CommitPublish, WrittenBack, NotStale, ReadWindow, reader, data
  <2> QED
    BY <2>2, <2>3, <2>5, Zenon
<1>5. CASE CommitNothing
  <2>1. TypeOK'
    BY <1>5, Zenon DEF CommitNothing, TypeOK, offsets, reader, data, stream
  <2>2. Accounting'
    BY <1>5, AvailableType DEF CommitNothing, TypeOK, Accounting, FreeSize, offsets, reader
  <2>3. WrittenBack' /\ NotStale'
    BY <1>5, Zenon DEF CommitNothing, WrittenBack, NotStale, Committed, ReadWindow,
                offsets, reader, data
  <2> QED
    BY <2>1, <2>2, <2>3
<1>6. ASSUME NEW n \in Requests, GetDataCheck(n) PROVE DpInv'
  <2>0. n \in 0..Size
    BY <1>6, AvailableType, SizesAssumption DEF GetDataCheck, TypeOK, Accounting
  <2>1. TypeOK' /\ Accounting'
    BY <1>6, <2>0 DEF GetDataCheck, TypeOK, Accounting, offsets, writer, data, stream
  <2>2. WrittenBack' /\ NotStale'
    BY <1>6, Zenon DEF GetDataCheck, WrittenBack, NotStale, Committed, ReadWindow,
                offsets, writer, data
  <2> QED
    BY <2>1, <2>2, Zenon
<1>7. CASE GetDataInvalidate
  <2> DEFINE range == CircRange(Pointer(read_offset), fetching)
  <2>1. range \subseteq Slots /\ range \subseteq Lines(range)
    BY LinesCover, Zenon DEF CircRange
  <2>2. rcache' = InvalidateShared(range)
    BY <1>7, Zenon DEF GetDataInvalidate
  <2>3. TypeOK'
    BY <1>7, <2>2 DEF GetDataInvalidate, InvalidateShared, TypeOK, offsets, writer, stream
  <2>4. Accounting'
    BY <1>7, AvailableType DEF GetDataInvalidate, TypeOK, Accounting, offsets, writer
  <2>5. WrittenBack'
    BY <1>7, Zenon DEF GetDataInvalidate, WrittenBack, Committed, offsets, writer
  <2>6. ReadWindow' = range
    BY <1>7, Zenon DEF GetDataInvalidate, ReadWindow, offsets
  <2>7. NotStale'
    BY <2>1, <2>2, <2>6, Zenon DEF NotStale, InvalidateShared
  <2> QED
    BY <2>3, <2>4, <2>5, <2>7, Zenon
<1>8. ASSUME NEW n \in Requests \cup {0}, ReleaseData(n) PROVE DpInv'
  <2> DEFINE m == Smaller(n, requested_read_frag_size)
  <2>1. m \in 0..Size /\ m <= DataAvailable(write_offset, read_offset)
    BY <1>8, AvailableType, SizesAssumption DEF Smaller, TypeOK, Accounting
  <2>2. read_offset' = IncOffset(read_offset, m) /\ read_offset' \in Offsets
    BY <1>8, <2>1, OffsetTypes, Zenon DEF ReleaseData, TypeOK
  <2>3. /\ DataAvailable(write_offset, read_offset)'
             = DataAvailable(write_offset, read_offset) - m
        /\ Committed' \subseteq Committed
    <3> HIDE DEF m
    <3> QED
      BY <1>8, <2>1, <2>2, Releasing DEF ReleaseData, TypeOK, Accounting, Committed
  <2>4. fetching = 0
    BY <1>8, Zenon DEF ReleaseData, Accounting
  <2>5. TypeOK'
    BY <1>8, <2>2 DEF ReleaseData, TypeOK, writer, data, stream
  <2>6. Accounting'
    BY <1>8, <2>1, <2>3, <2>4, <2>5, AvailableType
       DEF ReleaseData, TypeOK, Accounting, FreeSize, writer
  <2>7. WrittenBack'
    BY <1>8, <2>3, Zenon DEF ReleaseData, WrittenBack, writer, data
  <2>8. NotStale'
    <3>1. ReadWindow' = {}
      BY <1>8, <2>2, OffsetTypes, Shorter DEF ReleaseData, ReadWindow
    <3> QED
      BY <3>1, Zenon DEF NotStale
  <2> QED
    BY <2>5, <2>6, <2>7, <2>8, Zenon
<1>9. ASSUME NEW s \in Slots, ReaderLineFill(s) \/ ReaderLineEvict(s) PROVE DpInv'
  <2>1. TypeOK'
    BY <1>9, Zenon DEF ReaderLineFill, ReaderLineEvict, TypeOK, offsets, writer, reader, stream
  <2>2. Accounting' /\ WrittenBack'
    BY <1>9, Zenon DEF ReaderLineFill, ReaderLineEvict, Accounting, WrittenBack, Committed,
                offsets, writer, reader
  <2>3. \A t \in Slots : rcache'[t] \in {NoByte, mem[t], rcache[t]}
    BY <1>9, Zenon DEF ReaderLineFill, ReaderLineEvict
  <2>4. ReadWindow' = ReadWindow /\ mem' = mem
    BY <1>9, Zenon DEF ReaderLineFill, ReaderLineEvict, ReadWindow, offsets, reader
  <2>5. NotStale'
    BY <1>0, <2>3, <2>4, Zenon DEF NotStale
  <2> QED
    BY <2>1, <2>2, <2>5, Zenon
<1>10. ASSUME NEW s \in Slots, WriterLineEvict(s) PROVE DpInv'
  <2>1. TypeOK'
    BY <1>10, Zenon DEF WriterLineEvict, TypeOK, offsets, writer, reader, stream
  <2>2. Accounting'
    BY <1>10, Zenon DEF WriterLineEvict, Accounting, offsets, writer, reader
  <2>3. \A t \in Slots : mem'[t] \in {wcache[t], mem[t]}
    BY <1>10, Zenon DEF WriterLineEvict
  <2>4. /\ Committed' = Committed /\ ReadWindow' = ReadWindow
        /\ CircRange(Pointer(write_offset), committing)'
             = CircRange(Pointer(write_offset), committing)
        /\ wcache' = wcache /\ rcache' = rcache
    BY <1>10, Zenon DEF WriterLineEvict, Committed, ReadWindow, offsets, writer, reader
  <2>5. WrittenBack'
    BY <1>0, <2>3, <2>4, Zenon DEF WrittenBack
  <2>6. NotStale'
    BY <1>0, <1>10, <2>3, <2>4, Zenon DEF NotStale, WrittenBack, WriterLineEvict
  <2> QED
    BY <2>1, <2>2, <2>5, <2>6, Zenon
<1>11. ASSUME NEW p \in Params, NEW b \in BOOLEAN, SetIpcParams(p, b) PROVE DpInv'
  <2>1. TypeOK'
    BY <1>11, Zenon DEF SetIpcParams, TypeOK, offsets, writer, reader, data
  <2>2. Accounting' /\ WrittenBack' /\ NotStale'
    BY <1>11, Zenon DEF SetIpcParams, Accounting, WrittenBack, NotStale, Committed, ReadWindow,
                 offsets, writer, reader, data
  <2> QED
    BY <2>1, <2>2, Zenon
<1>12. CASE UNCHANGED vars
  BY <1>12, Zenon DEF vars, offsets, writer, reader, data, stream, TypeOK, Accounting,
               WrittenBack, NotStale, Committed, ReadWindow
<1> QED
  BY <1>1, <1>2, <1>3, <1>4, <1>5, <1>6, <1>7, <1>8, <1>9, <1>10, <1>11, <1>12, Zenon
     DEF Next, Hardware

-----------------------------------------------------------------------------
\* The inductive invariant: accounting of the grants, committed bytes in memory,
\* no stale line in the reader's window.
THEOREM Invariance == Spec => []DpInv
BY DpInvInit, DpInvNext, PTL DEF Spec

\* Every offset and every grant of a dp_queue stays within its bounds.
THEOREM TypeCorrect == Spec => []TypeOK
BY Invariance, PTL DEF DpInv

\* The space dp_queue_get_buffer grants is exclusive to the writer, and what
\* dp_queue_get_data lends lies within the committed bytes.
THEOREM Exclusivity == Spec => []ExclusiveWindows
<1>1. DpInv => ExclusiveWindows
  BY Windows, Zenon DEF DpInv, ExclusiveWindows
<1> QED
  BY <1>1, Invariance, PTL

\* The reader sees in its window what the writer put there: the write-back of
\* dp_queue_commit_buffer and the invalidation of dp_queue_get_data suffice.
LEMMA SeesWritten ==
    ASSUME DpInv, NEW s \in ReadWindow
    PROVE  ReaderSees(s) = wcache[s]
<1>1. s \in Committed /\ s \in Slots
  BY Windows, Zenon DEF DpInv
<1>2. CASE ~Shared
  BY <1>2, Zenon DEF ReaderSees
<1>3. CASE Shared
  <2>1. mem[s] = wcache[s]
    BY <1>1, <1>3, Zenon DEF DpInv, WrittenBack
  <2>2. rcache[s] = NoByte \/ rcache[s] = mem[s]
    BY <1>3, Zenon DEF DpInv, NotStale
  <2> QED
    BY <1>3, <2>1, <2>2, Zenon DEF ReaderSees
<1> QED
  BY <1>2, <1>3, Zenon

LEMMA InvCoherent == DpInv => CoherentWindow
<1> SUFFICES ASSUME DpInv, NEW s \in ReadWindow PROVE ReaderSees(s) = wcache[s]
  BY Zenon DEF CoherentWindow
<1> QED
  BY SeesWritten, Zenon

\* Whatever lines the reader's core holds, data lent by dp_queue_get_data is the
\* data dp_queue_commit_buffer published.
THEOREM Coherence == Spec => []CoherentWindow
BY InvCoherent, Invariance, PTL

\* No step changes what the reader sees in the data it was lent.
THEOREM Stability == Spec => LentDataIsStable
<1> DEFINE Stable ==
      requested_read_frag_size > 0 /\ requested_read_frag_size' > 0
         => \A s \in ReadWindow : ReaderSees(s)' = ReaderSees(s)
<1>0. DpInv' => CoherentWindow'
  BY InvCoherent, PTL
<1>1. ASSUME DpInv, DpInv', [Next]_vars PROVE [Stable]_vars
  <2> SUFFICES ASSUME requested_read_frag_size > 0, requested_read_frag_size' > 0,
                      NEW s \in ReadWindow
               PROVE  ReaderSees(s)' = ReaderSees(s)
    BY Zenon
  <2>0. requested_read_frag_size \in 0..Size /\ fetching = 0
    BY <1>1, Zenon DEF DpInv, TypeOK, Accounting
  <2>1. read_offset' = read_offset
        /\ requested_read_frag_size' = requested_read_frag_size
    <3>1. ~GetDataInvalidate /\ \A n \in Requests \cup {0} : ~ReleaseData(n)
      BY <2>0 DEF GetDataInvalidate, ReleaseData
    <3>2. ~(\E n \in Requests : GetDataCheck(n))
      BY DEF GetDataCheck
    <3>3. CASE Fill
      BY <3>3, Zenon DEF Fill, offsets, reader
    <3>4. CASE UNCHANGED vars
      BY <3>4, Zenon DEF vars, offsets, reader
    <3>5. CASE \E n \in Requests : GetBuffer(n) \/ CommitWriteBack(n)
      BY <3>5, Zenon DEF GetBuffer, CommitWriteBack, offsets, reader
    <3>6. CASE CommitPublish \/ CommitNothing
      BY <3>6, Zenon DEF CommitPublish, CommitNothing, offsets, reader
    <3>7. CASE Hardware
      BY <3>7, Zenon DEF Hardware, ReaderLineFill, ReaderLineEvict, WriterLineEvict, offsets, reader
    <3>8. CASE \E p \in Params, b \in BOOLEAN : SetIpcParams(p, b)
      BY <3>8, Zenon DEF SetIpcParams, offsets, reader
    <3> QED
      BY <1>1, <3>1, <3>2, <3>3, <3>4, <3>5, <3>6, <3>7, <3>8, Zenon DEF Next
  <2>2. s \in ReadWindow'
    BY <2>1, Zenon DEF ReadWindow
  <2>3. s \in Slots /\ s \notin WriteWindow
    <3>1. WriteWindow \cap Committed = {} /\ ReadWindow \subseteq Committed
      BY <1>1, Windows, Zenon DEF DpInv
    <3> QED
      BY <3>1, Zenon DEF ReadWindow, CircRange
  <2>4. wcache'[s] = wcache[s]
    <3>1. CASE Fill
      <4>1. PICK f \in [WriteWindow -> Byte] :
               wcache' = [t \in Slots |-> IF t \in WriteWindow THEN f[t] ELSE wcache[t]]
        BY <3>1, Zenon DEF Fill
      <4> QED
        BY <2>3, <4>1, Zenon
    <3>2. CASE ~Fill
      BY <1>1, <3>2, Zenon DEF Next, Hardware, GetBuffer, CommitWriteBack, CommitPublish,
         CommitNothing, GetDataCheck, GetDataInvalidate, ReleaseData, ReaderLineFill,
         ReaderLineEvict, WriterLineEvict, SetIpcParams, vars, data
    <3> QED
      BY <3>1, <3>2, Zenon
  <2>5. ReaderSees(s) = wcache[s]
    BY <1>1, SeesWritten, Zenon
  <2>6. ReaderSees(s)' = wcache'[s]
    BY <1>0, <1>1, <2>2, Zenon DEF CoherentWindow
  <2> QED
    BY <2>4, <2>5, <2>6, Zenon
<1>2. Spec => [][Next]_vars
  BY PTL DEF Spec
<1> QED
  BY <1>1, <1>2, Invariance, PTL DEF LentDataIsStable

-----------------------------------------------------------------------------
(* The queue is a FIFO of bytes.                                           *)

\* The i-th byte of a window lies in its range.
LEMMA SlotInRange ==
    ASSUME NEW r \in Offsets, NEW n \in 0..Size, NEW i \in 1..n
    PROVE  Pointer(IncOffset(r, i - 1)) \in CircRange(Pointer(r), n)
BY SizeType DEF Offsets, Slots, Pointer, IncOffset, CircRange

\* The i-th byte after m bytes is the (m + i)-th.
LEMMA SlotAfter ==
    ASSUME NEW r \in Offsets, NEW m \in 0..Size, NEW i \in 1..Size
    PROVE  Pointer(IncOffset(IncOffset(r, m), i - 1)) = Pointer(IncOffset(r, m + i - 1))
BY SizeType DEF Offsets, Pointer, IncOffset

\* The writer's offset follows the last byte.
LEMMA WriteFollows ==
    ASSUME NEW w \in Offsets, NEW r \in Offsets
    PROVE  w = IncOffset(r, DataAvailable(w, r))
BY SizeType DEF Offsets, IncOffset, DataAvailable

\* The n bytes the writer has put from offset r on.
Bytes(r, n) == [i \in 1..n |-> wcache[Pointer(IncOffset(r, i - 1))]]

LEMMA BytesType ==
    ASSUME wcache \in [Slots -> Byte], NEW r \in Offsets, NEW n \in 0..Size
    PROVE  /\ Bytes(r, n) \in [1..n -> Byte] /\ Bytes(r, n) \in Seq(Byte)
           /\ Len(Bytes(r, n)) = n
           /\ \A i \in 1..n : Bytes(r, n)[i] = wcache[Pointer(IncOffset(r, i - 1))]
<1>1. \A i \in 1..n : Pointer(IncOffset(r, i - 1)) \in Slots
  BY SlotInRange, Zenon DEF CircRange
<1>2. Bytes(r, n) \in [1..n -> Byte]
  BY <1>1, Zenon DEF Bytes
<1>3. n \in Nat
  BY SizeType
<1> QED
  BY <1>2, <1>3 DEF Bytes

\* Sequences are compared byte by byte.
LEMMA IsJoined ==
    ASSUME NEW s \in Seq(Byte), NEW t \in Seq(Byte), NEW u \in Seq(Byte), Len(u) = Len(s) + Len(t),
           \A i \in 1..Len(s) : u[i] = s[i], \A i \in 1..Len(t) : u[Len(s) + i] = t[i]
    PROVE  u = s \o t
<1>1. s \o t \in Seq(Byte) /\ Len(s \o t) = Len(u)
  OBVIOUS
<1>2. ASSUME NEW i \in 1..Len(u) PROVE u[i] = (s \o t)[i]
  <2>1. CASE i <= Len(s)
    BY <2>1
  <2>2. CASE i > Len(s)
    <3>1. i - Len(s) \in 1..Len(t) /\ i = Len(s) + (i - Len(s))
      BY <2>2
    <3> QED
      BY <2>2, <3>1
  <2> QED
    BY <2>1, <2>2
<1> QED
  BY <1>1, <1>2

LEMMA IsPart ==
    ASSUME NEW s \in Seq(Byte), NEW u \in Seq(Byte), NEW m \in 0..Len(s), NEW n \in m..Len(s),
           Len(u) = n - m, \A i \in 1..Len(u) : u[i] = s[m + i]
    PROVE  u = SubSeq(s, m + 1, n)
OBVIOUS

\* On committed bytes the writer's cache, memory and the reader's view agree.
Shown ==
    /\ DataAvailable(write_offset, read_offset) \in 0..Size
    /\ Queued = Bytes(read_offset, DataAvailable(write_offset, read_offset))
    /\ Lent = Bytes(read_offset, requested_read_frag_size)

LEMMA Contents == DpInv => Shown
<1> SUFFICES ASSUME DpInv PROVE Shown
  OBVIOUS
<1>1. DataAvailable(write_offset, read_offset) \in 0..Size
  BY AvailableType, SizeType DEF DpInv, TypeOK, Accounting
<1>2. Queued = Bytes(read_offset, DataAvailable(write_offset, read_offset))
  <2>1. ASSUME NEW i \in 1..DataAvailable(write_offset, read_offset)
        PROVE  InQueue(Slot(i)) = wcache[Pointer(IncOffset(read_offset, i - 1))]
    <3>1. Slot(i) \in Committed
      BY <1>1, SlotInRange, Zenon DEF Slot, Committed, DpInv, TypeOK
    <3> QED
      BY <3>1, Zenon DEF InQueue, DpInv, WrittenBack, Slot
  <2> QED
    BY <2>1, Zenon DEF Queued, Bytes
<1>3. Lent = Bytes(read_offset, requested_read_frag_size)
  <2>1. ASSUME NEW i \in 1..requested_read_frag_size
        PROVE  ReaderSees(Slot(i)) = wcache[Pointer(IncOffset(read_offset, i - 1))]
    <3>1. Slot(i) \in ReadWindow
      BY SlotInRange, Zenon DEF Slot, ReadWindow, DpInv, TypeOK
    <3> QED
      BY <3>1, SeesWritten, Zenon DEF Slot
  <2> QED
    BY <2>1, Zenon DEF Lent, Bytes
<1> QED
  BY <1>1, <1>2, <1>3, Zenon DEF Shown

LEMMA ContentsAfter == DpInv' => Shown'
BY Contents, PTL

LEMMA FifoInit == Init => Fifo!Init
<1> SUFFICES ASSUME Init PROVE Fifo!Init
  OBVIOUS
<1>1. DataAvailable(write_offset, read_offset) = 0 /\ requested_read_frag_size = 0
  BY SizeType DEF Init, DataAvailable
<1> QED
  BY <1>1 DEF Fifo!Init, Queued, Lent


\* A step that moves no offset, lends nothing and leaves committed bytes alone.
LEMMA FifoStutter ==
    ASSUME DpInv, DpInv', UNCHANGED <<offsets, requested_read_frag_size>>,
           \A s \in Committed : wcache'[s] = wcache[s]
    PROVE  UNCHANGED <<Queued, Lent>>
<1> DEFINE avail == DataAvailable(write_offset, read_offset)
<1>1. /\ Queued = Bytes(read_offset, avail) /\ Lent = Bytes(read_offset, requested_read_frag_size)
      /\ avail \in 0..Size
  BY Contents, Zenon DEF Shown
<1>2. /\ Queued' = Bytes(read_offset, avail)' /\ Lent' = Bytes(read_offset, requested_read_frag_size)'
  BY ContentsAfter, Zenon DEF Shown
<1>3. avail' = avail /\ read_offset' = read_offset /\ requested_read_frag_size' = requested_read_frag_size
  BY Zenon DEF offsets
<1>4. read_offset \in Offsets /\ requested_read_frag_size \in 0..avail
  BY DEF DpInv, TypeOK, Accounting
<1> HIDE DEF avail
<1>5. ASSUME NEW i \in 1..avail
      PROVE  wcache'[Pointer(IncOffset(read_offset, i - 1))] = wcache[Pointer(IncOffset(read_offset, i - 1))]
  BY <1>1, <1>4, SlotInRange, Zenon DEF Committed, avail
<1>6. \A i \in 1..requested_read_frag_size : i \in 1..avail
  BY <1>1, <1>4, SizeType
<1> QED
  BY <1>1, <1>2, <1>3, <1>5, <1>6, Zenon DEF Bytes

\* CommitPublish appends what the writer has put into its window.
LEMMA FifoCommit ==
    ASSUME DpInv, DpInv', CommitPublish
    PROVE  committing \in 0..Size /\ Fifo!Commit(committing)
<1> DEFINE avail == DataAvailable(write_offset, read_offset)
           new == Bytes(write_offset, committing)
<1>1. /\ wcache \in [Slots -> Byte] /\ write_offset \in Offsets /\ read_offset \in Offsets
      /\ committing \in 0..Size /\ requested_read_frag_size \in 0..Size
      /\ avail <= Size /\ committing <= FreeSize(write_offset, read_offset)
  BY AvailableType, SizeType DEF DpInv, TypeOK, Accounting, FreeSize
<1>2. /\ write_offset' = IncOffset(write_offset, committing)
      /\ UNCHANGED <<read_offset, requested_read_frag_size, wcache>>
  BY Zenon DEF CommitPublish, reader, data
<1>3. avail \in 0..Size /\ Queued = Bytes(read_offset, avail) /\ Lent = Bytes(read_offset, requested_read_frag_size)
  BY Contents, Zenon DEF Shown
<1>4. avail' \in 0..Size /\ Queued' = Bytes(read_offset, avail)' /\ Lent' = Bytes(read_offset, requested_read_frag_size)'
  BY ContentsAfter, Zenon DEF Shown
<1>5. avail' = avail + committing
  BY <1>1, <1>2, Publishing, Zenon
<1>6. write_offset = IncOffset(read_offset, avail)
  BY <1>1, WriteFollows, Zenon
<1> HIDE DEF avail
<1>7. Lent' = Lent
  BY <1>2, <1>3, <1>4, Zenon DEF Bytes
<1>8. Queued' = Bytes(read_offset, avail + committing)
  BY <1>2, <1>4, <1>5, Zenon DEF Bytes
<1>9. /\ Queued \in Seq(Byte) /\ Len(Queued) = avail
      /\ \A i \in 1..avail : Queued[i] = wcache[Pointer(IncOffset(read_offset, i - 1))]
  BY <1>1, <1>3, BytesType, Zenon
<1>10. /\ new \in [1..committing -> Byte] /\ new \in Seq(Byte) /\ Len(new) = committing
       /\ \A i \in 1..committing : new[i] = wcache[Pointer(IncOffset(write_offset, i - 1))]
  BY <1>1, BytesType, Zenon
<1>11. /\ Queued' \in Seq(Byte) /\ Len(Queued') = avail + committing
       /\ \A i \in 1..avail + committing : Queued'[i] = wcache[Pointer(IncOffset(read_offset, i - 1))]
  BY <1>1, <1>4, <1>5, <1>8, BytesType
<1> HIDE DEF new
<1>12. \A i \in 1..avail : Queued'[i] = Queued[i]
  BY <1>1, <1>3, <1>9, <1>11, SMTT(20)
<1>13. ASSUME NEW i \in 1..committing PROVE Queued'[avail + i] = new[i]
  <2>1. i \in 1..Size /\ avail + i \in 1..avail + committing
    BY <1>1, <1>3, SizeType
  <2>2. Pointer(IncOffset(write_offset, i - 1)) = Pointer(IncOffset(read_offset, avail + i - 1))
    BY <1>1, <1>3, <1>6, <2>1, SlotAfter, Zenon
  <2>3. Queued'[avail + i] = wcache[Pointer(IncOffset(read_offset, avail + i - 1))]
    BY <1>1, <1>3, <1>11, <2>1, SizeType
  <2> QED
    BY <1>10, <2>2, <2>3, Zenon
<1>14. Queued' = Queued \o new
  BY <1>9, <1>10, <1>11, <1>12, <1>13, IsJoined, Zenon
<1>15. Len(Queued) + committing <= Size
  BY <1>3, <1>4, <1>5, <1>9, SizeType
<1> QED
  BY <1>1, <1>7, <1>10, <1>14, <1>15, Zenon DEF Fifo!Commit

\* GetDataInvalidate lends the oldest bytes.
LEMMA FifoLend ==
    ASSUME DpInv, DpInv', GetDataInvalidate
    PROVE  fetching \in 0..Size /\ Fifo!Lend(fetching)
<1> DEFINE avail == DataAvailable(write_offset, read_offset)
<1>1. /\ wcache \in [Slots -> Byte] /\ read_offset \in Offsets /\ fetching \in 0..Size /\ fetching <= avail
      /\ requested_read_frag_size = 0
  BY DEF DpInv, TypeOK, Accounting, GetDataInvalidate
<1>2. UNCHANGED <<offsets, wcache>> /\ requested_read_frag_size' = fetching
  BY Zenon DEF GetDataInvalidate
<1>3. avail \in 0..Size /\ Queued = Bytes(read_offset, avail) /\ Lent = Bytes(read_offset, requested_read_frag_size)
  BY Contents DEF Shown
<1>4. Queued' = Bytes(read_offset, avail)' /\ Lent' = Bytes(read_offset, requested_read_frag_size)'
  BY ContentsAfter, Zenon DEF Shown
<1>5. Queued' = Queued /\ Lent' = Bytes(read_offset, fetching)
  BY <1>2, <1>3, <1>4, Zenon DEF Bytes, offsets
<1> HIDE DEF avail
<1>6. /\ Queued \in Seq(Byte) /\ Len(Queued) = avail
      /\ \A i \in 1..avail : Queued[i] = wcache[Pointer(IncOffset(read_offset, i - 1))]
  BY <1>1, <1>3, BytesType, Zenon
<1>7. /\ Lent' \in Seq(Byte) /\ Len(Lent') = fetching
      /\ \A i \in 1..fetching : Lent'[i] = wcache[Pointer(IncOffset(read_offset, i - 1))]
  BY <1>1, <1>5, BytesType, Zenon
<1>8. Lent' = SubSeq(Queued, 1, fetching)
  <2>1. \A i \in 1..fetching : Lent'[i] = Queued[0 + i]
    BY <1>1, <1>3, <1>6, <1>7
  <2> QED
    BY <1>1, <1>3, <1>6, <1>7, <2>1, IsPart, SMTT(20)
<1>9. Lent = <<>>
  BY <1>1, <1>3 DEF Bytes
<1> QED
  BY <1>1, <1>3, <1>5, <1>6, <1>8, <1>9, Zenon DEF Fifo!Lend

\* ReleaseData takes the bytes it consumes off the head.
LEMMA FifoGiveBack ==
    ASSUME DpInv, DpInv', NEW n \in Nat, ReleaseData(n)
    PROVE  \E m \in 0..Size : Fifo!GiveBack(m)
<1> DEFINE avail == DataAvailable(write_offset, read_offset)
           m == Smaller(n, requested_read_frag_size)
<1>1. /\ wcache \in [Slots -> Byte] /\ read_offset \in Offsets /\ write_offset \in Offsets
      /\ requested_read_frag_size \in 1..Size /\ requested_read_frag_size <= avail
  BY SizeType DEF DpInv, TypeOK, Accounting, ReleaseData
<1>2. /\ read_offset' = IncOffset(read_offset, m) /\ requested_read_frag_size' = 0
      /\ UNCHANGED <<write_offset, wcache>>
  BY Zenon DEF ReleaseData, data
<1>3. avail \in 0..Size /\ Queued = Bytes(read_offset, avail) /\ Lent = Bytes(read_offset, requested_read_frag_size)
  BY Contents, Zenon DEF Shown
<1>4. avail' \in 0..Size /\ Queued' = Bytes(read_offset, avail)' /\ Lent' = Bytes(read_offset, requested_read_frag_size)'
  BY ContentsAfter, Zenon DEF Shown
<1>5. m \in 0..Size /\ m <= requested_read_frag_size /\ m <= avail
  BY <1>1, <1>3, SizeType DEF Smaller
<1> HIDE DEF m
<1>6. avail' = avail - m
  BY <1>1, <1>2, <1>3, <1>5, Releasing
<1> HIDE DEF avail
<1>7. Queued' = Bytes(IncOffset(read_offset, m), avail - m)
  BY <1>2, <1>4, <1>6, Zenon DEF Bytes
<1>8. Lent' = <<>>
  BY <1>2, <1>4 DEF Bytes
<1>9. /\ Queued \in Seq(Byte) /\ Len(Queued) = avail
      /\ \A i \in 1..avail : Queued[i] = wcache[Pointer(IncOffset(read_offset, i - 1))]
  BY <1>1, <1>3, BytesType, Zenon
<1>10. Lent \in Seq(Byte) /\ Len(Lent) = requested_read_frag_size
  BY <1>1, <1>3, BytesType
<1>11. /\ Queued' \in Seq(Byte) /\ Len(Queued') = avail - m
       /\ \A i \in 1..avail - m :
             Queued'[i] = wcache[Pointer(IncOffset(IncOffset(read_offset, m), i - 1))]
  <2>1. IncOffset(read_offset, m) \in Offsets /\ avail - m \in 0..Size
    BY <1>1, <1>4, <1>5, <1>6, OffsetTypes, Zenon
  <2> QED
    BY <1>1, <1>7, <2>1, BytesType, Zenon
<1>12. ASSUME NEW i \in 1..Len(Queued') PROVE Queued'[i] = Queued[m + i]
  <2>1. i \in 1..avail - m /\ i \in 1..Size /\ m + i \in 1..avail
    BY <1>3, <1>5, <1>11, SizeType
  <2>2. Pointer(IncOffset(IncOffset(read_offset, m), i - 1)) = Pointer(IncOffset(read_offset, m + i - 1))
    BY <1>1, <1>5, <2>1, SlotAfter, Zenon
  <2>3. Queued[m + i] = wcache[Pointer(IncOffset(read_offset, m + i - 1))]
    BY <1>3, <1>5, <1>9, <2>1, SizeType
  <2> QED
    BY <1>11, <2>1, <2>2, <2>3, Zenon
<1>13. Queued' = SubSeq(Queued, m + 1, Len(Queued))
  <2>1. m \in 0..Len(Queued) /\ Len(Queued) \in m..Len(Queued)
    BY <1>3, <1>5, <1>9, SizeType
  <2> QED
    BY <1>9, <1>11, <1>12, <2>1, IsPart
<1>14. Lent # <<>> /\ m <= Len(Lent)
  BY <1>1, <1>5, <1>10
<1> QED
  BY <1>5, <1>8, <1>13, <1>14, Zenon DEF Fifo!GiveBack

LEMMA FifoStep ==
    ASSUME DpInv, DpInv', [Next]_vars
    PROVE  [Fifo!Next]_<<Queued, Lent>>
<1>0. WriteWindow \cap Committed = {} /\ Committed \subseteq Slots
  BY Windows, Zenon DEF DpInv
<1>1. CASE Fill
  <2>1. PICK f \in [WriteWindow -> Byte] :
           wcache' = [s \in Slots |-> IF s \in WriteWindow THEN f[s] ELSE wcache[s]]
    BY <1>1, Zenon DEF Fill
  <2>2. \A s \in Committed : wcache'[s] = wcache[s]
    BY <1>0, <2>1, Zenon
  <2> QED
    BY <1>1, <2>2, FifoStutter, Zenon DEF Fill, reader
<1>2. CASE CommitPublish
  BY <1>2, FifoCommit, Zenon DEF Fifo!Next
<1>3. CASE GetDataInvalidate
  BY <1>3, FifoLend, Zenon DEF Fifo!Next
<1>4. ASSUME NEW n \in Requests \cup {0}, ReleaseData(n) PROVE [Fifo!Next]_<<Queued, Lent>>
  <2>1. n \in Nat
    BY SizesAssumption
  <2> QED
    BY <1>4, <2>1, FifoGiveBack, Zenon DEF Fifo!Next
<1>5. ASSUME NEW n \in Requests, GetBuffer(n) \/ CommitWriteBack(n) \/ GetDataCheck(n)
      PROVE  [Fifo!Next]_<<Queued, Lent>>
  BY <1>5, FifoStutter, Zenon DEF GetBuffer, CommitWriteBack, GetDataCheck, reader, data
<1>6. CASE CommitNothing
  BY <1>6, FifoStutter, Zenon DEF CommitNothing, reader, data
<1>7. CASE Hardware
  BY <1>7, FifoStutter, Zenon DEF Hardware, ReaderLineFill, ReaderLineEvict, WriterLineEvict, reader
<1>8. ASSUME NEW p \in Params, NEW b \in BOOLEAN, SetIpcParams(p, b)
      PROVE  [Fifo!Next]_<<Queued, Lent>>
  BY <1>8, FifoStutter, Zenon DEF SetIpcParams, reader, data
<1>9. CASE UNCHANGED vars
  BY <1>9, FifoStutter, Zenon DEF vars, reader, data
<1> QED
  BY <1>1, <1>2, <1>3, <1>4, <1>5, <1>6, <1>7, <1>8, <1>9, Zenon DEF Next

\* dp_queue implements a FIFO of data_buffer_size bytes: across the wrap of the
\* double area, partial commits and releases and whatever the two caches do,
\* no byte is lost, duplicated, reordered or invented.
THEOREM Refinement == Spec => ImplementsFifo
<1>1. DpInv /\ DpInv' /\ [Next]_vars => [Fifo!Next]_<<Queued, Lent>>
  BY FifoStep, Zenon
<1> QED
  BY <1>1, FifoInit, Invariance, PTL DEF Spec, ImplementsFifo, Fifo!Spec
=============================================================================
