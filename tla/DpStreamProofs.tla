---------------------------- MODULE DpStreamProofs ----------------------------
(* Theorems about DpStream, for all block sizes.                           *)
EXTENDS DpStream, TLAPS

\* The smallest of two numbers is one of them and below both.
LEMMA MinOfTwo ==
    ASSUME NEW x \in Int, NEW y \in Int
    PROVE  Min({x, y}) \in {x, y} /\ Min({x, y}) <= x /\ Min({x, y}) <= y
<1>1. \E m \in {x, y} : \A z \in {x, y} : m <= z
  <2>1. CASE x <= y
    BY <2>1
  <2>2. CASE y <= x
    BY <2>2
  <2> QED BY <2>1, <2>2
<1>2. Min({x, y}) \in {x, y} /\ \A z \in {x, y} : Min({x, y}) <= z
  BY <1>1, Zenon DEF Min
<1> QED BY <1>2, Zenon

\* The same for three.
LEMMA MinOfThree ==
    ASSUME NEW x \in Int, NEW y \in Int, NEW z \in Int
    PROVE  /\ Min({x, y, z}) \in {x, y, z}
           /\ Min({x, y, z}) <= x /\ Min({x, y, z}) <= y /\ Min({x, y, z}) <= z
<1>1. \E m \in {x, y, z} : \A u \in {x, y, z} : m <= u
  <2>1. CASE x <= y /\ x <= z
    BY <2>1
  <2>2. CASE y <= x /\ y <= z
    BY <2>2
  <2>3. CASE z <= x /\ z <= y
    BY <2>3
  <2> QED BY <2>1, <2>2, <2>3
<1>2. Min({x, y, z}) \in {x, y, z} /\ \A u \in {x, y, z} : Min({x, y, z}) <= u
  BY <1>1, Zenon DEF Min
<1> QED BY <1>2, Zenon

\* The buffers have room for something.
LEMMA Sizes ==
    /\ ChunkIn \in Nat \ {0} /\ ChunkOut \in Nat \ {0} /\ Block \in Nat \ {0}
    /\ SizeOfA \in Nat \ {0} /\ SizeOfB \in Nat \ {0}
    /\ SizeOfA = 2 * ChunkIn /\ SizeOfB = 2 * ChunkOut
    /\ SizeOfIn \in Nat \ {0}
    /\ SampleMod \in Nat \ {0}
<1>1. ChunkIn \in Nat \ {0} /\ ChunkOut \in Nat \ {0} /\ Block \in Nat \ {0}
  BY ChunkAssumption, Zenon
<1>2. SizeOfA = 2 * ChunkIn /\ SizeOfB = 2 * ChunkOut
  BY Zenon DEF SizeOfA, SizeOfB
<1>m. ASSUME NEW x \in Nat \ {0}, NEW y \in Nat \ {0}
      PROVE  Max({x, y}) \in Nat \ {0}
  <2>1. \E m \in {x, y} : \A z \in {x, y} : m >= z
    <3>1. CASE x >= y
      BY <3>1
    <3>2. CASE y >= x
      BY <3>2
    <3> QED BY <3>1, <3>2
  <2> QED BY <2>1, Zenon DEF Max
<1>3. SizeOfIn \in Nat \ {0} /\ SizeOfOut \in Nat \ {0}
  <2>1. Max({ChunkIn, Block}) \in Nat \ {0} /\ Max({Block, ChunkOut}) \in Nat \ {0}
    BY <1>1, <1>m, Zenon
  <2>2. SizeOfIn = 2 * Max({ChunkIn, Block}) /\ SizeOfOut = 2 * Max({Block, ChunkOut})
    BY Zenon DEF SizeOfIn, SizeOfOut
  <2> QED BY <2>1, <2>2
<1>4. SampleMod \in Nat \ {0}
  BY <1>1, <1>2, <1>3, ModAssumption
<1> QED BY <1>1, <1>2, <1>3, <1>4

\* audio_stream_produce keeps a stream well formed when the units fit.
LEMMA ProduceType ==
    ASSUME NEW size \in Nat \ {0}, NEW s, StreamType(s, size),
           NEW units \in Seq(Int), Len(units) <= size
    PROVE  StreamType(Produce(s, size, units), size)
<1> DEFINE w == Wrap(size, s.w + Len(units))
           r == IF Len(units) > Free(s, size) THEN w ELSE s.r
           Written(i) == (i - s.w) % size < Len(units)
           data == [i \in 0..size - 1 |->
                      IF Written(i) THEN units[((i - s.w) % size) + 1] ELSE s.data[i]]
           avail == IF r = w THEN size ELSE IF r < w THEN w - r ELSE size - (r - w)
<1>1. Len(units) \in Nat /\ s.w \in 0..size - 1 /\ s.r \in 0..size - 1
  BY DEF StreamType
<1>2. w \in 0..size - 1
  BY <1>1 DEF Wrap
<1>3. r \in 0..size - 1
  BY <1>1, <1>2, Zenon
<1>4. avail \in 0..size
  <2> HIDE DEF w, r
  <2> QED BY <1>2, <1>3
<1>5. data \in [0..size - 1 -> Int]
  <2>1. ASSUME NEW i \in 0..size - 1
        PROVE  (IF Written(i) THEN units[((i - s.w) % size) + 1] ELSE s.data[i]) \in Int
    <3>1. CASE Written(i)
      <4>1. (i - s.w) % size \in 0..size - 1
        BY <1>1, SMTT(20)
      <4>2. ((i - s.w) % size) + 1 \in 1..Len(units)
        BY <3>1, <4>1, <1>1, SMTT(30)
      <4> QED BY <3>1, <4>2
    <3>2. CASE ~Written(i)
      BY <3>2, Zenon DEF StreamType
    <3> QED BY <3>1, <3>2, Zenon
  <2> QED BY <2>1, Zenon
<1>6. Produce(s, size, units) = [data |-> data, r |-> r, w |-> w, avail |-> avail]
  BY Zenon DEF Produce
<1> HIDE DEF data, r, w, avail
<1> QED BY <1>2, <1>3, <1>4, <1>5, <1>6 DEF StreamType

\* audio_stream_consume keeps it well formed when there is as much to consume.
LEMMA ConsumeType ==
    ASSUME NEW size \in Nat \ {0}, NEW s, StreamType(s, size),
           NEW n \in Nat, n <= size
    PROVE  StreamType(Consume(s, size, n), size)
<1> DEFINE r == Wrap(size, s.r + n)
           avail == IF r = s.w THEN 0 ELSE IF r < s.w THEN s.w - r ELSE size - (r - s.w)
<1>1. s.w \in 0..size - 1 /\ s.r \in 0..size - 1
  BY Zenon DEF StreamType
<1>2. r \in 0..size - 1
  BY <1>1 DEF Wrap
<1>3. avail \in 0..size
  <2> HIDE DEF r
  <2> QED BY <1>1, <1>2
<1>4. Consume(s, size, n) = [data |-> s.data, r |-> r, w |-> s.w, avail |-> avail]
  BY Zenon DEF Consume
<1> HIDE DEF r, avail
<1> QED BY <1>1, <1>2, <1>3, <1>4 DEF StreamType

\* Two sequences in a row.
LEMMA JoinLength ==
    ASSUME NEW s \in Seq(Int), NEW t \in Seq(Int)
    PROVE  s \o t \in Seq(Int) /\ Len(s \o t) = Len(s) + Len(t)
OBVIOUS

\* What is copied out of a stream are its units.
LEMMA OldestType ==
    ASSUME NEW size \in Nat \ {0}, NEW s, StreamType(s, size), NEW n \in Nat, n <= size
    PROVE  Oldest(s, size, n) \in Seq(Int) /\ Len(Oldest(s, size, n)) = n
<1>1. ASSUME NEW i \in 1..n
      PROVE  s.data[Wrap(size, s.r + i - 1)] \in Int
  <2>1. Wrap(size, s.r + i - 1) \in 0..size - 1
    BY SMTT(30) DEF Wrap, StreamType
  <2> QED BY <2>1, SMTT(30) DEF StreamType
<1> QED BY <1>1 DEF Oldest

\* Both streams start empty and nothing is under way.
LEMMA SyncInit == Init => SyncInv
<1> SUFFICES ASSUME Init PROVE SyncInv
  BY Zenon
<1>1. ASSUME NEW size \in Nat \ {0} PROVE StreamType(Reset(size), size)
  BY DEF Reset, StreamType
<1>2. StreamType(a, SizeOfA) /\ StreamType(b, SizeOfB)
  BY <1>1, Sizes, Zenon DEF Init
<1>3. TypeOK
  BY <1>2, Sizes DEF Init, TypeOK
<1>4. ~failed
  BY Zenon DEF Init
<1> QED BY <1>3, <1>4, Zenon DEF Init, SyncInv

\* No step of either thread spoils what the LL thread has read.
LEMMA SyncStep == SyncInv /\ [Next]_vars => SyncInv'
<1> SUFFICES ASSUME SyncInv, [Next]_vars PROVE SyncInv'
  BY Zenon
<1>t. TypeOK
  BY Zenon DEF SyncInv
<1>a. StreamType(a, SizeOfA) /\ a.avail \in Nat /\ a.avail <= SizeOfA
  <2>1. StreamType(a, SizeOfA)
    BY <1>t, Zenon DEF TypeOK
  <2> QED BY <2>1, Sizes DEF StreamType
<1>b. StreamType(b, SizeOfB) /\ b.avail \in Nat /\ b.avail <= SizeOfB
  <2>1. StreamType(b, SizeOfB)
    BY <1>t, Zenon DEF TypeOK
  <2> QED BY <2>1, Sizes DEF StreamType
<1>q. /\ inq \in Seq(Int) /\ Len(inq) \in Nat /\ Len(inq) <= SizeOfIn
      /\ outq \in Seq(Int) /\ Len(outq) \in Nat
      /\ block \in Seq(Int) /\ Len(block) \in Nat
      /\ to_copy \in Nat /\ sent \in Nat
  BY <1>t DEF TypeOK
<1>1. CASE LL1
  <2>1. ASSUME Free(a, SizeOfA) >= ChunkIn,
               a' = Produce(a, SizeOfA, [i \in 1..ChunkIn |-> (sent + i - 1) % SampleMod]),
               sent' = (sent + ChunkIn) % SampleMod
        PROVE  StreamType(a', SizeOfA) /\ sent' \in Nat
    <3> DEFINE units == [i \in 1..ChunkIn |-> (sent + i - 1) % SampleMod]
    <3>2. units \in Seq(Int) /\ Len(units) = ChunkIn
      <4>1. \A i \in 1..ChunkIn : (sent + i - 1) % SampleMod \in Int
        BY <1>q, Sizes
      <4> QED BY <4>1, Sizes
    <3>3. ChunkIn <= SizeOfA
      BY Sizes
    <3> HIDE DEF units
    <3>4. StreamType(Produce(a, SizeOfA, units), SizeOfA)
      BY <1>a, <3>2, <3>3, Sizes, ProduceType, Zenon
    <3>5. (sent + ChunkIn) % SampleMod \in Nat
      BY <1>q, Sizes
    <3> QED BY <2>1, <3>4, <3>5, Zenon DEF units
  <2>2. StreamType(a', SizeOfA) /\ sent' \in Nat
    BY <1>1, <1>a, <1>q, <2>1, Zenon DEF LL1
  <2>5. ll' = "read_in" /\ UNCHANGED <<b, task, block, inq, outq, to_copy>>
    BY <1>1, Zenon DEF LL1, dp, queues
  <2>3. TypeOK'
    BY <1>t, <2>2, <2>5, Zenon DEF TypeOK
  <2>4. ~failed'
    BY <1>1, Zenon DEF LL1, SyncInv
  <2> QED BY <2>3, <2>4, <2>5, Zenon DEF SyncInv
<1>2. CASE ReadIn
  <2> DEFINE space == SizeOfIn - Len(inq)
  <2>1. space \in Nat
    BY <1>q, Sizes
  <2>0. to_copy' = Min({a.avail, space})
    BY <1>2, Zenon DEF ReadIn
  <2> HIDE DEF space
  <2>6. to_copy' \in {a.avail, space} /\ to_copy' <= a.avail /\ to_copy' <= space
    BY <2>0, <2>1, <1>a, MinOfTwo
  <2>7. to_copy' \in Nat
    BY <2>6, <2>1, <1>a, Zenon
  <2>2. to_copy' \in Nat /\ to_copy' <= a.avail /\ to_copy' <= SizeOfIn - Len(inq)
    BY <2>6, <2>7, Zenon DEF space
  <2>3. UNCHANGED <<streams, queues, dp, sent>> /\ ll' = "copy_in"
    BY <1>2, Zenon DEF ReadIn, past
  <2>4. TypeOK'
    BY <1>t, <2>2, <2>3, Zenon DEF TypeOK, streams, queues, dp
  <2>5. ~failed'
    BY <1>2, Zenon DEF ReadIn, past, SyncInv
  <2> QED BY <2>2, <2>3, <2>4, <2>5, Zenon DEF SyncInv, streams, queues, dp
<1>3. CASE CopyIn
  <2>1. ~(to_copy > a.avail \/ to_copy > SizeOfIn - Len(inq))
    <3>1. to_copy <= a.avail /\ to_copy <= SizeOfIn - Len(inq)
      BY <1>3, Zenon DEF CopyIn, SyncInv
    <3> QED BY <3>1, <1>a, <1>q, Sizes
  <2>2. /\ inq' = inq \o Oldest(a, SizeOfA, to_copy)
        /\ a' = IF to_copy = 0 THEN a ELSE Consume(a, SizeOfA, to_copy)
        /\ failed' = failed
        /\ ll' = IF dp_startup_delay THEN "LL2" ELSE "read_out"
        /\ to_copy' = 0
        /\ UNCHANGED <<b, outq, dp, sent>>
    BY <1>3, <2>1, Zenon DEF CopyIn
  <2>3. to_copy <= SizeOfA
    BY <1>a, <1>q, <2>1, Sizes
  <2>4. StreamType(a', SizeOfA)
    BY <1>a, <1>q, <2>2, <2>3, Sizes, ConsumeType, Zenon
  <2>5. inq' \in Seq(Int) /\ Len(inq') = Len(inq) + to_copy
    <3> DEFINE units == Oldest(a, SizeOfA, to_copy)
    <3>2. Oldest(a, SizeOfA, to_copy) \in Seq(Int) /\ Len(Oldest(a, SizeOfA, to_copy)) = to_copy
      <4>1. SizeOfA \in Nat \ {0}
        BY Sizes, Zenon
      <4> QED BY <1>a, <1>q, <2>3, <4>1, OldestType, ZenonT(30)
    <3>3. inq' = inq \o units
      BY <2>2, Zenon
    <3> HIDE DEF units
    <3>4. units \in Seq(Int) /\ Len(units) = to_copy
      BY <3>2, Zenon DEF units
    <3>5. inq \in Seq(Int)
      BY <1>q, Zenon
    <3>6. inq \o units \in Seq(Int) /\ Len(inq \o units) = Len(inq) + Len(units)
      BY <3>4, <3>5, JoinLength, Zenon
    <3> QED BY <3>3, <3>4, <3>6, Zenon
  <2>6. Len(inq') <= SizeOfIn /\ Len(inq) <= Len(inq')
    BY <1>a, <1>q, <2>1, <2>5, Sizes
  <2>7. TypeOK'
    BY <1>t, <2>2, <2>4, <2>5, <2>6, Zenon DEF TypeOK, dp
  <2>8. ~failed'
    BY <2>2, Zenon DEF SyncInv
  <2>9. task' = "RUNNING" /\ block' = <<>> => Block <= Len(inq')
    <3>1. Len(inq') \in Nat
      BY <2>5
    <3> QED BY <1>q, <2>2, <2>6, <3>1, Sizes DEF SyncInv, dp
  <2> QED BY <2>2, <2>7, <2>8, <2>9, Zenon DEF SyncInv
<1>4. CASE ReadOut
  <2> DEFINE space == Free(b, SizeOfB)
             data == Len(outq)
  <2>1. space \in Nat /\ data \in Nat /\ ChunkOut \in Nat
    BY <1>b, <1>q, Sizes DEF Free
  <2>0. to_copy' = Min({data, space, ChunkOut})
    BY <1>4, Zenon DEF ReadOut
  <2> HIDE DEF space, data
  <2>6. to_copy' \in {data, space, ChunkOut} /\ to_copy' <= data /\ to_copy' <= space
    <3>1. space \in Int /\ data \in Int /\ ChunkOut \in Int
      BY <2>1
    <3> QED BY <2>0, <3>1, MinOfThree, Zenon
  <2>7. to_copy' \in Nat
    BY <2>6, <2>1, Zenon
  <2>2. to_copy' \in Nat /\ to_copy' <= Len(outq) /\ to_copy' <= Free(b, SizeOfB)
    BY <2>6, <2>7, Zenon DEF space, data
  <2>3. UNCHANGED <<streams, queues, dp, sent>> /\ ll' = "copy_out"
    BY <1>4, Zenon DEF ReadOut, past
  <2>4. TypeOK'
    BY <1>t, <2>2, <2>3, Zenon DEF TypeOK, streams, queues, dp
  <2>5. ~failed'
    BY <1>4, Zenon DEF ReadOut, past, SyncInv
  <2> QED BY <2>2, <2>3, <2>4, <2>5, Zenon DEF SyncInv, streams, queues, dp, Free
<1>5. CASE CopyOut
  <2>1. Free(b, SizeOfB) \in 0..SizeOfB
    BY <1>b, Sizes DEF Free
  <2>2. to_copy <= Len(outq) /\ to_copy <= Free(b, SizeOfB)
    BY <1>5, Zenon DEF CopyOut, SyncInv
  <2>3. ~(to_copy > Len(outq) \/ to_copy > Free(b, SizeOfB))
    BY <1>q, <2>1, <2>2, Sizes
  <2>4. /\ b' = IF to_copy = 0 THEN b ELSE Produce(b, SizeOfB, SubSeq(outq, 1, to_copy))
        /\ outq' = SubSeq(outq, to_copy + 1, Len(outq))
        /\ failed' = failed
        /\ ll' = "LL2" /\ to_copy' = 0
        /\ UNCHANGED <<a, inq, dp, sent>>
    BY <1>5, <2>3, Zenon DEF CopyOut
  <2>6. SubSeq(outq, 1, to_copy) \in Seq(Int) /\ Len(SubSeq(outq, 1, to_copy)) = to_copy
    BY <1>q, <2>2
  <2>7. StreamType(b', SizeOfB)
    <3> DEFINE units == SubSeq(outq, 1, to_copy)
    <3>1. units \in Seq(Int) /\ Len(units) <= SizeOfB
      BY <1>q, <2>1, <2>2, <2>6, Sizes
    <3>2. b' = b \/ b' = Produce(b, SizeOfB, units)
      BY <2>4, Zenon
    <3> HIDE DEF units
    <3>3. StreamType(Produce(b, SizeOfB, units), SizeOfB)
      BY <1>b, <3>1, Sizes, ProduceType, Zenon
    <3> QED BY <1>b, <3>2, <3>3, Zenon
  <2>8. outq' \in Seq(Int)
    BY <1>q, <2>4
  <2>9. TypeOK'
    BY <1>t, <2>4, <2>7, <2>8, Zenon DEF TypeOK, dp
  <2>10. ~failed'
    BY <2>4, Zenon DEF SyncInv
  <2> QED BY <2>4, <2>9, <2>10, Zenon DEF SyncInv, dp
<1>6. CASE LL2
  <2>1. StreamType(Consume(b, SizeOfB, b.avail), SizeOfB)
    BY <1>b, Sizes, ConsumeType, Zenon
  <2>2. StreamType(b', SizeOfB)
    BY <1>6, <1>b, <2>1, Zenon DEF LL2
  <2>3. TypeOK'
    BY <1>6, <1>t, <2>2, Zenon DEF LL2, TypeOK, queues, dp
  <2>4. ~failed'
    BY <1>6, Zenon DEF LL2, SyncInv
  <2>5. ll' = "tick" /\ UNCHANGED <<task, block, inq>>
    BY <1>6, Zenon DEF LL2, dp, queues
  <2> QED BY <2>3, <2>4, <2>5, Zenon DEF SyncInv
<1>7. CASE Tick
  <2>1. TypeOK'
    BY <1>7, <1>t, Zenon DEF Tick, TypeOK, streams, queues
  <2>2. ~failed'
    BY <1>7, Zenon DEF Tick, SyncInv
  <2>3. ll' = "LL1" /\ UNCHANGED <<block, inq>>
    BY <1>7, Zenon DEF Tick, queues
  <2>4. task' = "RUNNING" => task = "RUNNING" \/ Len(inq) >= Block
    BY <1>7, Zenon DEF Tick, Ready
  <2>5. task' = "RUNNING" /\ block' = <<>> => Block <= Len(inq')
    <3> QED BY <1>q, <2>3, <2>4, Sizes, Zenon DEF SyncInv
  <2> QED BY <2>1, <2>2, <2>3, <2>5, Zenon DEF SyncInv
<1>8. CASE DpTake
  <2>1. Block <= Len(inq)
    BY <1>8, Zenon DEF DpTake, SyncInv
  <2>2. block' = SubSeq(inq, 1, Block) /\ inq' = SubSeq(inq, Block + 1, Len(inq))
    BY <1>8, Zenon DEF DpTake
  <2>3. block' \in Seq(Int) /\ Len(block') = Block /\ inq' \in Seq(Int) /\ Len(inq') = Len(inq) - Block
    BY <1>q, <2>1, <2>2, Sizes, SMTT(30)
  <2>4. block' # <<>>
    BY <2>3, Sizes, Zenon
  <2>5. UNCHANGED <<streams, outq, ll, to_copy, sent>>
    BY <1>8, Zenon DEF DpTake, past
  <2>6. TypeOK'
    BY <1>t, <1>q, <2>1, <2>3, <2>5, Sizes DEF TypeOK, streams
  <2>7. ~failed'
    BY <1>8, Zenon DEF DpTake, past, SyncInv
  <2>8. ll' = "copy_in" => to_copy' <= a'.avail /\ to_copy' <= SizeOfIn - Len(inq')
    BY <1>q, <2>1, <2>3, <2>5, Sizes DEF SyncInv, streams
  <2> QED BY <2>4, <2>5, <2>6, <2>7, <2>8, Zenon DEF SyncInv, streams
<1>9. CASE DpGive
  <2>2. outq' \in Seq(Int) /\ Len(outq') = Len(outq) + Len(block) /\ block' = <<>> /\ task' = "QUEUED"
    BY <1>9, <1>q DEF DpGive
  <2>3. UNCHANGED <<streams, inq, ll, to_copy, sent>>
    BY <1>9, Zenon DEF DpGive, past
  <2>4. TypeOK'
    BY <1>t, <2>2, <2>3 DEF TypeOK, streams
  <2>5. ~failed'
    BY <1>9, Zenon DEF DpGive, past, SyncInv
  <2>6. ll' = "copy_out" => to_copy' <= Len(outq') /\ to_copy' <= Free(b', SizeOfB)
    BY <1>q, <2>2, <2>3 DEF SyncInv, streams
  <2> QED BY <2>2, <2>3, <2>4, <2>5, <2>6, Zenon DEF SyncInv, streams
<1>10. CASE UNCHANGED vars
  <2>1. TypeOK'
    BY <1>10, <1>t, Zenon DEF TypeOK, vars, streams, queues, dp, past
  <2>2. ~failed'
    BY <1>10, Zenon DEF SyncInv, vars, past
  <2> QED BY <1>10, <2>1, <2>2, Zenon DEF SyncInv, vars, streams, queues, dp, past
<1> QED
  BY <1>1, <1>2, <1>3, <1>4, <1>5, <1>6, <1>7, <1>8, <1>9, <1>10, Zenon
  DEF Next, LLThread, DpThread

\* For all block sizes and every interleaving of the two threads, the copy
\* between a stream and its shadow queue finds the data and the space that
\* buffer_sync_shadow_dp_queue has seen: source_to_sink_copy does not fail.
THEOREM CopySafe == Spec => []SyncSucceeds
<1>1. SyncInv => SyncSucceeds
  BY Zenon DEF SyncInv, SyncSucceeds
<1> QED BY <1>1, SyncInit, SyncStep, PTL DEF Spec

\* Pointers and counts of both streams stay in range, and the input queue is
\* never filled beyond its size.
THEOREM StreamsWellFormed == Spec => []TypeOK
<1>1. SyncInv => TypeOK
  BY Zenon DEF SyncInv
<1> QED BY <1>1, SyncInit, SyncStep, PTL DEF Spec

-----------------------------------------------------------------------------
(* The numbers of the units.                                               *)

LEMMA ModParts ==
    ASSUME NEW m \in Nat \ {0}, NEW x \in Nat
    PROVE  x % m \in 0..m - 1 /\ x \div m \in Nat /\ x = m * (x \div m) + (x % m)
OBVIOUS

LEMMA ModUnique ==
    ASSUME NEW m \in Nat \ {0}, NEW q \in Nat, NEW r \in 0..m - 1
    PROVE  (m * q + r) % m = r
OBVIOUS

\* Numbers that agree modulo m still do when k is added.
LEMMA ModAdd ==
    ASSUME NEW m \in Nat \ {0}, NEW x \in Nat, NEW k \in Nat
    PROVE  ((x % m) + k) % m = (x + k) % m
<1> DEFINE q == x \div m
           y == (x % m) + k
           p == y \div m
<1>1. x % m \in 0..m - 1 /\ q \in Nat /\ x = m * q + (x % m)
  BY ModParts, Zenon
<1>2. y \in Nat
  BY <1>1
<1>3. y % m \in 0..m - 1 /\ p \in Nat /\ y = m * p + (y % m)
  <2> HIDE DEF y
  <2> QED
    BY <1>2, ModParts, Zenon
<1>4. x + k = m * q + y
  BY <1>1
<1>5. x + k = m * (q + p) + (y % m)
  <2> HIDE DEF q, p, y
  <2>1. m * (q + p) = m * q + m * p
    BY <1>1, <1>3
  <2>2. m * q \in Int /\ m * p \in Int
    BY <1>1, <1>3
  <2> QED
    BY <1>2, <1>3, <1>4, <2>1, <2>2
<1>6. (m * (q + p) + (y % m)) % m = y % m
  <2> HIDE DEF q, p, y
  <2>1. q + p \in Nat
    BY <1>1, <1>3
  <2> QED
    BY <1>3, <2>1, ModUnique, Zenon
<1> QED
  BY <1>5, <1>6, Zenon

\* A place whose first unit has the number f also begins with f + SampleMod.
LEMMA Reanchored ==
    ASSUME NEW f \in Nat, NEW g \in Nat, f % SampleMod = g % SampleMod, NEW k \in Nat
    PROVE  (f + k) % SampleMod = (g + k) % SampleMod
<1>1. SampleMod \in Nat \ {0}
  BY Sizes, Zenon
<1>2. /\ ((f % SampleMod) + k) % SampleMod = (f + k) % SampleMod
      /\ ((g % SampleMod) + k) % SampleMod = (g + k) % SampleMod
  BY <1>1, ModAdd, Zenon
<1> QED
  BY <1>2, Zenon

LEMMA SameFirst ==
    ASSUME NEW q, NEW f \in Nat, NEW g \in Nat, f % SampleMod = g % SampleMod, Len(q) \in Nat,
           Consecutive(q, f)
    PROVE  Consecutive(q, g)
<1> SUFFICES ASSUME NEW i \in 1..Len(q) PROVE q[i] = (g + i - 1) % SampleMod
  BY Zenon DEF Consecutive
<1>1. i - 1 \in Nat /\ SampleMod \in Nat \ {0}
  BY Sizes
<1>3. /\ ((f % SampleMod) + (i - 1)) % SampleMod = (f + (i - 1)) % SampleMod
      /\ ((g % SampleMod) + (i - 1)) % SampleMod = (g + (i - 1)) % SampleMod
  BY <1>1, ModAdd, Zenon
<1>2. f + i - 1 = f + (i - 1) /\ g + i - 1 = g + (i - 1)
  BY Zenon
<1> QED
  BY <1>2, <1>3, Zenon DEF Consecutive

LEMMA SameFirstStream ==
    ASSUME NEW size \in Nat \ {0}, NEW s, StreamType(s, size), NEW f \in Nat, NEW g \in Nat,
           f % SampleMod = g % SampleMod, StreamConsecutive(s, size, f)
    PROVE  StreamConsecutive(s, size, g)
<1> SUFFICES ASSUME NEW i \in 1..s.avail
             PROVE  s.data[Wrap(size, s.r + i - 1)] = (g + i - 1) % SampleMod
  BY Zenon DEF StreamConsecutive
<1>1. i - 1 \in Nat /\ SampleMod \in Nat \ {0}
  BY Sizes DEF StreamType
<1>3. /\ ((f % SampleMod) + (i - 1)) % SampleMod = (f + (i - 1)) % SampleMod
      /\ ((g % SampleMod) + (i - 1)) % SampleMod = (g + (i - 1)) % SampleMod
  BY <1>1, ModAdd, Zenon
<1>2. f + i - 1 = f + (i - 1) /\ g + i - 1 = g + (i - 1)
  BY Zenon DEF StreamType
<1> QED
  BY <1>2, <1>3, Zenon DEF StreamConsecutive

\* Two places in a row.
LEMMA ConsecutiveJoin ==
    ASSUME NEW s \in Seq(Int), NEW t \in Seq(Int), NEW f \in Nat,
           Consecutive(s, f), Consecutive(t, f + Len(s))
    PROVE  Consecutive(s \o t, f)
<1>1. /\ Len(s) \in Nat /\ Len(t) \in Nat /\ Len(s \o t) = Len(s) + Len(t)
      /\ \A i \in 1..Len(s) + Len(t) : (s \o t)[i] = IF i <= Len(s) THEN s[i] ELSE t[i - Len(s)]
  OBVIOUS
<1> SUFFICES ASSUME NEW i \in 1..Len(s) + Len(t) PROVE (s \o t)[i] = (f + i - 1) % SampleMod
  BY <1>1, Zenon DEF Consecutive
<1>2. CASE i <= Len(s)
  BY <1>1, <1>2 DEF Consecutive
<1>3. CASE i > Len(s)
  <2>1. i - Len(s) \in 1..Len(t) /\ f + Len(s) + (i - Len(s)) - 1 = f + i - 1
    BY <1>1, <1>3
  <2>2. t[i - Len(s)] = (f + Len(s) + (i - Len(s)) - 1) % SampleMod
    BY <1>1, <2>1, Zenon DEF Consecutive
  <2> QED
    BY <1>1, <1>3, <2>1, <2>2
<1> QED
  BY <1>1, <1>2, <1>3

\* The front and the rest of a place.
LEMMA ConsecutiveSplit ==
    ASSUME NEW s \in Seq(Int), NEW f \in Nat, NEW n \in 0..Len(s), Consecutive(s, f)
    PROVE  /\ Consecutive(SubSeq(s, 1, n), f)
           /\ Consecutive(SubSeq(s, n + 1, Len(s)), f + n)
<1>1. /\ Len(s) \in Nat /\ Len(SubSeq(s, 1, n)) = n /\ Len(SubSeq(s, n + 1, Len(s))) = Len(s) - n
      /\ \A i \in 1..n : SubSeq(s, 1, n)[i] = s[i]
      /\ \A i \in 1..Len(s) - n : SubSeq(s, n + 1, Len(s))[i] = s[n + i]
  OBVIOUS
<1>2. Consecutive(SubSeq(s, 1, n), f)
  BY <1>1 DEF Consecutive
<1>3. ASSUME NEW i \in 1..Len(s) - n
      PROVE  SubSeq(s, n + 1, Len(s))[i] = (f + n + i - 1) % SampleMod
  <2>1. n + i \in 1..Len(s) /\ f + (n + i) - 1 = f + n + i - 1
    BY <1>1
  <2> QED
    BY <1>1, <2>1, Zenon DEF Consecutive
<1> QED
  BY <1>1, <1>2, <1>3, SMTT(30) DEF Consecutive

-----------------------------------------------------------------------------
(* The units in a stream.                                                  *)

LEMMA ModSmall ==
    ASSUME NEW m \in Nat \ {0}, NEW x \in (-m)..m - 1
    PROVE  x % m = IF x >= 0 THEN x ELSE x + m
OBVIOUS

\* The slot of the j-th unit that is written, and where it comes from.
LEMMA WrittenSlot ==
    ASSUME NEW size \in Nat \ {0}, NEW w \in 0..size - 1, NEW j \in 1..size
    PROVE  /\ Wrap(size, w + j - 1) \in 0..size - 1
           /\ (Wrap(size, w + j - 1) - w) % size = j - 1
<1> DEFINE x == Wrap(size, w + j - 1) - w
<1>1. Wrap(size, w + j - 1) \in 0..size - 1 /\ x \in {j - 1, j - 1 - size}
  BY DEF Wrap
<1> HIDE DEF x
<1>2. x \in (-size)..size - 1 /\ (IF x >= 0 THEN x ELSE x + size) = j - 1
  BY <1>1
<1>3. x % size = j - 1
  BY <1>2, ModSmall, Zenon
<1> QED
  BY <1>1, <1>3, Zenon DEF x

\* The amount audio_stream_produce and audio_stream_consume conclude from the
\* pointers, and the data after a write.
Filled(size, r, w) == IF r = w THEN size ELSE IF r < w THEN w - r ELSE size - (r - w)
Left(size, r, w) == IF r = w THEN 0 ELSE IF r < w THEN w - r ELSE size - (r - w)
Overwritten(old, size, w, units, n) ==
    [i \in 0..size - 1 |-> IF (i - w) % size < n THEN units[((i - w) % size) + 1] ELSE old[i]]

\* The write pointer and the amount after n units are produced or consumed.
LEMMA Advance ==
    ASSUME NEW size \in Nat \ {0}, NEW r \in 0..size - 1, NEW k \in 0..size - 1, NEW n \in 1..size - k
    PROVE  /\ Filled(size, r, Wrap(size, Wrap(size, r + k) + n)) = k + n
           /\ Wrap(size, Wrap(size, r + k) + n) = Wrap(size, r + (k + n))
BY DEF Wrap, Filled

LEMMA Retreat ==
    ASSUME NEW size \in Nat \ {0}, NEW r \in 0..size - 1, NEW k \in 0..size, NEW n \in 1..k
    PROVE  /\ Left(size, Wrap(size, r + n), Wrap(size, r + k)) = k - n
           /\ Wrap(size, r + k) = Wrap(size, Wrap(size, r + n) + (k - n))
           /\ \A i \in 1..k - n : Wrap(size, Wrap(size, r + n) + i - 1) = Wrap(size, r + (n + i) - 1)
BY DEF Wrap, Left

\* A slot counted from the read and from the write pointer.
LEMMA SlotFromWrite ==
    ASSUME NEW size \in Nat \ {0}, NEW r \in 0..size - 1, NEW k \in 0..size, NEW i \in 1..size
    PROVE  /\ Wrap(size, r + i - 1) \in 0..size - 1
           /\ Wrap(size, r + i - 1) =
                 Wrap(size, Wrap(size, r + k) + (IF i <= k THEN size - k + i ELSE i - k) - 1)
BY DEF Wrap

\* The k units from slot r on are numbered from f on.
Numbered(data, size, r, k, f) == \A i \in 1..k : data[Wrap(size, r + i - 1)] = (f + i - 1) % SampleMod

\* What is written behind the k units from slot r on leaves those alone.
LEMMA WrittenData ==
    ASSUME NEW size \in Nat \ {0}, NEW r \in 0..size - 1, NEW k \in 0..size - 1, NEW n \in 1..size - k,
           NEW f \in Nat, NEW old, NEW units, Numbered(old, size, r, k, f),
           Consecutive(units, f + k), n = Len(units)
    PROVE  Numbered(Overwritten(old, size, Wrap(size, r + k), units, n), size, r, k + n, f)
<1> SUFFICES ASSUME NEW i \in 1..k + n
             PROVE  Overwritten(old, size, Wrap(size, r + k), units, n)[Wrap(size, r + i - 1)]
                       = (f + i - 1) % SampleMod
  BY Zenon DEF Numbered
<1> DEFINE w == Wrap(size, r + k)
           data == Overwritten(old, size, w, units, n)
           x == Wrap(size, r + i - 1)
           j == IF i <= k THEN size - k + i ELSE i - k
<1>1. i \in 1..size /\ j \in 1..size /\ w \in 0..size - 1 /\ k \in 0..size
  BY DEF Wrap
<1>2. x \in 0..size - 1 /\ x = Wrap(size, w + j - 1)
  BY <1>1, SlotFromWrite, ZenonT(30)
<1>3. (x - w) % size = j - 1
  <2> HIDE DEF j, x
  <2> QED
    BY <1>1, <1>2, WrittenSlot, SMTT(30)
<1> HIDE DEF x, w
<1>4. data[x] = IF j - 1 < n THEN units[(j - 1) + 1] ELSE old[x]
  <2> HIDE DEF j
  <2> QED
    BY <1>2, <1>3, Zenon DEF Overwritten
<1> HIDE DEF data
<1>5. CASE i <= k
  <2>1. ~(j - 1 < n) /\ i \in 1..k
    BY <1>5
  <2> QED
    BY <1>4, <2>1, Zenon DEF x, data, w, Numbered
<1>6. CASE i > k
  <2>1. j \in 1..n /\ j - 1 < n /\ (j - 1) + 1 = j /\ f + k + j - 1 = f + i - 1
    BY <1>6
  <2>2. data[x] = units[j]
    <3> HIDE DEF j
    <3> QED
      BY <1>4, <2>1, SMTT(30)
  <2>3. units[j] = (f + k + j - 1) % SampleMod
    <3> HIDE DEF j
    <3> QED
      BY <2>1, Zenon DEF Consecutive
  <2> QED
    BY <2>1, <2>2, <2>3, SMTT(30) DEF x, data, w
<1> QED
  BY <1>5, <1>6

\* audio_stream_produce adds units behind those that are there.
LEMMA ProduceConsecutive ==
    ASSUME NEW size \in Nat \ {0}, NEW s, StreamType(s, size), NEW f \in Nat,
           NEW units \in Seq(Int), Len(units) \in 1..Free(s, size),
           StreamConsecutive(s, size, f), Consecutive(units, f + s.avail)
    PROVE  /\ Produce(s, size, units).avail = s.avail + Len(units)
           /\ StreamConsecutive(Produce(s, size, units), size, f)
<1> DEFINE r == s.r
           k == s.avail
           n == Len(units)
           old == s.data
           w0 == s.w
           w == Wrap(size, w0 + n)
           data == Overwritten(old, size, w0, units, n)
<1>1. r \in 0..size - 1 /\ k \in 0..size - 1 /\ n \in 1..size - k /\ w0 = Wrap(size, r + k)
  BY DEF StreamType, StreamConsecutive, Free
<1>2. Numbered(old, size, r, k, f) /\ Consecutive(units, f + k) /\ n = Len(units)
  BY Zenon DEF StreamConsecutive, Numbered
<1>3. ~(n > Free(s, size))
  BY DEF StreamType, Free
<1>4. Produce(s, size, units) = [data |-> data, r |-> r, w |-> w, avail |-> Filled(size, r, w)]
  BY <1>3, Zenon DEF Produce, Filled, Overwritten
<1> HIDE DEF r, k, n, old, w0
<1>5. Filled(size, r, w) = k + n /\ w = Wrap(size, r + (k + n))
  <2>1. w = Wrap(size, Wrap(size, r + k) + n)
    BY <1>1, Zenon
  <2> HIDE DEF w
  <2> QED
    BY <1>1, <2>1, Advance, ZenonT(30)
<1>6. Numbered(data, size, r, k + n, f)
  <2>1. data = Overwritten(old, size, Wrap(size, r + k), units, n)
    BY <1>1, Zenon
  <2> HIDE DEF data
  <2> QED
    BY <1>1, <1>2, <2>1, WrittenData, Zenon
<1> HIDE DEF data, w
<1> QED
  BY <1>4, <1>5, <1>6, SMTT(20) DEF StreamConsecutive, Numbered, n, k

\* audio_stream_consume leaves what follows the oldest n units.
LEMMA ConsumeConsecutive ==
    ASSUME NEW size \in Nat \ {0}, NEW s, StreamType(s, size), NEW f \in Nat,
           NEW n \in 1..s.avail, StreamConsecutive(s, size, f)
    PROVE  /\ Consume(s, size, n).avail = s.avail - n
           /\ StreamConsecutive(Consume(s, size, n), size, f + n)
<1> DEFINE r == s.r
           k == s.avail
           w == s.w
           data == s.data
           q == Wrap(size, r + n)
<1>1. r \in 0..size - 1 /\ k \in 0..size /\ n \in 1..k /\ w = Wrap(size, r + k)
  BY Zenon DEF StreamType, StreamConsecutive
<1>2. \A i \in 1..k : data[Wrap(size, r + i - 1)] = (f + i - 1) % SampleMod
  BY Zenon DEF StreamConsecutive
<1>3. Consume(s, size, n) = [data |-> data, r |-> q, w |-> w, avail |-> Left(size, q, w)]
  BY Zenon DEF Consume, Left
<1> HIDE DEF r, k, w, data
<1>4. /\ Left(size, q, w) = k - n /\ w = Wrap(size, q + (k - n))
      /\ \A i \in 1..k - n : Wrap(size, q + i - 1) = Wrap(size, r + (n + i) - 1)
  <2>1. q = Wrap(size, r + n)
    BY Zenon
  <2> HIDE DEF q
  <2> QED
    BY <1>1, <2>1, Retreat, ZenonT(30)
<1> HIDE DEF q
<1>5. ASSUME NEW i \in 1..k - n
      PROVE  data[Wrap(size, q + i - 1)] = (f + n + i - 1) % SampleMod
  <2> DEFINE j == n + i
  <2>1. j \in 1..k /\ f + j - 1 = f + n + i - 1 /\ Wrap(size, q + i - 1) = Wrap(size, r + j - 1)
    BY <1>1, <1>4
  <2> HIDE DEF j
  <2> QED
    BY <1>2, <2>1, Zenon
<1> QED
  BY <1>3, <1>4, <1>5 DEF StreamConsecutive, k

\* The oldest units of a stream.
LEMMA OldestConsecutive ==
    ASSUME NEW size \in Nat \ {0}, NEW s, StreamType(s, size), NEW f \in Nat,
           NEW n \in 0..s.avail, StreamConsecutive(s, size, f)
    PROVE  Consecutive(Oldest(s, size, n), f)
<1>1. n \in Nat /\ n <= size
  BY DEF StreamType
<1>2. Len(Oldest(s, size, n)) = n
  BY <1>1, OldestType
<1> SUFFICES ASSUME NEW i \in 1..n PROVE Oldest(s, size, n)[i] = (f + i - 1) % SampleMod
  BY <1>2, Zenon DEF Consecutive
<1>3. Oldest(s, size, n)[i] = s.data[Wrap(size, s.r + i - 1)]
  BY Zenon DEF Oldest
<1>4. i \in 1..s.avail
  BY DEF StreamType
<1> QED
  BY <1>3, <1>4, Zenon DEF StreamConsecutive

-----------------------------------------------------------------------------
(* The stream comes out unbroken.                                          *)

\* What the steps need of the types.
LEMMA Total ==
    ASSUME NEW x \in Nat, NEW y \in Nat
    PROVE  x + y \in Nat
OBVIOUS

LEMMA Moved ==
    ASSUME NEW x \in Nat, NEW k \in Nat, NEW av \in Nat, NEW n \in 0..av
    PROVE  /\ x + (k + n) = (x + k) + n
           /\ (x + (k + n)) + (av - n) = (x + k) + av
OBVIOUS

LEMMA GroupedSum ==
    ASSUME NEW x \in Nat, NEW y \in Nat, NEW z \in Nat
    PROVE  (x + y) + z = x + (y + z)
OBVIOUS

LEMMA Amounts ==
    ASSUME SyncInv, FlowInv
    PROVE  /\ StreamType(a, SizeOfA) /\ StreamType(b, SizeOfB)
           /\ a.avail \in Nat /\ b.avail \in Nat
           /\ inq \in Seq(Int) /\ outq \in Seq(Int) /\ block \in Seq(Int)
           /\ Len(inq) \in Nat /\ Len(outq) \in Nat /\ Len(block) \in Nat
           /\ heard \in Nat /\ OutFirst \in Nat /\ BlockFirst \in Nat /\ InFirst \in Nat /\ NewFirst \in Nat
           /\ to_copy \in Nat
<1>1. /\ StreamType(a, SizeOfA) /\ StreamType(b, SizeOfB) /\ to_copy \in Nat
      /\ inq \in Seq(Int) /\ outq \in Seq(Int) /\ block \in Seq(Int) /\ heard \in Nat
  BY Zenon DEF SyncInv, TypeOK, FlowInv
<1>2. a.avail \in Nat /\ b.avail \in Nat
  BY <1>1, Sizes DEF StreamType
<1>3. Len(inq) \in Nat /\ Len(outq) \in Nat /\ Len(block) \in Nat
  BY <1>1
<1>4. OutFirst \in Nat
  BY <1>1, <1>2, Total, Zenon DEF OutFirst
<1>5. BlockFirst \in Nat
  BY <1>3, <1>4, Total, Zenon DEF BlockFirst
<1>6. InFirst \in Nat
  BY <1>3, <1>5, Total, Zenon DEF InFirst
<1>7. NewFirst \in Nat
  BY <1>3, <1>6, Total, Zenon DEF NewFirst
<1> QED
  BY <1>1, <1>2, <1>3, <1>4, <1>5, <1>6, <1>7, Zenon

LEMMA FlowInit == Init => FlowInv
<1> SUFFICES ASSUME Init PROVE FlowInv
  OBVIOUS
<1>1. ASSUME NEW size \in Nat \ {0} PROVE StreamConsecutive(Reset(size), size, 0) /\ Reset(size).avail = 0
  BY DEF Reset, StreamConsecutive, Wrap
<1>2. /\ StreamConsecutive(b, SizeOfB, 0) /\ b.avail = 0
      /\ StreamConsecutive(a, SizeOfA, 0) /\ a.avail = 0
  BY <1>1, Sizes, Zenon DEF Init
<1>3. /\ heard = 0 /\ sent = 0 /\ inq = <<>> /\ outq = <<>> /\ block = <<>>
  BY Zenon DEF Init
<1>4. OutFirst = 0 /\ BlockFirst = 0 /\ InFirst = 0 /\ NewFirst = 0
  BY <1>2, <1>3 DEF OutFirst, BlockFirst, InFirst, NewFirst
<1>5. \A n : Consecutive(<<>>, n)
  BY DEF Consecutive
<1>6. 0 % SampleMod = 0
  BY Sizes, ModSmall
<1> QED
  BY <1>2, <1>3, <1>4, <1>5, <1>6 DEF FlowInv

\* A step that moves no unit.
LEMMA FlowKept ==
    ASSUME FlowInv, UNCHANGED <<a, b, inq, outq, block, heard, sent>>
    PROVE  FlowInv'
BY Zenon DEF FlowInv, OutFirst, BlockFirst, InFirst, NewFirst

\* LL1 adds the next units to a.
LEMMA FlowLL1 ==
    ASSUME SyncInv, FlowInv, Free(a, SizeOfA) >= ChunkIn,
           a' = Produce(a, SizeOfA, [i \in 1..ChunkIn |-> (sent + i - 1) % SampleMod]),
           sent' = (sent + ChunkIn) % SampleMod, UNCHANGED <<b, inq, outq, block, heard>>
    PROVE  FlowInv'
<1> DEFINE units == [i \in 1..ChunkIn |-> (sent + i - 1) % SampleMod]
           next == NewFirst + a.avail
<1>1. /\ StreamType(a, SizeOfA) /\ NewFirst \in Nat /\ a.avail \in Nat /\ next \in Nat
      /\ SampleMod \in Nat \ {0} /\ SizeOfA \in Nat \ {0} /\ ChunkIn \in Nat \ {0}
  <2>1. NewFirst \in Nat /\ a.avail \in Nat
    BY Amounts, Zenon
  <2>2. next \in Nat
    BY <2>1, Total, Zenon
  <2> QED
    BY <2>1, <2>2, Amounts, Sizes, SMTT(30)
<1>2. sent = next % SampleMod /\ sent \in Nat
  <2> HIDE DEF next
  <2>1. next % SampleMod \in Nat
    BY <1>1
  <2> QED
    BY <2>1, Zenon DEF FlowInv, next
<1>3. units \in Seq(Int) /\ Len(units) = ChunkIn
  <2>1. \A i \in 1..ChunkIn : (sent + i - 1) % SampleMod \in Int
    BY <1>1, <1>2, SMTT(20)
  <2> QED
    BY <1>1, <2>1
<1>4. Consecutive(units, sent)
  BY <1>3, Zenon DEF Consecutive
<1> HIDE DEF units, next
<1>5. sent % SampleMod = next % SampleMod
  <2>1. ((next % SampleMod) + 0) % SampleMod = (next + 0) % SampleMod
    BY <1>1, ModAdd, Zenon
  <2> QED
    BY <1>1, <1>2, <2>1
<1>6. Consecutive(units, next)
  <2>1. Len(units) \in Nat
    BY <1>1, <1>3, Zenon
  <2> QED
    BY <1>1, <1>2, <1>4, <1>5, <2>1, SameFirst, Zenon
<1>7. Len(units) \in 1..Free(a, SizeOfA)
  BY <1>1, <1>3 DEF Free, StreamType
<1>8. a' = Produce(a, SizeOfA, units)
  BY Zenon DEF units
<1>9. a'.avail = a.avail + ChunkIn /\ StreamConsecutive(a', SizeOfA, NewFirst)
  <2>1. StreamConsecutive(a, SizeOfA, NewFirst) /\ Consecutive(units, NewFirst + a.avail)
    BY <1>6, Zenon DEF FlowInv, next
  <2>2. /\ Produce(a, SizeOfA, units).avail = a.avail + Len(units)
        /\ StreamConsecutive(Produce(a, SizeOfA, units), SizeOfA, NewFirst)
    BY <1>1, <1>3, <1>7, <2>1, ProduceConsecutive, Zenon
  <2> QED
    BY <1>3, <1>8, <2>2, Zenon
<1>10. sent' = (next + ChunkIn) % SampleMod
  BY <1>1, <1>2, ModAdd, Zenon
<1>11. OutFirst' = OutFirst /\ BlockFirst' = BlockFirst /\ InFirst' = InFirst /\ NewFirst' = NewFirst
  BY Zenon DEF OutFirst, BlockFirst, InFirst, NewFirst
<1>12. NewFirst' + a'.avail = next + ChunkIn
  BY <1>1, <1>9, <1>11, SMTT(30) DEF next
<1> QED
  BY <1>9, <1>10, <1>11, <1>12, Zenon DEF FlowInv

\* CopyIn moves the oldest units of a behind those of the queue.
LEMMA FlowCopyIn ==
    ASSUME SyncInv, FlowInv, to_copy <= a.avail, inq' = inq \o Oldest(a, SizeOfA, to_copy),
           a' = IF to_copy = 0 THEN a ELSE Consume(a, SizeOfA, to_copy),
           UNCHANGED <<b, outq, block, heard, sent>>
    PROVE  FlowInv'
<1> DEFINE units == Oldest(a, SizeOfA, to_copy)
<1>1. /\ StreamType(a, SizeOfA) /\ NewFirst \in Nat /\ InFirst \in Nat /\ a.avail \in Nat
      /\ SizeOfA \in Nat \ {0} /\ inq \in Seq(Int) /\ Len(inq) \in Nat /\ to_copy \in Nat
      /\ NewFirst = InFirst + Len(inq)
  BY Amounts, Sizes, Zenon DEF NewFirst
<1>2. to_copy \in 0..a.avail /\ to_copy <= SizeOfA
  BY <1>1 DEF StreamType
<1>3. units \in Seq(Int) /\ Len(units) = to_copy
  BY <1>1, <1>2, OldestType
<1>4. Consecutive(units, InFirst + Len(inq))
  BY <1>1, <1>2, OldestConsecutive, Zenon DEF FlowInv
<1> HIDE DEF units
<1>5. Consecutive(inq', InFirst) /\ Len(inq') = Len(inq) + to_copy
  <2>1. inq' = inq \o units
    BY Zenon DEF units
  <2>2. Len(inq \o units) = Len(inq) + Len(units)
    BY <1>1, <1>3, JoinLength, Zenon
  <2> QED
    BY <1>1, <1>3, <1>4, <2>1, <2>2, ConsecutiveJoin, Zenon DEF FlowInv
<1>6. a'.avail = a.avail - to_copy /\ StreamConsecutive(a', SizeOfA, NewFirst + to_copy)
  <2>1. CASE to_copy = 0
    BY <1>1, <2>1 DEF FlowInv
  <2>2. CASE to_copy # 0
    <3>1. to_copy \in 1..a.avail
      BY <1>1, <1>2, <2>2
    <3> QED
      BY <1>1, <2>2, <3>1, ConsumeConsecutive, SMTT(30) DEF FlowInv
  <2> QED
    BY <2>1, <2>2, Zenon
<1>7. OutFirst' = OutFirst /\ BlockFirst' = BlockFirst /\ InFirst' = InFirst
  BY Zenon DEF OutFirst, BlockFirst, InFirst
<1>8. NewFirst' = NewFirst + to_copy /\ NewFirst' + a'.avail = NewFirst + a.avail
  <2>1. NewFirst' = InFirst + (Len(inq) + to_copy) /\ NewFirst = InFirst + Len(inq)
    BY <1>5, <1>7, Zenon DEF NewFirst
  <2>2. /\ InFirst + (Len(inq) + to_copy) = (InFirst + Len(inq)) + to_copy
        /\ (InFirst + (Len(inq) + to_copy)) + (a.avail - to_copy) = (InFirst + Len(inq)) + a.avail
    <3>1. a.avail \in Nat /\ InFirst \in Nat /\ Len(inq) \in Nat /\ to_copy \in 0..a.avail
      BY <1>1, <1>2, Zenon
    <3> QED
      BY <3>1, Moved, ZenonT(30)
  <2> QED
    BY <1>6, <2>1, <2>2, Zenon
<1> QED
  BY <1>5, <1>6, <1>7, <1>8, Zenon DEF FlowInv

\* CopyOut moves the oldest units of the queue behind those of b.
LEMMA FlowCopyOut ==
    ASSUME SyncInv, FlowInv, to_copy <= Len(outq), to_copy <= Free(b, SizeOfB),
           b' = IF to_copy = 0 THEN b ELSE Produce(b, SizeOfB, SubSeq(outq, 1, to_copy)),
           outq' = SubSeq(outq, to_copy + 1, Len(outq)), UNCHANGED <<a, inq, block, heard, sent>>
    PROVE  FlowInv'
<1> DEFINE units == SubSeq(outq, 1, to_copy)
<1>1. /\ StreamType(b, SizeOfB) /\ OutFirst \in Nat /\ b.avail \in Nat /\ heard \in Nat
      /\ SizeOfB \in Nat \ {0} /\ outq \in Seq(Int) /\ Len(outq) \in Nat /\ to_copy \in Nat
      /\ OutFirst = heard + b.avail
  BY Amounts, Sizes, SMTT(30) DEF OutFirst
<1>2. to_copy \in 0..Len(outq)
  BY <1>1
<1>3. units \in Seq(Int) /\ Len(units) = to_copy /\ Len(outq') = Len(outq) - to_copy
  BY <1>1, <1>2, SMTT(20)
<1>4. Consecutive(units, OutFirst) /\ Consecutive(outq', OutFirst + to_copy)
  BY <1>1, <1>2, ConsecutiveSplit, SMTT(30) DEF FlowInv
<1> HIDE DEF units
<1>5. b'.avail = b.avail + to_copy /\ StreamConsecutive(b', SizeOfB, heard)
  <2>1. CASE to_copy = 0
    BY <1>1, <2>1 DEF FlowInv
  <2>2. CASE to_copy # 0
    <3>1. Len(units) \in 1..Free(b, SizeOfB)
      BY <1>1, <1>3, <2>2 DEF Free
    <3>2. b' = Produce(b, SizeOfB, units)
      BY <2>2, Zenon DEF units
    <3>3. StreamConsecutive(b, SizeOfB, heard) /\ Consecutive(units, heard + b.avail)
      BY <1>1, <1>4, Zenon DEF FlowInv
    <3>4. /\ Produce(b, SizeOfB, units).avail = b.avail + Len(units)
          /\ StreamConsecutive(Produce(b, SizeOfB, units), SizeOfB, heard)
      BY <1>1, <1>3, <3>1, <3>3, ProduceConsecutive, Zenon
    <3> QED
      BY <1>3, <3>2, <3>4, Zenon
  <2> QED
    BY <2>1, <2>2, Zenon
<1>6. OutFirst' = OutFirst + to_copy
  BY <1>1, <1>5, SMTT(30) DEF OutFirst
<1>7. BlockFirst' = BlockFirst
  <2>1. BlockFirst' = (OutFirst + to_copy) + (Len(outq) - to_copy) /\ BlockFirst = OutFirst + Len(outq)
    BY <1>3, <1>6, Zenon DEF BlockFirst
  <2>2. ASSUME NEW x \in Nat, NEW k \in Nat, NEW n \in 0..k PROVE (x + n) + (k - n) = x + k
    OBVIOUS
  <2> QED
    BY <1>1, <1>2, <2>1, <2>2, ZenonT(30)
<1>8. InFirst' = InFirst /\ NewFirst' = NewFirst
  BY <1>7, Zenon DEF InFirst, NewFirst
<1> QED
  BY <1>4, <1>5, <1>6, <1>7, <1>8, Zenon DEF FlowInv

\* LL2 takes all units of b.
LEMMA FlowLL2 ==
    ASSUME SyncInv, FlowInv, b.avail >= ChunkOut, b' = Consume(b, SizeOfB, b.avail),
           heard' = (heard + b.avail) % SampleMod, UNCHANGED <<a, inq, outq, block, sent>>
    PROVE  FlowInv'
<1>1. /\ StreamType(a, SizeOfA) /\ StreamType(b, SizeOfB) /\ b.avail \in Nat /\ a.avail \in Nat
      /\ Len(inq) \in Nat /\ Len(outq) \in Nat /\ Len(block) \in Nat
      /\ heard \in Nat /\ OutFirst \in Nat /\ BlockFirst \in Nat /\ InFirst \in Nat /\ NewFirst \in Nat
  BY Amounts, Zenon
<1>2. /\ SampleMod \in Nat \ {0} /\ SizeOfA \in Nat \ {0} /\ SizeOfB \in Nat \ {0}
      /\ b.avail \in 1..b.avail
  BY <1>1, Sizes, SMTT(30)
<1>3. b'.avail = 0 /\ StreamConsecutive(b', SizeOfB, OutFirst)
  <2>1. StreamConsecutive(b, SizeOfB, heard)
    BY Zenon DEF FlowInv
  <2>2. /\ Consume(b, SizeOfB, b.avail).avail = b.avail - b.avail
        /\ StreamConsecutive(Consume(b, SizeOfB, b.avail), SizeOfB, heard + b.avail)
    BY <1>1, <1>2, <2>1, ConsumeConsecutive, Zenon
  <2>3. b.avail - b.avail = 0
    BY <1>1
  <2> QED
    BY <2>2, <2>3, Zenon DEF OutFirst
<1>4. heard' = OutFirst % SampleMod
  BY Zenon DEF OutFirst
<1>5. heard' \in Nat /\ heard' + 0 = heard' /\ OutFirst + 0 = OutFirst
  BY <1>1, <1>2, <1>4, SMTT(30)
<1>6. OutFirst' = heard'
  BY <1>3, <1>5, Zenon DEF OutFirst
<1>7. OutFirst' \in Nat /\ OutFirst' % SampleMod = OutFirst % SampleMod
  <2>1. ((OutFirst % SampleMod) + 0) % SampleMod = (OutFirst + 0) % SampleMod
    BY <1>1, <1>2, ModAdd, Zenon
  <2> QED
    BY <1>4, <1>5, <1>6, <2>1, Zenon
<1>8. BlockFirst' \in Nat /\ BlockFirst' % SampleMod = BlockFirst % SampleMod
  <2>1. BlockFirst' = OutFirst' + Len(outq) /\ BlockFirst = OutFirst + Len(outq)
    BY Zenon DEF BlockFirst
  <2>2. OutFirst' + Len(outq) \in Nat
    BY <1>1, <1>7, Total, Zenon
  <2>3. (OutFirst' + Len(outq)) % SampleMod = (OutFirst + Len(outq)) % SampleMod
    <3>1. OutFirst \in Nat /\ Len(outq) \in Nat
      BY <1>1, Zenon
    <3> QED
      BY <1>7, <3>1, Reanchored, Zenon
  <2> QED
    BY <2>1, <2>2, <2>3, Zenon
<1>9. InFirst' \in Nat /\ InFirst' % SampleMod = InFirst % SampleMod
  <2>1. InFirst' = BlockFirst' + Len(block) /\ InFirst = BlockFirst + Len(block)
    BY Zenon DEF InFirst
  <2>2. BlockFirst' + Len(block) \in Nat
    BY <1>1, <1>8, Total, Zenon
  <2>3. (BlockFirst' + Len(block)) % SampleMod = (BlockFirst + Len(block)) % SampleMod
    <3>1. BlockFirst \in Nat /\ Len(block) \in Nat
      BY <1>1, Zenon
    <3> QED
      BY <1>8, <3>1, Reanchored, Zenon
  <2> QED
    BY <2>1, <2>2, <2>3, Zenon
<1>10. NewFirst' \in Nat /\ NewFirst' % SampleMod = NewFirst % SampleMod
  <2>1. NewFirst' = InFirst' + Len(inq) /\ NewFirst = InFirst + Len(inq)
    BY Zenon DEF NewFirst
  <2>2. InFirst' + Len(inq) \in Nat
    BY <1>1, <1>9, Total, Zenon
  <2>3. (InFirst' + Len(inq)) % SampleMod = (InFirst + Len(inq)) % SampleMod
    <3>1. InFirst \in Nat /\ Len(inq) \in Nat
      BY <1>1, Zenon
    <3> QED
      BY <1>9, <3>1, Reanchored, Zenon
  <2> QED
    BY <2>1, <2>2, <2>3, Zenon
<1>11. StreamConsecutive(b', SizeOfB, heard')
  BY <1>3, <1>5 DEF StreamConsecutive
<1>12. Consecutive(outq', OutFirst') /\ Consecutive(block', BlockFirst') /\ Consecutive(inq', InFirst')
  BY <1>1, <1>7, <1>8, <1>9, SameFirst, SMTT(30) DEF FlowInv
<1>13. StreamConsecutive(a', SizeOfA, NewFirst')
  BY <1>1, <1>2, <1>10, SameFirstStream, SMTT(30) DEF FlowInv
<1>14. (NewFirst' + a.avail) % SampleMod = (NewFirst + a.avail) % SampleMod
  <2>1. NewFirst \in Nat /\ a.avail \in Nat
    BY <1>1, Zenon
  <2> QED
    BY <1>10, <2>1, Reanchored, Zenon
<1> QED
  BY <1>5, <1>11, <1>12, <1>13, <1>14, Zenon DEF FlowInv

\* The DP thread takes the oldest units of its input queue.
LEMMA FlowTake == SyncInv /\ FlowInv /\ DpTake => FlowInv'
<1> SUFFICES ASSUME SyncInv, FlowInv, DpTake PROVE FlowInv'
  BY Zenon
<1>1. /\ inq \in Seq(Int) /\ Len(inq) \in Nat /\ BlockFirst \in Nat /\ InFirst \in Nat
      /\ Block \in Nat
  BY Amounts, Sizes, Zenon
<1>2. Block \in 0..Len(inq) /\ block = <<>>
  BY <1>1 DEF SyncInv, DpTake
<1>3. /\ block' = SubSeq(inq, 1, Block) /\ inq' = SubSeq(inq, Block + 1, Len(inq))
      /\ UNCHANGED <<a, b, outq, heard, sent>>
  BY Zenon DEF DpTake, streams, past
<1>4. Len(block') = Block /\ Len(inq') = Len(inq) - Block
  BY <1>1, <1>2, <1>3
<1>5. Consecutive(block', InFirst) /\ Consecutive(inq', InFirst + Block)
  BY <1>1, <1>2, <1>3, ConsecutiveSplit, Zenon DEF FlowInv
<1>6. InFirst = BlockFirst
  BY <1>1, <1>2 DEF InFirst
<1>7. OutFirst' = OutFirst /\ BlockFirst' = BlockFirst
  BY <1>3, Zenon DEF OutFirst, BlockFirst
<1>8. InFirst' = InFirst + Block
  BY <1>4, <1>6, <1>7, Zenon DEF InFirst
<1>9. NewFirst' = NewFirst
  BY <1>1, <1>4, <1>8 DEF NewFirst
<1> QED
  BY <1>3, <1>5, <1>6, <1>7, <1>8, <1>9, Zenon DEF FlowInv

\* It gives them to its output queue.
LEMMA FlowGive == SyncInv /\ FlowInv /\ DpGive => FlowInv'
<1> SUFFICES ASSUME SyncInv, FlowInv, DpGive PROVE FlowInv'
  OBVIOUS
<1>1. /\ outq \in Seq(Int) /\ Len(outq) \in Nat /\ block \in Seq(Int) /\ Len(block) \in Nat
      /\ OutFirst \in Nat /\ BlockFirst \in Nat /\ BlockFirst = OutFirst + Len(outq)
  BY Amounts, Zenon DEF BlockFirst
<1>2. outq' = outq \o block /\ block' = <<>> /\ UNCHANGED <<a, b, inq, heard, sent>>
  BY Zenon DEF DpGive, streams, past
<1>3. Len(outq') = Len(outq) + Len(block) /\ Len(block') = 0
  BY <1>1, <1>2
<1>4. Consecutive(outq', OutFirst)
  BY <1>1, <1>2, ConsecutiveJoin, Zenon DEF FlowInv
<1>5. Consecutive(block', BlockFirst')
  BY <1>2, <1>3 DEF Consecutive
<1>6. OutFirst' = OutFirst
  BY <1>2, Zenon DEF OutFirst
<1>7. InFirst' = InFirst
  BY <1>1, <1>3, <1>6 DEF InFirst, BlockFirst
<1>8. NewFirst' = NewFirst
  BY <1>2, <1>7, Zenon DEF NewFirst
<1> QED
  BY <1>2, <1>4, <1>5, <1>6, <1>7, <1>8, Zenon DEF FlowInv

LEMMA FlowStep == SyncInv /\ FlowInv /\ [Next]_vars => FlowInv'
<1> SUFFICES ASSUME SyncInv, FlowInv, [Next]_vars PROVE FlowInv'
  BY Zenon
<1>1. CASE LL1
  <2>1. UNCHANGED <<b, inq, outq, block, heard>>
    BY <1>1, Zenon DEF LL1, queues, dp
  <2>2. \/ UNCHANGED <<a, sent>>
        \/ /\ Free(a, SizeOfA) >= ChunkIn
           /\ a' = Produce(a, SizeOfA, [i \in 1..ChunkIn |-> (sent + i - 1) % SampleMod])
           /\ sent' = (sent + ChunkIn) % SampleMod
    BY <1>1, Zenon DEF LL1
  <2> QED
    BY <2>1, <2>2, FlowKept, FlowLL1, Zenon
<1>2. CASE ReadIn \/ ReadOut \/ Tick \/ UNCHANGED vars
  <2>1. UNCHANGED <<a, b, inq, outq, block, heard, sent>>
    BY <1>2, Zenon DEF ReadIn, ReadOut, Tick, vars, streams, queues, dp, past
  <2> QED
    BY <2>1, FlowKept, Zenon
<1>3. CASE CopyIn
  <2>1. to_copy <= a.avail /\ ~(to_copy > a.avail \/ to_copy > SizeOfIn - Len(inq))
    <3>1. to_copy <= a.avail /\ to_copy <= SizeOfIn - Len(inq)
      BY <1>3, Zenon DEF CopyIn, SyncInv
    <3>2. to_copy \in Nat /\ a.avail \in Nat /\ Len(inq) \in Nat /\ SizeOfIn \in Nat
      BY Amounts, Sizes, Zenon
    <3> QED
      BY <3>1, <3>2
  <2>2. /\ inq' = inq \o Oldest(a, SizeOfA, to_copy)
        /\ a' = IF to_copy = 0 THEN a ELSE Consume(a, SizeOfA, to_copy)
        /\ UNCHANGED <<b, outq, block, heard, sent>>
    BY <1>3, <2>1, Zenon DEF CopyIn, dp
  <2> QED
    BY <2>1, <2>2, FlowCopyIn, Zenon
<1>4. CASE CopyOut
  <2>1. /\ to_copy <= Len(outq) /\ to_copy <= Free(b, SizeOfB)
        /\ ~(to_copy > Len(outq) \/ to_copy > Free(b, SizeOfB))
    <3>1. to_copy <= Len(outq) /\ to_copy <= Free(b, SizeOfB)
      BY <1>4, Zenon DEF CopyOut, SyncInv
    <3>2. to_copy \in Nat /\ b.avail \in Nat /\ Len(outq) \in Nat /\ SizeOfB \in Nat
      BY Amounts, Sizes, Zenon
    <3> QED
      BY <3>1, <3>2 DEF Free
  <2>2. /\ b' = IF to_copy = 0 THEN b ELSE Produce(b, SizeOfB, SubSeq(outq, 1, to_copy))
        /\ outq' = SubSeq(outq, to_copy + 1, Len(outq))
        /\ UNCHANGED <<a, inq, block, heard, sent>>
    BY <1>4, <2>1, Zenon DEF CopyOut, dp
  <2> QED
    BY <2>1, <2>2, FlowCopyOut, Zenon
<1>5. CASE LL2
  <2>1. UNCHANGED <<a, inq, outq, block, sent>>
    BY <1>5, Zenon DEF LL2, queues, dp
  <2>2. \/ UNCHANGED <<b, heard>>
        \/ /\ b.avail >= ChunkOut
           /\ b' = Consume(b, SizeOfB, b.avail)
           /\ heard' = (heard + b.avail) % SampleMod
    BY <1>5, Zenon DEF LL2
  <2> QED
    BY <2>1, <2>2, FlowKept, FlowLL2, Zenon
<1> QED
  BY <1>1, <1>2, <1>3, <1>4, <1>5, FlowTake, FlowGive, Zenon DEF Next, LLThread, DpThread

\* What FlowInv says place by place, for all of them in a row.
LEMMA FlowUnbroken == SyncInv /\ FlowInv => Unbroken
<1> SUFFICES ASSUME SyncInv, FlowInv PROVE Unbroken
  BY Zenon
<1> DEFINE B == Contents(b, SizeOfB)
           A == Contents(a, SizeOfA)
           q1 == B \o outq
           q2 == q1 \o block
           q3 == q2 \o inq
           q4 == q3 \o A
<1>1. /\ StreamType(a, SizeOfA) /\ StreamType(b, SizeOfB)
      /\ a.avail \in Nat /\ b.avail \in Nat
      /\ inq \in Seq(Int) /\ outq \in Seq(Int) /\ block \in Seq(Int)
      /\ Len(inq) \in Nat /\ Len(outq) \in Nat /\ Len(block) \in Nat
      /\ heard \in Nat /\ NewFirst \in Nat /\ SizeOfA \in Nat \ {0} /\ SizeOfB \in Nat \ {0}
  BY Amounts, Sizes, Zenon
<1>2. /\ b.avail \in 0..b.avail /\ b.avail <= SizeOfB
      /\ a.avail \in 0..a.avail /\ a.avail <= SizeOfA
  <2>1. b.avail \in 0..SizeOfB /\ a.avail \in 0..SizeOfA
    BY <1>1, Zenon DEF StreamType
  <2>2. ASSUME NEW s \in Nat, NEW n \in 0..s PROVE n \in 0..n /\ n <= s
    OBVIOUS
  <2> QED
    BY <1>1, <2>1, <2>2, Zenon
<1>3. /\ B \in Seq(Int) /\ Len(B) = b.avail /\ A \in Seq(Int) /\ Len(A) = a.avail
  <2>1. B \in Seq(Int) /\ Len(B) = b.avail
    BY <1>1, <1>2, OldestType, ZenonT(40) DEF Contents
  <2>2. A \in Seq(Int) /\ Len(A) = a.avail
    BY <1>1, <1>2, OldestType, ZenonT(40) DEF Contents
  <2> QED BY <2>1, <2>2, Zenon
<1>4. Consecutive(B, heard) /\ Consecutive(A, NewFirst)
  BY <1>1, <1>2, OldestConsecutive, SMTT(30) DEF FlowInv, Contents
<1> HIDE DEF A, B
<1>5. q1 \in Seq(Int) /\ Len(q1) = b.avail + Len(outq)
  <2>1. B \o outq \in Seq(Int) /\ Len(B \o outq) = Len(B) + Len(outq)
    BY <1>1, <1>3, JoinLength, Zenon
  <2> QED
    BY <1>3, <2>1, Zenon
<1>6. Consecutive(q1, heard)
  BY <1>1, <1>3, <1>4, ConsecutiveJoin, Zenon DEF FlowInv, OutFirst
<1> HIDE DEF q1
<1>7. BlockFirst = heard + Len(q1)
  <2>1. BlockFirst = (heard + b.avail) + Len(outq)
    BY Zenon DEF OutFirst, BlockFirst
  <2>2. (heard + b.avail) + Len(outq) = heard + (b.avail + Len(outq))
    <3>1. heard \in Nat /\ b.avail \in Nat /\ Len(outq) \in Nat
      BY <1>1, Zenon
    <3> QED
      BY <3>1, GroupedSum, Zenon
  <2> QED
    BY <1>5, <2>1, <2>2, Zenon
<1>8. q2 \in Seq(Int) /\ Len(q2) = Len(q1) + Len(block)
  BY <1>1, <1>5, JoinLength, Zenon
<1>9. Consecutive(q2, heard)
  BY <1>1, <1>5, <1>6, <1>7, ConsecutiveJoin, Zenon DEF FlowInv
<1> HIDE DEF q2
<1>10. Len(q1) \in Nat /\ Len(q2) \in Nat
  BY <1>5, <1>8
<1>11. InFirst = heard + Len(q2)
  <2>1. InFirst = (heard + Len(q1)) + Len(block)
    BY <1>7, Zenon DEF InFirst
  <2>2. (heard + Len(q1)) + Len(block) = heard + (Len(q1) + Len(block))
    <3>1. heard \in Nat /\ Len(q1) \in Nat /\ Len(block) \in Nat
      BY <1>1, <1>10, Zenon
    <3> QED
      BY <3>1, GroupedSum
  <2> QED
    BY <1>8, <2>1, <2>2, Zenon
<1>12. q3 \in Seq(Int) /\ Len(q3) = Len(q2) + Len(inq)
  BY <1>1, <1>8, JoinLength, Zenon
<1>13. Consecutive(q3, heard)
  BY <1>1, <1>8, <1>9, <1>11, ConsecutiveJoin, Zenon DEF FlowInv
<1> HIDE DEF q3
<1>14. Len(q3) \in Nat
  BY <1>12
<1>15. NewFirst = heard + Len(q3)
  <2>1. NewFirst = (heard + Len(q2)) + Len(inq)
    BY <1>11 DEF NewFirst
  <2>2. (heard + Len(q2)) + Len(inq) = heard + (Len(q2) + Len(inq))
    <3>1. heard \in Nat /\ Len(q2) \in Nat /\ Len(inq) \in Nat
      BY <1>1, <1>10, Zenon
    <3> QED
      BY <3>1, GroupedSum, Zenon
  <2> QED
    BY <1>12, <2>1, <2>2, Zenon
<1>16. q4 \in Seq(Int) /\ Len(q4) = Len(q3) + a.avail
  BY <1>3, <1>12, JoinLength, Zenon
<1>17. Consecutive(q4, heard)
  BY <1>1, <1>3, <1>4, <1>12, <1>13, <1>15, ConsecutiveJoin, SMTT(30)
<1>18. heard + Len(q4) = NewFirst + a.avail
  <2>1. (heard + Len(q3)) + a.avail = heard + (Len(q3) + a.avail)
    <3>1. heard \in Nat /\ Len(q3) \in Nat /\ a.avail \in Nat
      BY <1>1, <1>14, Zenon
    <3> QED
      BY <3>1, GroupedSum, Zenon
  <2> QED
    BY <1>15, <1>16, <2>1, Zenon
<1> HIDE DEF q4
<1>19. InTransit = q4
  BY Zenon DEF InTransit, q1, q2, q3, q4, A, B
<1> QED
  BY <1>17, <1>18, <1>19, Zenon DEF Unbroken, Consecutive, FlowInv

\* For all block sizes, whatever the DP thread does between the steps of an LL
\* cycle and however late it is, what LL1 produces comes to LL2 complete and in
\* order.
THEOREM ArrivesUnbroken == Spec => []Unbroken
<1>1. SyncInv /\ FlowInv => Unbroken
  BY FlowUnbroken, Zenon
<1> QED
  BY <1>1, SyncInit, SyncStep, FlowInit, FlowStep, PTL DEF Spec
=============================================================================
