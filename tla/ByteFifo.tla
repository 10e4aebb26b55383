------------------------------ MODULE ByteFifo ------------------------------
(***************************************************************************)
(* What a sink/source pair promises to the two modules it connects         *)
(* (src/src/include/module/audio/sink_api.h, source_api.h): a bounded FIFO *)
(* of bytes whose head can be lent to the reader, who then gives back a    *)
(* prefix of what was lent.                                                *)
(***************************************************************************)
EXTENDS Integers, Sequences

CONSTANTS Byte,     \* the values a byte can have
          Capacity  \* how many bytes fit

VARIABLES queue,    \* the committed bytes, oldest first
          lent      \* the bytes the reader looks at between get and release

Init == queue = <<>> /\ lent = <<>>

\* The writer commits n bytes at once.
Commit(n) ==
    /\ Len(queue) + n <= Capacity
    /\ \E s \in [1..n -> Byte] : queue' = queue \o s
    /\ UNCHANGED lent

\* The reader borrows the n oldest bytes.
Lend(n) ==
    /\ lent = <<>>
    /\ n <= Len(queue)
    /\ lent' = SubSeq(queue, 1, n)
    /\ UNCHANGED queue

\* The reader returns what it borrowed, having consumed the first n bytes.
GiveBack(n) ==
    /\ lent # <<>>
    /\ n <= Len(lent)
    /\ queue' = SubSeq(queue, n + 1, Len(queue))
    /\ lent' = <<>>

Next == \E n \in 0..Capacity : Commit(n) \/ Lend(n) \/ GiveBack(n)

Spec == Init /\ [][Next]_<<queue, lent>>
=============================================================================
