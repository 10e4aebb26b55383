--------------------------- MODULE ZephyrLLProofs ---------------------------
(***************************************************************************)
(* Proofs about ZephyrLL, for any number of tasks and any priorities.      *)
(***************************************************************************)
EXTENDS ZephyrLL, WellFoundedInduction, TLAPS

-----------------------------------------------------------------------------
(* Lists.                                                                  *)

\* A set of numbers that is not empty has a least one.
LEMMA LeastExists ==
    ASSUME NEW S \in SUBSET Nat, S # {}
    PROVE  Min(S) \in S /\ \A y \in S : Min(S) <= y
<1> DEFINE Less == {ss \in Nat \X Nat : ss[1] < ss[2]}
<1>1. IsWellFoundedOn(Less, Nat)
  BY NatLessThanWellFounded DEF OpToRel
<1> HIDE DEF Less
<1>2. PICK x \in S : \A y \in S : ~(<<y, x>> \in Less)
  BY <1>1, WFMin, Zenon
<1>3. ASSUME NEW y \in S PROVE x <= y
  <2>1. x \in Nat /\ y \in Nat /\ ~(<<y, x>> \in Less)
    BY <1>2
  <2>2. ~(y < x)
    BY <2>1, Zenon DEF Less
  <2> QED
    BY <2>1, <2>2, SMTT(20)
<1> QED
  BY <1>3, Zenon DEF Min

\* A list without repetitions, in terms of positions.
LEMMA Distinct ==
    ASSUME NEW s \in Seq(Task)
    PROVE  IsInjective(s) <=> \A i, j \in 1 .. Len(s) : s[i] = s[j] => i = j
BY DEF IsInjective

\* Two lists in a row.
LEMMA Joined ==
    ASSUME NEW s \in Seq(Task), NEW t \in Seq(Task)
    PROVE  /\ s \o t \in Seq(Task) /\ Len(s \o t) = Len(s) + Len(t)
           /\ \A k \in 1 .. Len(s) + Len(t) :
                 (s \o t)[k] = IF k <= Len(s) THEN s[k] ELSE t[k - Len(s)]
OBVIOUS

\* Taking the element at one position out of a list without repetitions.
LEMMA RemovedAt ==
    ASSUME NEW s \in Seq(Task), IsInjective(s), NEW i \in 1 .. Len(s)
    PROVE  /\ RemoveAt(s, i) \in Seq(Task)
           /\ IsInjective(RemoveAt(s, i))
           /\ Len(RemoveAt(s, i)) = Len(s) - 1
           /\ \A u \in Task : Contains(RemoveAt(s, i), u) <=> Contains(s, u) /\ u # s[i]
<1> DEFINE r == RemoveAt(s, i)
           front == SubSeq(s, 1, i - 1)
           back == SubSeq(s, i + 1, Len(s))
<1>1. Len(s) \in Nat /\ \A j \in 1 .. Len(s) : s[j] \in Task
  OBVIOUS
<1>2. /\ front \in Seq(Task) /\ Len(front) = i - 1
      /\ \A j \in 1 .. i - 1 : front[j] = s[j]
  BY <1>1
<1>3. /\ back \in Seq(Task) /\ Len(back) = Len(s) - i
      /\ \A j \in 1 .. Len(s) - i : back[j] = s[i + j]
  BY <1>1, SMTT(20)
<1>4. /\ r \in Seq(Task) /\ Len(r) = Len(s) - 1
      /\ \A j \in 1 .. Len(s) - 1 : r[j] = IF j < i THEN s[j] ELSE s[j + 1]
  <2> HIDE DEF front, back
  <2>1. r = front \o back
    BY Zenon DEF front, back, RemoveAt
  <2> HIDE DEF r
  <2>2. /\ r \in Seq(Task) /\ Len(r) = Len(front) + Len(back)
        /\ \A j \in 1 .. Len(front) + Len(back) :
              r[j] = IF j <= Len(front) THEN front[j] ELSE back[j - Len(front)]
    BY <1>2, <1>3, <2>1, Joined, Zenon
  <2>3. ASSUME NEW j \in 1 .. Len(s) - 1
        PROVE  r[j] = IF j < i THEN s[j] ELSE s[j + 1]
    <3>0. j \in 1 .. Len(front) + Len(back)
      BY <1>1, <1>2, <1>3, SMTT(20)
    <3>1. CASE j < i
      <4>1. j <= Len(front)
        BY <1>2, <3>1, SMTT(20)
      <4>2. r[j] = front[j]
        BY <2>2, <3>0, <4>1, SMTT(20)
      <4> QED
        BY <1>2, <3>1, <4>2, SMTT(20)
    <3>2. CASE j >= i
      <4>0. ~(j <= Len(front))
        BY <1>2, <3>2, SMTT(20)
      <4>1. j - (i - 1) \in 1 .. Len(s) - i /\ r[j] = back[j - (i - 1)]
        BY <1>1, <1>2, <2>2, <3>0, <3>2, <4>0, SMTT(30)
      <4> QED
        BY <1>1, <1>3, <3>2, <4>1, SMTT(20)
    <3> QED
      BY <1>1, <3>1, <3>2, SMTT(20)
  <2> QED
    BY <1>1, <1>2, <1>3, <2>2, <2>3, SMTT(20)
<1> HIDE DEF r
<1>d. \A j, k \in 1 .. Len(s) : s[j] = s[k] => j = k
  BY Distinct, SMTT(20)
<1>5. IsInjective(r)
  <2>1. \A j, k \in 1 .. Len(r) : r[j] = r[k] => j = k
    BY <1>1, <1>d, <1>4, SMTT(30)
  <2> QED
    BY <1>4, <2>1, Distinct, SMTT(20)
<1>6. \A u \in Task : Contains(r, u) => Contains(s, u) /\ u # s[i]
  BY <1>1, <1>d, <1>4, SMTT(30) DEF Contains
<1>7. ASSUME NEW u \in Task, Contains(s, u), u # s[i] PROVE Contains(r, u)
  <2>1. PICK j \in 1 .. Len(s) : s[j] = u
    BY <1>7, Zenon DEF Contains
  <2>2. CASE j < i
    BY <1>1, <1>4, <2>1, <2>2, SMTT(20) DEF Contains
  <2>3. CASE j > i
    <3>1. j - 1 \in 1 .. Len(r) /\ r[j - 1] = u
      BY <1>1, <1>4, <2>1, <2>3, SMTT(20)
    <3> QED
      BY <3>1, Zenon DEF Contains
  <2> QED
    BY <1>7, <2>1, <2>2, <2>3
<1> QED
  BY <1>4, <1>5, <1>6, <1>7, Zenon DEF r

\* list_item_del: the task is gone, whether it was on this list or not.
LEMMA Removed ==
    ASSUME NEW s \in Seq(Task), IsInjective(s), NEW t \in Task
    PROVE  /\ RemoveFirst(s, t) \in Seq(Task)
           /\ IsInjective(RemoveFirst(s, t))
           /\ Len(RemoveFirst(s, t)) = IF Contains(s, t) THEN Len(s) - 1 ELSE Len(s)
           /\ \A u \in Task : Contains(RemoveFirst(s, t), u) <=> Contains(s, u) /\ u # t
<1>1. CASE Contains(s, t)
  <2> DEFINE S == {i \in 1 .. Len(s) : s[i] = t}
             k == Min(S)
  <2>1. S \in SUBSET Nat /\ S # {}
    BY <1>1 DEF Contains
  <2>2. k \in S
    BY <2>1, LeastExists, Zenon
  <2>3. k \in 1 .. Len(s) /\ s[k] = t
    BY <2>2, Zenon
  <2>4. RemoveFirst(s, t) = RemoveAt(s, k)
    BY <1>1, <2>1 DEF RemoveFirst, SelectInSeq, Contains
  <2> HIDE DEF k
  <2> QED
    BY <1>1, <2>3, <2>4, RemovedAt, SMTT(30)
<1>2. CASE ~Contains(s, t)
  <2>1. RemoveFirst(s, t) = s
    BY <1>2, Zenon DEF RemoveFirst, Contains
  <2> QED
    BY <1>2, <2>1, SMTT(20)
<1> QED
  BY <1>1, <1>2, Zenon

\* Putting a task that is not on a list into it.
LEMMA Inserted ==
    ASSUME NEW s \in Seq(Task), IsInjective(s), NEW i \in 1 .. Len(s) + 1,
           NEW t \in Task, ~Contains(s, t)
    PROVE  /\ InsertAt(s, i, t) \in Seq(Task)
           /\ IsInjective(InsertAt(s, i, t))
           /\ Len(InsertAt(s, i, t)) = Len(s) + 1
           /\ \A u \in Task : Contains(InsertAt(s, i, t), u) <=> Contains(s, u) \/ u = t
<1> DEFINE r == InsertAt(s, i, t)
           front == SubSeq(s, 1, i - 1)
           back == SubSeq(s, i, Len(s))
<1>1. Len(s) \in Nat /\ \A j \in 1 .. Len(s) : s[j] \in Task
  OBVIOUS
<1>2. /\ front \in Seq(Task) /\ Len(front) = i - 1
      /\ \A j \in 1 .. i - 1 : front[j] = s[j]
  BY <1>1
<1>3. /\ back \in Seq(Task) /\ Len(back) = Len(s) - i + 1
      /\ \A j \in 1 .. Len(s) - i + 1 : back[j] = s[i + j - 1]
  BY <1>1
<1>4. /\ r \in Seq(Task) /\ Len(r) = Len(s) + 1
      /\ \A j \in 1 .. Len(s) + 1 :
            r[j] = IF j < i THEN s[j] ELSE IF j = i THEN t ELSE s[j - 1]
  <2> DEFINE mid == front \o <<t>>
  <2>0. mid \in Seq(Task) /\ Len(mid) = i /\ \A j \in 1 .. i : mid[j] = IF j < i THEN s[j] ELSE t
    <3> HIDE DEF front
    <3>1. <<t>> \in Seq(Task) /\ Len(<<t>>) = 1 /\ <<t>>[1] = t
      OBVIOUS
    <3> QED
      BY <1>1, <1>2, <3>1, Joined, SMTT(20)
  <2>1. r = mid \o back
    BY DEF InsertAt
  <2> HIDE DEF front, back, mid, r
  <2>2. /\ r \in Seq(Task) /\ Len(r) = Len(mid) + Len(back)
        /\ \A j \in 1 .. Len(mid) + Len(back) :
              r[j] = IF j <= Len(mid) THEN mid[j] ELSE back[j - Len(mid)]
    BY <1>3, <2>0, <2>1, Joined, Zenon
  <2>3. Len(mid) + Len(back) = Len(s) + 1
    BY <1>1, <1>3, <2>0, SMTT(20)
  <2>4. ASSUME NEW j \in 1 .. Len(s) + 1
        PROVE  r[j] = IF j < i THEN s[j] ELSE IF j = i THEN t ELSE s[j - 1]
    <3>1. CASE j <= i
      <4>1. j \in 1 .. i /\ j <= Len(mid)
        BY <2>0, <3>1, SMTT(20)
      <4>2. r[j] = mid[j]
        BY <2>2, <2>3, <4>1, SMTT(20)
      <4> QED
        BY <2>0, <3>1, <4>1, <4>2, SMTT(20)
    <3>2. CASE j > i
      <4>1. ~(j <= Len(mid)) /\ j - i \in 1 .. Len(s) - i + 1 /\ j - Len(mid) = j - i
        BY <1>1, <2>0, <3>2, SMTT(20)
      <4>3. back[j - i] = s[i + (j - i) - 1] /\ i + (j - i) - 1 = j - 1
        BY <1>1, <1>3, <4>1, SMTT(20)
      <4>2. r[j] = back[j - Len(mid)]
        BY <2>2, <2>3, <4>1, SMTT(30)
      <4> QED
        BY <3>2, <4>1, <4>2, <4>3, SMTT(20)
    <3> QED
      BY <1>1, <3>1, <3>2, SMTT(20)
  <2> QED
    BY <2>2, <2>3, <2>4, Zenon
<1> HIDE DEF r
<1>5. IsInjective(r)
  <2>0. \A j, k \in 1 .. Len(s) : s[j] = s[k] => j = k
    BY Distinct, Zenon
  <2>2. \A j \in 1 .. Len(s) : s[j] # t
    BY DEF Contains
  <2>1. ASSUME NEW j \in 1 .. Len(r), NEW k \in 1 .. Len(r), r[j] = r[k] PROVE j = k
    <3> DEFINE old(l) == IF l < i THEN l ELSE l - 1
    <3>1. ASSUME NEW l \in 1 .. Len(r), l # i
          PROVE  old(l) \in 1 .. Len(s) /\ r[l] = s[old(l)]
      BY <1>1, <1>4, <3>1, SMTT(20)
    <3>2. r[i] = t /\ i \in 1 .. Len(r)
      BY <1>1, <1>4, SMTT(20)
    <3>3. j # i /\ k # i => old(j) = old(k)
      BY <2>0, <2>1, <3>1, Zenon
    <3>4. j # i /\ k # i => j = k
      BY <1>1, <1>4, <3>3, SMTT(20)
    <3> QED
      BY <2>1, <2>2, <3>1, <3>2, <3>4, SMTT(30)
  <2> QED
    BY <1>4, <2>1, Distinct, SMTT(20)
<1>6. ASSUME NEW u \in Task, Contains(r, u) PROVE Contains(s, u) \/ u = t
  <2>1. PICK k \in 1 .. Len(r) : r[k] = u
    BY <1>6, Zenon DEF Contains
  <2>2. CASE k = i
    BY <1>1, <1>4, <2>1, <2>2, SMTT(20)
  <2>3. CASE k < i
    <3>1. k \in 1 .. Len(s) /\ s[k] = u
      BY <1>1, <1>4, <2>1, <2>3, SMTT(20)
    <3> QED
      BY <3>1, Zenon DEF Contains
  <2>4. CASE k > i
    <3>1. k - 1 \in 1 .. Len(s) /\ s[k - 1] = u
      BY <1>1, <1>4, <2>1, <2>4, SMTT(20)
    <3> QED
      BY <3>1, Zenon DEF Contains
  <2>5. k \in Int /\ i \in Int
    OBVIOUS
  <2> QED
    BY <2>2, <2>3, <2>4, <2>5, SMTT(20)
<1>7. Contains(r, t)
  BY <1>1, <1>4, SMTT(20) DEF Contains
<1>8. ASSUME NEW u \in Task, Contains(s, u) PROVE Contains(r, u)
  <2>1. PICK j \in 1 .. Len(s) : s[j] = u
    BY <1>8, SMTT(20) DEF Contains
  <2>2. CASE j < i
    BY <1>1, <1>4, <2>1, <2>2, SMTT(30) DEF Contains
  <2>3. CASE j >= i
    <3>1. j + 1 \in 1 .. Len(r) /\ r[j + 1] = u
      BY <1>1, <1>4, <2>1, <2>3, SMTT(20)
    <3> QED
      BY <3>1 DEF Contains
  <2> QED
    BY <2>1, <2>2, <2>3, SMTT(20)
<1> QED
  BY <1>4, <1>5, <1>6, <1>7, <1>8, SMTT(20) DEF r

\* The same at the end.
LEMMA Appended ==
    ASSUME NEW s \in Seq(Task), IsInjective(s), NEW t \in Task, ~Contains(s, t)
    PROVE  /\ Append(s, t) \in Seq(Task)
           /\ IsInjective(Append(s, t))
           /\ Len(Append(s, t)) = Len(s) + 1
           /\ \A u \in Task : Contains(Append(s, t), u) <=> Contains(s, u) \/ u = t
<1> DEFINE r == Append(s, t)
<1>1. Len(s) \in Nat /\ \A j \in 1 .. Len(s) : s[j] \in Task
  OBVIOUS
<1>2. /\ r \in Seq(Task) /\ Len(r) = Len(s) + 1
      /\ \A j \in 1 .. Len(s) : r[j] = s[j]
      /\ r[Len(s) + 1] = t
  OBVIOUS
<1> HIDE DEF r
<1>3. IsInjective(r)
  <2>0. \A j, k \in 1 .. Len(s) : s[j] = s[k] => j = k
    BY Distinct, Zenon
  <2>1. \A j, k \in 1 .. Len(r) : r[j] = r[k] => j = k
    BY <1>1, <1>2, <2>0, SMTT(20) DEF Contains
  <2> QED
    BY <1>2, <2>1, Distinct, SMTT(20)
<1>4. \A u \in Task : Contains(r, u) <=> Contains(s, u) \/ u = t
  BY <1>1, <1>2, SMTT(20) DEF Contains
<1> QED
  BY <1>2, <1>3, <1>4, Zenon DEF r

\* Taking the first task off a list.
LEMMA Popped ==
    ASSUME NEW s \in Seq(Task), IsInjective(s), s # <<>>
    PROVE  /\ Head(s) \in Task /\ Contains(s, Head(s))
           /\ Tail(s) \in Seq(Task)
           /\ IsInjective(Tail(s))
           /\ Len(Tail(s)) = Len(s) - 1
           /\ \A u \in Task : Contains(Tail(s), u) <=> Contains(s, u) /\ u # Head(s)
<1> DEFINE r == Tail(s)
<1>1. Len(s) \in Nat /\ Len(s) > 0 /\ \A j \in 1 .. Len(s) : s[j] \in Task
  OBVIOUS
<1>2. Head(s) = s[1] /\ Head(s) \in Task
  BY <1>1
<1>3. /\ r \in Seq(Task) /\ Len(r) = Len(s) - 1
      /\ \A j \in 1 .. Len(s) - 1 : r[j] = s[j + 1]
  OBVIOUS
<1> HIDE DEF r
<1>d. \A j, k \in 1 .. Len(s) : s[j] = s[k] => j = k
  BY Distinct
<1>4. IsInjective(r)
  <2>1. \A j, k \in 1 .. Len(r) : r[j] = r[k] => j = k
    BY <1>1, <1>d, <1>3, SMTT(30)
  <2> QED
    BY <1>3, <2>1, Distinct, SMTT(20)
<1>5. \A u \in Task : Contains(r, u) => Contains(s, u) /\ u # Head(s)
  BY <1>1, <1>2, <1>d, <1>3, SMTT(20) DEF Contains
<1>6. ASSUME NEW u \in Task, Contains(s, u), u # Head(s) PROVE Contains(r, u)
  <2>1. PICK j \in 1 .. Len(s) : s[j] = u
    BY <1>6 DEF Contains
  <2>2. j - 1 \in 1 .. Len(r) /\ r[j - 1] = u
    BY <1>1, <1>2, <1>3, <1>6, <2>1, SMTT(20)
  <2> QED
    BY <2>2 DEF Contains
<1>7. Contains(s, Head(s))
  BY <1>1, <1>2, SMTT(20) DEF Contains
<1> QED
  BY <1>2, <1>3, <1>4, <1>5, <1>6, <1>7, Zenon DEF r

\* The empty list.
LEMMA EmptyList ==
    /\ <<>> \in Seq(Task) /\ IsInjective(<<>>) /\ Len(<<>>) = 0
    /\ \A u : ~Contains(<<>>, u)
  BY DEF IsInjective, Contains

\* Where zephyr_ll_task_insert_unlocked finds a task of a lower priority, and
\* where the insertions by reference find the reference; 0 if they do not.
PlaceOfLower(s, t) == SelectInSeq(s, LAMBDA u : Priority[t] < Priority[u])
PlaceOf(s, ref) == SelectInSeq(s, LAMBDA u : u = ref)

LEMMA PriorityPosition ==
    ASSUME NEW s \in Seq(Task), NEW t \in Task
    PROVE  PlaceOfLower(s, t) \in 0 .. Len(s)
<1> DEFINE S == {i \in 1 .. Len(s) : Priority[t] < Priority[s[i]]}
<1>1. S \in SUBSET Nat /\ S \subseteq 1 .. Len(s) /\ Len(s) \in Nat
  OBVIOUS
<1>2. PlaceOfLower(s, t) = IF S # {} THEN Min(S) ELSE 0
  BY DEF PlaceOfLower, SelectInSeq
<1> HIDE DEF S
<1>3. CASE S = {}
  BY <1>1, <1>2, <1>3, SMTT(20)
<1>4. CASE S # {}
  <2>1. Min(S) \in 1 .. Len(s)
    BY <1>1, <1>4, LeastExists, Zenon
  <2> QED
    BY <1>1, <1>2, <1>4, <2>1, SMTT(20)
<1> QED
  BY <1>3, <1>4, Zenon

LEMMA ReferencePosition ==
    ASSUME NEW s \in Seq(Task), NEW ref \in Task, Contains(s, ref)
    PROVE  PlaceOf(s, ref) \in 1 .. Len(s)
<1> DEFINE S == {i \in 1 .. Len(s) : s[i] = ref}
<1>1. S \in SUBSET Nat /\ S \subseteq 1 .. Len(s) /\ S # {}
  BY DEF Contains
<1>2. PlaceOf(s, ref) = Min(S)
  BY <1>1 DEF PlaceOf, SelectInSeq
<1> HIDE DEF S
<1> QED
  BY <1>1, <1>2, LeastExists, Zenon

\* Lists of tasks stay lists of tasks, also with a task linked twice.
LEMMA RemovedType ==
    ASSUME NEW s \in Seq(Task), NEW t
    PROVE  RemoveFirst(s, t) \in Seq(Task)
<1> DEFINE S == {i \in 1 .. Len(s) : s[i] = t}
<1>1. CASE \E i \in 1 .. Len(s) : s[i] = t
  <2>1. S \in SUBSET Nat /\ S \subseteq 1 .. Len(s) /\ S # {}
    BY <1>1
  <2>2. RemoveFirst(s, t) = RemoveAt(s, Min(S))
    BY <1>1, <2>1, SMTT(20) DEF RemoveFirst, SelectInSeq
  <2> HIDE DEF S
  <2>3. Min(S) \in 1 .. Len(s)
    BY <2>1, LeastExists, Zenon
  <2> QED
    BY <2>2, <2>3, SMTT(30) DEF RemoveAt
<1>2. CASE ~\E i \in 1 .. Len(s) : s[i] = t
  BY <1>2, Zenon DEF RemoveFirst
<1> QED
  BY <1>1, <1>2, Zenon

LEMMA InsertedType ==
    ASSUME NEW s \in Seq(Task), NEW i \in 1 .. Len(s) + 1, NEW t \in Task
    PROVE  InsertAt(s, i, t) \in Seq(Task)
<1>1. SubSeq(s, 1, i - 1) \in Seq(Task) /\ SubSeq(s, i, Len(s)) \in Seq(Task)
  OBVIOUS
<1>2. <<t>> \in Seq(Task)
  OBVIOUS
<1> QED
  BY <1>1, <1>2, Joined, Zenon DEF InsertAt

LEMMA NextToType ==
    ASSUME NEW s \in Seq(Task), NEW t \in Task, NEW ref \in Task, NEW offset \in {0, 1}
    PROVE  InsertNextTo(s, t, ref, offset) \in Seq(Task)
<1>1. CASE Contains(s, ref)
  <2>1. PlaceOf(s, ref) + offset \in 1 .. Len(s) + 1
    BY <1>1, ReferencePosition, SMTT(20)
  <2>2. InsertNextTo(s, t, ref, offset) = InsertAt(s, PlaceOf(s, ref) + offset, t)
    BY <1>1, Zenon DEF InsertNextTo, PlaceOf
  <2> QED
    BY <2>1, <2>2, InsertedType, Zenon
<1> QED
  BY <1>1, Zenon DEF InsertNextTo

-----------------------------------------------------------------------------
(* Every client, also one that uses references at any time or revives      *)
(* cancelled tasks.                                                        *)

LEMMA InitType == Init => TypeOK /\ ThreadForTasks
<1> SUFFICES ASSUME Init PROVE TypeOK /\ ThreadForTasks
  OBVIOUS
<1>1. TypeOK
  BY LimitAssumption DEF Init, TypeOK, States
<1> QED
  BY <1>1 DEF Init, ThreadForTasks

\* zephyr_ll_task_done keeps the types, wherever it is called from.
LEMMA DoneType ==
    ASSUME TypeOK, NEW t \in Task \union {None}, NEW pc \in {"idle", "head", "exec", "none"},
           TaskDone(t, pc)
    PROVE  /\ tasks' \in Seq(Task) /\ temp' \in Seq(Task)
           /\ n_tasks' \in Nat /\ state' \in [Task -> States] /\ sem' \in [Task -> {0, 1}]
           /\ llpc' \in {"none", "idle", "head", "exec"} /\ current' \in Task \union {None}
           /\ n_tasks' = 0 \/ llpc' = pc
<1> USE DEF TypeOK, TaskDone
<1>1. tasks' \in Seq(Task) /\ temp' \in Seq(Task)
  BY RemovedType, Zenon
<1>2. n_tasks' \in Nat /\ (n_tasks' = 0 \/ llpc' = pc)
  OBVIOUS
<1>3. state' \in [Task -> States]
  BY Zenon DEF States
<1> QED
  BY <1>1, <1>2, <1>3, SMTT(20)

LEMMA StepType == TypeOK /\ ThreadForTasks /\ [Next]_vars => TypeOK' /\ ThreadForTasks'
<1> SUFFICES ASSUME TypeOK, ThreadForTasks, [Next]_vars PROVE TypeOK' /\ ThreadForTasks'
  OBVIOUS
<1>1. ASSUME NEW t \in Task, TaskInit(t) PROVE TypeOK' /\ ThreadForTasks'
  BY <1>1, Zenon DEF TypeOK, ThreadForTasks, TaskInit, States, lists, thread, pdata
<1>2. ASSUME NEW t \in Task, ScheduleCancelled(t) PROVE TypeOK' /\ ThreadForTasks'
  BY <1>2, Zenon DEF TypeOK, ThreadForTasks, ScheduleCancelled, States, lists, thread, pdata
<1>3. ASSUME NEW t \in Task, Schedule(t) PROVE TypeOK' /\ ThreadForTasks'
  <2> DEFINE pos == PlaceOfLower(tasks, t)
  <2>1. pos \in 0 .. Len(tasks) /\ Len(tasks) \in Nat
    BY PriorityPosition DEF TypeOK
  <2>2. tasks' = (IF pos = 0 THEN Append(tasks, t) ELSE InsertAt(tasks, pos, t))
    BY <1>3 DEF Schedule, InsertByPriority, PlaceOfLower
  <2> HIDE DEF pos
  <2>3. tasks' \in Seq(Task)
    <3>1. CASE pos = 0
      BY <2>2, <3>1 DEF TypeOK
    <3>2. CASE pos # 0
      <4>1. pos \in 1 .. Len(tasks) + 1
        BY <2>1, <3>2, SMTT(20)
      <4> QED
        BY <2>2, <3>2, <4>1, InsertedType, Zenon DEF TypeOK
    <3> QED
      BY <3>1, <3>2, Zenon
  <2>4. temp' \in Seq(Task) /\ state' \in [Task -> States] /\ n_tasks' \in Nat
    BY <1>3 DEF TypeOK, Schedule, InsertByPriority, Queued, States
  <2> QED
    BY <1>3, <2>3, <2>4, SMTT(20) DEF TypeOK, ThreadForTasks, Schedule, Queued, thread, pdata
<1>4. ASSUME NEW t \in Task, NEW ref \in Task, NEW offset \in {0, 1},
             ScheduleByReference(t, ref, offset)
      PROVE  TypeOK' /\ ThreadForTasks'
  <2>1. tasks' \in Seq(Task) /\ temp' \in Seq(Task)
    BY <1>4, NextToType, Zenon DEF TypeOK, ScheduleByReference, InsertByReference
  <2>2. state' = state /\ n_tasks' \in Nat
    BY <1>4 DEF TypeOK, ScheduleByReference, InsertByReference, Queued
  <2> QED
    BY <1>4, <2>1, <2>2, Zenon DEF TypeOK, ThreadForTasks, ScheduleByReference, Queued, thread, pdata
<1>5. ASSUME NEW t \in Task, Register(t) PROVE TypeOK' /\ ThreadForTasks'
  BY <1>5, LimitAssumption, SMTT(20) DEF TypeOK, ThreadForTasks, Register, lists, thread, pdata
<1>6. ASSUME NEW t \in Task, TaskCancel(t) PROVE TypeOK' /\ ThreadForTasks'
  BY <1>6, Zenon DEF TypeOK, ThreadForTasks, TaskCancel, States, lists, thread, pdata
<1>7. ASSUME NEW t \in Task, FreeStart(t) PROVE TypeOK' /\ ThreadForTasks'
  <2>1. freer' \in [Task -> {"no", "wait", "finish"}] /\ freeing' \in [Task -> BOOLEAN]
    BY <1>7, Zenon DEF TypeOK, FreeStart
  <2>2. CASE state[t] \in {"INIT", "FREE"} \/ MustWait(t)
    BY <1>7, <2>1, <2>2, SMTT(20) DEF TypeOK, ThreadForTasks, FreeStart, lists, thread
  <2>3. CASE ~(state[t] \in {"INIT", "FREE"} \/ MustWait(t))
    <3>1. TaskDone(t, llpc) /\ UNCHANGED ticks
      BY <1>7, <2>3, SMTT(20) DEF FreeStart
    <3>2. n_tasks > 0 /\ n_tasks \in Nat
      BY <3>1, Zenon DEF TaskDone, TypeOK
    <3>3. llpc \in {"idle", "head", "exec", "none"}
      BY DEF TypeOK
    <3> QED
      BY <1>7, <2>1, <3>1, <3>2, <3>3, DoneType, SMTT(20) DEF TypeOK, ThreadForTasks, FreeStart
  <2> QED
    BY <2>2, <2>3, SMTT(20)
<1>8. ASSUME NEW t \in Task, FreeWake(t) PROVE TypeOK' /\ ThreadForTasks'
  BY <1>8 DEF TypeOK, ThreadForTasks, FreeWake, lists, thread
<1>9. ASSUME NEW t \in Task, FreeFinish(t) PROVE TypeOK' /\ ThreadForTasks'
  BY <1>9, Zenon DEF TypeOK, ThreadForTasks, FreeFinish, lists, thread
<1>10. CASE Tick
  BY <1>10, LimitAssumption, SMTT(20) DEF TypeOK, ThreadForTasks, Tick, lists, pdata
<1>11. CASE CycleStart
  BY <1>11, LimitAssumption, SMTT(20) DEF TypeOK, ThreadForTasks, CycleStart, lists, pdata
<1>12. CASE LoopCancel
  <2>1. Head(tasks) \in Task
    BY <1>12 DEF TypeOK, LoopCancel
  <2>2. TaskDone(Head(tasks), "head")
    BY <1>12, SMTT(20) DEF LoopCancel
  <2> QED
    BY <1>12, <2>1, <2>2, DoneType, SMTT(20) DEF TypeOK, ThreadForTasks, LoopCancel
<1>13. CASE LoopRun
  <2>1. Head(tasks) \in Task /\ tasks' \in Seq(Task) /\ temp' \in Seq(Task)
    BY <1>13 DEF TypeOK, LoopRun
  <2>2. state' \in [Task -> States] /\ run' \in [Task -> BOOLEAN]
    BY <1>13, <2>1, Zenon DEF TypeOK, LoopRun, States
  <2> QED
    BY <1>13, <2>1, <2>2, SMTT(20) DEF TypeOK, ThreadForTasks, LoopRun
<1>14. ASSUME NEW completed \in BOOLEAN, RunReturn(completed) PROVE TypeOK' /\ ThreadForTasks'
  <2>1. \/ TaskDone(current, "head")
        \/ llpc' = "head" /\ current' = None /\ UNCHANGED <<lists, state, sem>>
    BY <1>14, Zenon DEF RunReturn
  <2>2. UNCHANGED <<priv_data, run, freeing, ticks, registering, freer>>
    BY <1>14 DEF RunReturn
  <2>3. CASE TaskDone(current, "head")
    <3>1. current \in Task \union {None}
      BY DEF TypeOK
    <3> QED
      BY <2>2, <2>3, <3>1, DoneType, SMTT(20) DEF TypeOK, ThreadForTasks
  <2>4. CASE llpc' = "head" /\ current' = None /\ UNCHANGED <<lists, state, sem>>
    BY <2>2, <2>4, SMTT(20) DEF TypeOK, ThreadForTasks, lists
  <2> QED
    BY <2>1, <2>3, <2>4, SMTT(20)
<1>15. CASE LoopEnd
  BY <1>15 DEF TypeOK, ThreadForTasks, LoopEnd, pdata
<1>16. CASE UNCHANGED vars
  BY <1>16 DEF TypeOK, ThreadForTasks, vars, lists, pdata, thread
<1> QED
  BY <1>1, <1>2, <1>3, <1>4, <1>5, <1>6, <1>7, <1>8, <1>9, <1>10, <1>11, <1>12, <1>13, <1>14,
     <1>15, <1>16, Zenon
  DEF Next, LLThread, Client

(* The variables of the scheduler keep their types, whatever clients do.   *)
THEOREM TypeCorrect == Spec => []TypeOK
  BY InitType, StepType, PTL DEF Spec

(* As long as there are tasks there is a thread to run them, once the      *)
(* domain_register calls under way are through: schedule_common counts a   *)
(* task before it registers it, and zephyr_ll_task_done aborts the thread  *)
(* only with the last one.  It holds for every client, also for those that *)
(* get a task linked twice.                                                *)
THEOREM ThreadKept == Spec => []ThreadForTasks
  BY InitType, StepType, PTL DEF Spec

-----------------------------------------------------------------------------
(* Clients that do not revive a cancelled task within the cycle, whose     *)
(* tasks return within 100 periods, and that let a task queued by          *)
(* reference run before they schedule or free it.                          *)

Considerate == References # "any" /\ ~Revival /\ ~Overrun

\* What zephyr_ll_task_done does to the lists.
LEMMA DoneLists ==
    ASSUME TypeOK, Linked, NEW t \in Task, OnList(t), NEW pc, TaskDone(t, pc)
    PROVE  /\ Linked'
           /\ \A u \in Task : /\ Contains(tasks', u) <=> Contains(tasks, u) /\ u # t
                              /\ Contains(temp', u) <=> Contains(temp, u) /\ u # t
<1>1. tasks' = RemoveFirst(tasks, t) /\ temp' = RemoveFirst(temp, t) /\ n_tasks' = n_tasks - 1
  BY Zenon DEF TaskDone
<1>2. tasks \in Seq(Task) /\ temp \in Seq(Task) /\ Len(tasks) \in Nat /\ Len(temp) \in Nat
  BY DEF TypeOK
<1>3. /\ IsInjective(tasks) /\ IsInjective(temp) /\ n_tasks = Len(tasks) + Len(temp)
      /\ \A u \in Task : ~(Contains(tasks, u) /\ Contains(temp, u))
  BY DEF Linked
<1>4. /\ IsInjective(tasks')
      /\ Len(tasks') = IF Contains(tasks, t) THEN Len(tasks) - 1 ELSE Len(tasks)
      /\ \A u \in Task : Contains(tasks', u) <=> Contains(tasks, u) /\ u # t
  BY <1>1, <1>2, <1>3, Removed, Zenon
<1>5. /\ IsInjective(temp')
      /\ Len(temp') = IF Contains(temp, t) THEN Len(temp) - 1 ELSE Len(temp)
      /\ \A u \in Task : Contains(temp', u) <=> Contains(temp, u) /\ u # t
  BY <1>1, <1>2, <1>3, Removed, Zenon
<1>6. n_tasks' = Len(tasks') + Len(temp')
  <2>1. CASE Contains(tasks, t)
    <3>1. Len(tasks') = Len(tasks) - 1 /\ Len(temp') = Len(temp)
      BY <1>3, <1>4, <1>5, <2>1, Zenon
    <3> QED
      BY <1>1, <1>2, <1>3, <3>1, SMTT(20)
  <2>2. CASE Contains(temp, t)
    <3>1. Len(tasks') = Len(tasks) /\ Len(temp') = Len(temp) - 1
      BY <1>3, <1>4, <1>5, <2>2, SMTT(20)
    <3> QED
      BY <1>1, <1>2, <1>3, <3>1, SMTT(20)
  <2> QED
    BY <2>1, <2>2, Zenon DEF OnList
<1> QED
  BY <1>3, <1>4, <1>5, <1>6, SMTT(20) DEF Linked

\* What zephyr_ll_task_insert_unlocked does to the lists.
LEMMA PriorityLists ==
    ASSUME TypeOK, Linked, NEW t \in Task, ~OnList(t), InsertByPriority(t),
           n_tasks' = n_tasks + 1
    PROVE  /\ Linked'
           /\ \A u \in Task : /\ Contains(tasks', u) <=> Contains(tasks, u) \/ u = t
                              /\ Contains(temp', u) <=> Contains(temp, u)
<1> DEFINE pos == PlaceOfLower(tasks, t)
<1>1. tasks \in Seq(Task) /\ temp \in Seq(Task) /\ Len(tasks) \in Nat /\ Len(temp) \in Nat
  BY DEF TypeOK
<1>2. /\ IsInjective(tasks) /\ IsInjective(temp) /\ n_tasks = Len(tasks) + Len(temp)
      /\ \A u \in Task : ~(Contains(tasks, u) /\ Contains(temp, u))
  BY DEF Linked
<1>3. ~Contains(tasks, t) /\ ~Contains(temp, t) /\ temp' = temp
  BY Zenon DEF OnList, InsertByPriority
<1>4. pos \in 0 .. Len(tasks)
  BY <1>1, PriorityPosition, Zenon
<1>5. tasks' = (IF pos = 0 THEN Append(tasks, t) ELSE InsertAt(tasks, pos, t))
  BY DEF InsertByPriority, PlaceOfLower
<1> HIDE DEF pos
<1>6. /\ IsInjective(tasks') /\ Len(tasks') = Len(tasks) + 1
      /\ \A u \in Task : Contains(tasks', u) <=> Contains(tasks, u) \/ u = t
  <2>1. CASE pos = 0
    BY <1>1, <1>2, <1>3, <1>5, <2>1, Appended, Zenon
  <2>2. CASE pos # 0
    <3>1. pos \in 1 .. Len(tasks) + 1
      BY <1>1, <1>4, <2>2, SMTT(20)
    <3> QED
      BY <1>1, <1>2, <1>3, <1>5, <2>2, <3>1, Inserted, SMTT(20)
  <2> QED
    BY <2>1, <2>2, SMTT(20)
<1>7. n_tasks' = Len(tasks') + Len(temp')
  BY <1>1, <1>2, <1>3, <1>6, SMTT(20)
<1> QED
  BY <1>2, <1>3, <1>6, <1>7, SMTT(20) DEF Linked

\* What the insertions by reference do to one list.
LEMMA NextToLists ==
    ASSUME NEW s \in Seq(Task), IsInjective(s), NEW t \in Task, NEW ref \in Task,
           NEW offset \in {0, 1}, ~Contains(s, t)
    PROVE  LET r == InsertNextTo(s, t, ref, offset)
           IN  /\ IsInjective(r)
               /\ Len(r) = IF Contains(s, ref) THEN Len(s) + 1 ELSE Len(s)
               /\ \A u \in Task : Contains(r, u) <=> Contains(s, u) \/ (u = t /\ Contains(s, ref))
<1>1. CASE Contains(s, ref)
  <2>1. PlaceOf(s, ref) + offset \in 1 .. Len(s) + 1
    BY <1>1, ReferencePosition, SMTT(20)
  <2>2. InsertNextTo(s, t, ref, offset) = InsertAt(s, PlaceOf(s, ref) + offset, t)
    BY <1>1 DEF InsertNextTo, PlaceOf
  <2> QED
    BY <1>1, <2>1, <2>2, Inserted, SMTT(20)
<1>2. CASE ~Contains(s, ref)
  <2>1. InsertNextTo(s, t, ref, offset) = s
    BY <1>2 DEF InsertNextTo
  <2> QED
    BY <1>2, <2>1
<1> QED
  BY <1>1, <1>2, SMTT(20)

\* What they do to both, when the reference is on one of them.
LEMMA ReferenceLists ==
    ASSUME TypeOK, Linked, NEW t \in Task, NEW ref \in Task, NEW offset \in {0, 1},
           ~OnList(t), OnList(ref), InsertByReference(t, ref, offset), n_tasks' = n_tasks + 1
    PROVE  /\ Linked'
           /\ \A u \in Task :
                 /\ Contains(tasks', u) <=> Contains(tasks, u) \/ (u = t /\ Contains(tasks, ref))
                 /\ Contains(temp', u) <=> Contains(temp, u) \/ (u = t /\ Contains(temp, ref))
<1>1. tasks \in Seq(Task) /\ temp \in Seq(Task) /\ Len(tasks) \in Nat /\ Len(temp) \in Nat
  BY DEF TypeOK
<1>2. /\ IsInjective(tasks) /\ IsInjective(temp) /\ n_tasks = Len(tasks) + Len(temp)
      /\ \A u \in Task : ~(Contains(tasks, u) /\ Contains(temp, u))
  BY DEF Linked
<1>3. ~Contains(tasks, t) /\ ~Contains(temp, t)
  BY Zenon DEF OnList
<1>4. /\ tasks' = InsertNextTo(tasks, t, ref, offset)
      /\ temp' = InsertNextTo(temp, t, ref, offset)
  BY Zenon DEF InsertByReference
<1>5. /\ IsInjective(tasks')
      /\ Len(tasks') = IF Contains(tasks, ref) THEN Len(tasks) + 1 ELSE Len(tasks)
      /\ \A u \in Task : Contains(tasks', u) <=> Contains(tasks, u) \/ (u = t /\ Contains(tasks, ref))
  BY <1>1, <1>2, <1>3, <1>4, NextToLists, SMTT(20)
<1>6. /\ IsInjective(temp')
      /\ Len(temp') = IF Contains(temp, ref) THEN Len(temp) + 1 ELSE Len(temp)
      /\ \A u \in Task : Contains(temp', u) <=> Contains(temp, u) \/ (u = t /\ Contains(temp, ref))
  BY <1>1, <1>2, <1>3, <1>4, NextToLists, SMTT(20)
<1>7. n_tasks' = Len(tasks') + Len(temp')
  <2>1. CASE Contains(tasks, ref)
    <3>1. Len(tasks') = Len(tasks) + 1 /\ Len(temp') = Len(temp)
      BY <1>2, <1>5, <1>6, <2>1, SMTT(20)
    <3> QED
      BY <1>1, <1>2, <3>1, SMTT(20)
  <2>2. CASE Contains(temp, ref)
    <3>1. Len(tasks') = Len(tasks) /\ Len(temp') = Len(temp) + 1
      BY <1>2, <1>5, <1>6, <2>2, Zenon
    <3> QED
      BY <1>1, <1>2, <3>1, SMTT(20)
  <2> QED
    BY <2>1, <2>2, Zenon DEF OnList
<1> QED
  BY <1>2, <1>3, <1>5, <1>6, <1>7, Zenon DEF Linked

\* What moving the head of the list to the temporary list does.
LEMMA MovedLists ==
    ASSUME TypeOK, Linked, LoopRun
    PROVE  /\ Linked' /\ Head(tasks) \in Task /\ Contains(tasks, Head(tasks))
           /\ \A u \in Task : /\ Contains(tasks', u) <=> Contains(tasks, u) /\ u # Head(tasks)
                              /\ Contains(temp', u) <=> Contains(temp, u) \/ u = Head(tasks)
<1> DEFINE t == Head(tasks)
<1>1. tasks \in Seq(Task) /\ temp \in Seq(Task) /\ Len(tasks) \in Nat /\ Len(temp) \in Nat
  BY DEF TypeOK
<1>2. /\ IsInjective(tasks) /\ IsInjective(temp) /\ n_tasks = Len(tasks) + Len(temp)
      /\ \A u \in Task : ~(Contains(tasks, u) /\ Contains(temp, u))
  BY DEF Linked
<1>3. tasks # <<>> /\ tasks' = Tail(tasks) /\ temp' = Append(temp, t) /\ n_tasks' = n_tasks
  BY Zenon DEF LoopRun
<1> HIDE DEF t
<1>4. /\ t \in Task /\ Contains(tasks, t) /\ IsInjective(tasks') /\ Len(tasks') = Len(tasks) - 1
      /\ \A u \in Task : Contains(tasks', u) <=> Contains(tasks, u) /\ u # t
  BY <1>1, <1>2, <1>3, Popped, SMTT(20) DEF t
<1>5. ~Contains(temp, t)
  BY <1>2, <1>4, SMTT(20)
<1>6. /\ IsInjective(temp') /\ Len(temp') = Len(temp) + 1
      /\ \A u \in Task : Contains(temp', u) <=> Contains(temp, u) \/ u = t
  BY <1>1, <1>2, <1>3, <1>4, <1>5, Appended, Zenon
<1>7. n_tasks' = Len(tasks') + Len(temp')
  BY <1>1, <1>2, <1>3, <1>4, <1>6, SMTT(20)
<1>8. Linked'
  BY <1>2, <1>4, <1>6, <1>7, SMTT(20) DEF Linked
<1> QED
  BY <1>4, <1>6, <1>8, SMTT(20) DEF t

\* A task that a step does not concern stays in its place.
LEMMA Undisturbed ==
    ASSUME NEW u \in Task, Placed(u), FreePlaced(u),
           Contains(tasks', u) <=> Contains(tasks, u), Contains(temp', u) <=> Contains(temp, u),
           state'[u] = state[u], priv_data'[u] = priv_data[u], run'[u] = run[u],
           freeing'[u] = freeing[u], sem'[u] = sem[u], freer'[u] = freer[u]
    PROVE  Placed(u)' /\ FreePlaced(u)'
  BY SMTT(20) DEF Placed, FreePlaced, OnList

\* A task that may be scheduled, or freed without ado, is on no list.
LEMMA IdleOffLists ==
    ASSUME Considerate, NEW t \in Task, Placed(t), Patient(t), state[t] \in {"INIT", "FREE"}
    PROVE  ~OnList(t)
  BY ClientAssumption DEF Considerate, Placed, Patient, InLimbo

\* The task in .run() is a task, on the temporary list.
LEMMA CurrentTask ==
    ASSUME TypeOK, AtWork, llpc = "exec"
    PROVE  current \in Task /\ Contains(temp, current) /\ state[current] \in {"RUNNING", "CANCEL"}
<1>1. Contains(temp, current) /\ state[current] \in {"RUNNING", "CANCEL"}
  BY DEF AtWork
<1>2. current \in Task
  BY <1>1 DEF TypeOK, Contains
<1> QED
  BY <1>1, <1>2, Zenon

\* zephyr_ll_task_done called from the domain thread, for a task it has on a
\* list: a waiting zephyr_ll_task_free gets its semaphore.
LEMMA DoneInThread ==
    ASSUME LLInv, NEW t \in Task, OnList(t), state[t] \in {"RUNNING", "CANCEL"},
           TaskDone(t, "head"), UNCHANGED <<priv_data, run, freeing, freer>>
    PROVE  Linked' /\ AtWork' /\ \A u \in Task : Placed(u)' /\ FreePlaced(u)'
<1>1. TypeOK /\ Linked /\ \A u \in Task : Placed(u) /\ FreePlaced(u)
  BY DEF LLInv
<1>2. /\ Linked'
      /\ \A u \in Task : /\ Contains(tasks', u) <=> Contains(tasks, u) /\ u # t
                         /\ Contains(temp', u) <=> Contains(temp, u) /\ u # t
  BY <1>1, DoneLists, SMTT(20)
<1>3. /\ state' = [state EXCEPT ![t] = "FREE"]
      /\ sem' = [sem EXCEPT ![t] = IF freeing[t] THEN 1 ELSE @]
      /\ llpc' \in {"none", "head"} /\ current' = None
  BY DEF TaskDone
<1>4. AtWork'
  BY <1>3, SMTT(20) DEF AtWork
<1>5. Placed(t)' /\ FreePlaced(t)'
  <2>1. state'[t] = "FREE" /\ ~OnList(t)'
    BY <1>1, <1>2, <1>3 DEF TypeOK, OnList
  <2>2. sem'[t] = (IF freeing[t] THEN 1 ELSE sem[t]) /\ sem[t] \in {0, 1}
    BY <1>1, <1>3, Zenon DEF TypeOK
  <2>3. Placed(t)'
    BY <2>1 DEF Placed, OnList
  <2>4. freer[t] # "finish" /\ (freer[t] = "no" => ~freeing[t] /\ sem[t] = 0)
    BY <1>1, <2>2, SMTT(20) DEF Placed, FreePlaced
  <2>5. freer[t] = "wait" => sem'[t] = 1
    BY <1>1, <2>2 DEF FreePlaced
  <2>6. freer'[t] = freer[t] /\ freeing'[t] = freeing[t] /\ priv_data'[t] = priv_data[t]
    BY Zenon
  <2>7. freer[t] \in {"no", "wait", "finish"}
    BY <1>1 DEF TypeOK
  <2> QED
    BY <1>1, <2>1, <2>2, <2>3, <2>4, <2>5, <2>6, <2>7, SMTT(20) DEF FreePlaced
<1>6. ASSUME NEW u \in Task, u # t PROVE Placed(u)' /\ FreePlaced(u)'
  <2>1. state'[u] = state[u] /\ sem'[u] = sem[u]
    BY <1>1, <1>3, <1>6, SMTT(20) DEF TypeOK
  <2> QED
    BY <1>1, <1>2, <1>6, <2>1, Undisturbed, Zenon
<1> QED
  BY <1>2, <1>4, <1>5, <1>6, Zenon

\* The initial state.
LEMMA InitInv == Init => LLInv
<1> SUFFICES ASSUME Init PROVE LLInv
  OBVIOUS
<1>1. Linked
  BY EmptyList DEF Init, Linked
<1>2. AtWork
  BY Zenon DEF Init, AtWork
<1>3. ASSUME NEW t \in Task PROVE Placed(t) /\ FreePlaced(t)
  BY EmptyList, ZenonT(30) DEF Init, Placed, FreePlaced, OnList
<1> QED
  BY <1>1, <1>2, <1>3, InitType, Zenon DEF LLInv

\* Every step of considerate clients, of the timer and of the domain thread.
LEMMA StepPlaces ==
    ASSUME Considerate, LLInv, [Next]_vars
    PROVE  Linked' /\ AtWork' /\ \A u \in Task : Placed(u)' /\ FreePlaced(u)'
<1> DEFINE Goal == Linked' /\ AtWork' /\ \A u \in Task : Placed(u)' /\ FreePlaced(u)'
<1>0. TypeOK /\ Linked /\ AtWork /\ \A u \in Task : Placed(u) /\ FreePlaced(u)
  BY DEF LLInv
<1>1. ASSUME NEW t \in Task, TaskInit(t) PROVE Goal
  <2>1. ~OnList(t) /\ freer[t] = "no" /\ sem[t] = 0
    BY <1>0, <1>1, SMTT(20) DEF TaskInit, Placed, FreePlaced, TypeOK
  <2>2. Linked' /\ AtWork'
    BY <1>0, <1>1, <2>1, SMTT(20) DEF TaskInit, Linked, AtWork, OnList, lists, thread, TypeOK
  <2>3. Placed(t)' /\ FreePlaced(t)'
    BY <1>0, <1>1, <2>1, SMTT(20) DEF TaskInit, Placed, FreePlaced, OnList, lists, pdata, TypeOK
  <2>4. ASSUME NEW u \in Task, u # t PROVE Placed(u)' /\ FreePlaced(u)'
    BY <1>0, <1>1, <2>4, Undisturbed, SMTT(20) DEF TaskInit, lists, pdata, TypeOK
  <2> QED
    BY <2>2, <2>3, <2>4, SMTT(20)
<1>2. ASSUME NEW t \in Task, ScheduleCancelled(t) PROVE Goal
  <2>1. ~Contains(temp, t) /\ Contains(tasks, t) /\ freer[t] = "no" /\ sem[t] = 0
    BY <1>0, <1>2, SMTT(20) DEF ScheduleCancelled, MaySchedule, Considerate, Placed, FreePlaced, OnList, TypeOK
  <2>2. Linked' /\ AtWork'
    BY <1>0, <1>2, <2>1, SMTT(20) DEF ScheduleCancelled, Linked, AtWork, lists, thread, TypeOK
  <2>3. Placed(t)' /\ FreePlaced(t)'
    BY <1>0, <1>2, <2>1, Zenon DEF ScheduleCancelled, Placed, FreePlaced, OnList, lists, pdata, TypeOK
  <2>4. ASSUME NEW u \in Task, u # t PROVE Placed(u)' /\ FreePlaced(u)'
    BY <1>0, <1>2, <2>4, Undisturbed, SMTT(20) DEF ScheduleCancelled, lists, pdata, TypeOK
  <2> QED
    BY <2>2, <2>3, <2>4
<1>3. ASSUME NEW t \in Task, Schedule(t) PROVE Goal
  <2>1. state[t] \in {"INIT", "FREE"} /\ Patient(t) /\ freer[t] = "no" /\ sem[t] = 0 /\ priv_data[t]
    BY <1>0, <1>3, SMTT(20) DEF Schedule, MaySchedule, IsActive, FreePlaced, TypeOK, States
  <2>2. ~OnList(t)
    BY <1>0, <2>1, IdleOffLists, Zenon
  <2>3. /\ InsertByPriority(t) /\ n_tasks' = n_tasks + 1
        /\ state' = [state EXCEPT ![t] = "QUEUED"] /\ UNCHANGED <<pdata, thread, freer>>
    BY <1>3 DEF Schedule, Queued, InsertByPriority
  <2>4. /\ Linked'
        /\ \A u \in Task : /\ Contains(tasks', u) <=> Contains(tasks, u) \/ u = t
                           /\ Contains(temp', u) <=> Contains(temp, u)
    BY <1>0, <2>2, <2>3, PriorityLists, SMTT(20)
  <2>5. AtWork'
    BY <1>0, <2>2, <2>3, <2>4, CurrentTask, SMTT(20) DEF AtWork, OnList, thread, TypeOK
  <2>6. Placed(t)' /\ FreePlaced(t)'
    BY <1>0, <2>1, <2>2, <2>3, <2>4, SMTT(20) DEF Placed, FreePlaced, OnList, pdata, TypeOK
  <2>7. ASSUME NEW u \in Task, u # t PROVE Placed(u)' /\ FreePlaced(u)'
    BY <1>0, <2>3, <2>4, <2>7, Undisturbed, SMTT(20) DEF pdata, TypeOK
  <2> QED
    BY <2>4, <2>5, <2>6, <2>7, Zenon
<1>4. ASSUME NEW t \in Task, NEW ref \in Task, NEW offset \in {0, 1},
             ScheduleByReference(t, ref, offset)
      PROVE  Goal
  <2>1. state[t] \in {"INIT", "FREE"} /\ Patient(t) /\ freer[t] = "no" /\ sem[t] = 0 /\ priv_data[t]
    BY <1>0, <1>4 DEF ScheduleByReference, MaySchedule, IsActive, FreePlaced, TypeOK, States
  <2>2. ~OnList(t) /\ References # "none"
    BY <1>0, <1>4, <2>1, IdleOffLists, ZenonT(30) DEF ScheduleByReference
  <2>3. OnList(ref)
    BY <1>0, <1>4, SMTT(20) DEF ScheduleByReference, IsActive, Placed
  <2>4. /\ InsertByReference(t, ref, offset) /\ n_tasks' = n_tasks + 1
        /\ state' = state /\ UNCHANGED <<pdata, thread, freer>>
    BY <1>4, SMTT(20) DEF ScheduleByReference, Queued, InsertByReference
  <2>5. /\ Linked'
        /\ \A u \in Task :
              /\ Contains(tasks', u) <=> Contains(tasks, u) \/ (u = t /\ Contains(tasks, ref))
              /\ Contains(temp', u) <=> Contains(temp, u) \/ (u = t /\ Contains(temp, ref))
    BY <1>0, <2>2, <2>3, <2>4, ReferenceLists, SMTT(20)
  <2>6. AtWork'
    BY <1>0, <2>4, <2>5, CurrentTask, SMTT(20) DEF AtWork, thread
  <2>7. Placed(t)' /\ FreePlaced(t)'
    BY <1>0, <2>1, <2>2, <2>4, <2>5, Zenon DEF Placed, FreePlaced, OnList, pdata, TypeOK
  <2>8. ASSUME NEW u \in Task, u # t PROVE Placed(u)' /\ FreePlaced(u)'
    BY <1>0, <2>4, <2>5, <2>8, Undisturbed, SMTT(20) DEF pdata, TypeOK
  <2> QED
    BY <2>5, <2>6, <2>7, <2>8, SMTT(20)
<1>5. ASSUME NEW t \in Task, Register(t) PROVE Goal
  <2>1. UNCHANGED <<lists, state, pdata, freer>>
    BY <1>5, Zenon DEF Register
  <2>2. Linked' /\ AtWork'
    BY <1>0, <1>5, <2>1, SMTT(20) DEF Register, Linked, AtWork, lists, thread
  <2> QED
    BY <1>0, <2>1, <2>2, Undisturbed, Zenon DEF lists, pdata
<1>6. ASSUME NEW t \in Task, TaskCancel(t) PROVE Goal
  <2>1. Linked' /\ AtWork'
    BY <1>0, <1>6, SMTT(20) DEF TaskCancel, Linked, AtWork, lists, thread, TypeOK
  <2>2. Placed(t)' /\ FreePlaced(t)'
    BY <1>0, <1>6, SMTT(20) DEF TaskCancel, Placed, FreePlaced, OnList, lists, pdata, TypeOK, States
  <2>3. ASSUME NEW u \in Task, u # t PROVE Placed(u)' /\ FreePlaced(u)'
    BY <1>0, <1>6, <2>3, Undisturbed, Zenon DEF TaskCancel, lists, pdata, TypeOK
  <2> QED
    BY <2>1, <2>2, <2>3
<1>7. ASSUME NEW t \in Task, FreeStart(t) PROVE Goal
  <2>0. /\ freer[t] = "no" /\ priv_data[t] /\ Patient(t) /\ sem[t] = 0 /\ ~freeing[t]
        /\ freer' = [freer EXCEPT ![t] = IF MustWait(t) THEN "wait" ELSE "finish"]
        /\ freeing' = [freeing EXCEPT ![t] = TRUE] /\ UNCHANGED <<priv_data, run>>
    BY <1>0, <1>7, Zenon DEF FreeStart, FreePlaced, TypeOK
  <2>1. CASE state[t] \in {"INIT", "FREE"} \/ MustWait(t)
    <3>1. UNCHANGED <<lists, state, sem, thread>>
      BY <1>7, <2>1 DEF FreeStart
    <3>2. Linked' /\ AtWork'
      BY <1>0, <3>1, Zenon DEF Linked, AtWork, lists, thread
    <3>3. Placed(t)'
      BY <1>0, <2>0, <3>1, Zenon DEF Placed, OnList, lists
    <3>4. FreePlaced(t)'
      <4>1. CASE MustWait(t)
        BY <1>0, <2>0, <3>1, <4>1, SMTT(20) DEF MustWait, FreePlaced, TypeOK
      <4>2. CASE ~MustWait(t)
        <5>1. ~OnList(t)
          BY <1>0, <2>0, <2>1, <4>2, IdleOffLists, Zenon
        <5> QED
          BY <1>0, <2>0, <2>1, <3>1, <4>2, <5>1, Zenon DEF FreePlaced, OnList, lists, TypeOK
      <4> QED
        BY <4>1, <4>2, Zenon
    <3>5. ASSUME NEW u \in Task, u # t PROVE Placed(u)' /\ FreePlaced(u)'
      BY <1>0, <2>0, <3>1, <3>5, Undisturbed, Zenon DEF lists, TypeOK
    <3> QED
      BY <3>2, <3>3, <3>4, <3>5, SMTT(20)
  <2>2. CASE ~(state[t] \in {"INIT", "FREE"} \/ MustWait(t))
    <3>1. TaskDone(t, llpc)
      BY <1>7, <2>2, SMTT(20) DEF FreeStart
    <3>2. OnList(t) /\ ~Contains(temp, t)
      BY <1>0, <2>2, Zenon DEF MustWait, Placed, TypeOK, States
    <3>3. /\ Linked'
          /\ \A u \in Task : /\ Contains(tasks', u) <=> Contains(tasks, u) /\ u # t
                             /\ Contains(temp', u) <=> Contains(temp, u) /\ u # t
      BY <1>0, <3>1, <3>2, DoneLists, SMTT(20)
    <3>4. /\ state' = [state EXCEPT ![t] = "FREE"]
          /\ sem' = sem
          /\ llpc' \in {"none", llpc} /\ current' = IF llpc' = "exec" THEN current ELSE None
      BY <1>0, <2>0, <3>1, SMTT(20) DEF TaskDone, TypeOK
    <3>5. AtWork'
      BY <1>0, <3>2, <3>3, <3>4, CurrentTask, Zenon DEF AtWork, TypeOK
    <3>6. Placed(t)' /\ FreePlaced(t)'
      BY <1>0, <2>0, <2>2, <3>3, <3>4, SMTT(20) DEF Placed, FreePlaced, OnList, TypeOK
    <3>7. ASSUME NEW u \in Task, u # t PROVE Placed(u)' /\ FreePlaced(u)'
      BY <1>0, <2>0, <3>3, <3>4, <3>7, Undisturbed, Zenon DEF TypeOK
    <3> QED
      BY <3>3, <3>5, <3>6, <3>7, SMTT(20)
  <2> QED
    BY <2>1, <2>2
<1>8. ASSUME NEW t \in Task, FreeWake(t) PROVE Goal
  <2>1. state[t] = "FREE" /\ ~OnList(t)
    <3>1. sem[t] # 0
      BY <1>8 DEF FreeWake, Considerate
    <3> QED
      BY <1>0, <1>8, <3>1, SMTT(20) DEF FreeWake, FreePlaced
  <2>2. Linked' /\ AtWork'
    BY <1>0, <1>8, ZenonT(30) DEF FreeWake, Linked, AtWork, lists, thread
  <2>3. Placed(t)' /\ FreePlaced(t)'
    BY <1>0, <1>8, <2>1, SMTT(20) DEF FreeWake, Placed, FreePlaced, OnList, lists, TypeOK
  <2>4. ASSUME NEW u \in Task, u # t PROVE Placed(u)' /\ FreePlaced(u)'
    BY <1>0, <1>8, <2>4, Undisturbed, Zenon DEF FreeWake, lists, TypeOK
  <2> QED
    BY <2>2, <2>3, <2>4
<1>9. ASSUME NEW t \in Task, FreeFinish(t) PROVE Goal
  <2>1. Linked' /\ AtWork'
    BY <1>0, <1>9, SMTT(20) DEF FreeFinish, Linked, AtWork, lists, thread
  <2>2. Placed(t)' /\ FreePlaced(t)'
    BY <1>0, <1>9, Zenon DEF FreeFinish, Placed, FreePlaced, OnList, lists, TypeOK
  <2>3. ASSUME NEW u \in Task, u # t PROVE Placed(u)' /\ FreePlaced(u)'
    BY <1>0, <1>9, <2>3, Undisturbed, Zenon DEF FreeFinish, lists, TypeOK
  <2> QED
    BY <2>1, <2>2, <2>3
<1>10. CASE Tick
  <2>1. UNCHANGED <<lists, state, pdata, llpc, current, freer>>
    BY <1>10, ZenonT(30) DEF Tick
  <2> QED
    BY <1>0, <2>1, Undisturbed, SMTT(20) DEF Linked, AtWork, lists, pdata
<1>11. CASE CycleStart
  <2>1. UNCHANGED <<lists, state, pdata, current, freer>> /\ llpc = "idle" /\ llpc' = "head"
    BY <1>11, Zenon DEF CycleStart
  <2> QED
    BY <1>0, <2>1, Undisturbed, SMTT(20) DEF Linked, AtWork, lists, pdata
<1>12. CASE LoopCancel
  <2>1. /\ tasks # <<>> /\ state[Head(tasks)] = "CANCEL" /\ TaskDone(Head(tasks), "head")
        /\ UNCHANGED <<priv_data, run, freeing, freer>>
    BY <1>12, Zenon DEF LoopCancel
  <2>2. Head(tasks) \in Task /\ OnList(Head(tasks))
    BY <1>0, <2>1, Popped, SMTT(20) DEF TypeOK, Linked, OnList
  <2> QED
    BY <2>1, <2>2, DoneInThread, SMTT(20)
<1>13. CASE LoopRun
  <2>0. PICK t \in Task : t = Head(tasks)
    BY <1>0, <1>13, MovedLists, SMTT(20)
  <2>1. /\ Linked' /\ t \in Task /\ Contains(tasks, t)
        /\ \A u \in Task : /\ Contains(tasks', u) <=> Contains(tasks, u) /\ u # t
                           /\ Contains(temp', u) <=> Contains(temp, u) \/ u = t
    BY <1>0, <1>13, <2>0, MovedLists, Zenon
  <2>2. /\ run' = [run EXCEPT ![t] = TRUE] /\ state' = [state EXCEPT ![t] = "RUNNING"]
        /\ llpc' = "exec" /\ current' = t /\ UNCHANGED <<priv_data, freeing, sem, freer>>
    BY <1>13, <2>0, SMTT(20) DEF LoopRun
  <2>3. AtWork'
    BY <1>0, <2>1, <2>2, ZenonT(30) DEF AtWork, TypeOK
  <2>4. Placed(t)' /\ FreePlaced(t)'
    BY <1>0, <2>1, <2>2, SMTT(20) DEF Placed, FreePlaced, OnList, TypeOK
  <2>5. ASSUME NEW u \in Task, u # t PROVE Placed(u)' /\ FreePlaced(u)'
    BY <1>0, <2>1, <2>2, <2>5, Undisturbed, Zenon DEF TypeOK
  <2> QED
    BY <2>1, <2>3, <2>4, <2>5, Zenon
<1>14. ASSUME NEW completed \in BOOLEAN, RunReturn(completed) PROVE Goal
  <2>1. current \in Task /\ Contains(temp, current) /\ state[current] \in {"RUNNING", "CANCEL"}
    BY <1>0, <1>14, CurrentTask, ZenonT(30) DEF RunReturn
  <2>2. UNCHANGED <<priv_data, run, freeing, freer>>
    BY <1>14 DEF RunReturn
  <2>3. CASE TaskDone(current, "head")
    BY <2>1, <2>2, <2>3, DoneInThread, SMTT(20) DEF OnList
  <2>4. CASE llpc' = "head" /\ current' = None /\ UNCHANGED <<lists, state, sem>>
    BY <1>0, <2>2, <2>4, Undisturbed, Zenon DEF Linked, AtWork, lists
  <2> QED
    BY <1>14, <2>3, <2>4, Zenon DEF RunReturn
<1>15. CASE LoopEnd
  <2>1. /\ tasks = <<>> /\ tasks' = temp /\ temp' = <<>> /\ UNCHANGED <<n_tasks, state, pdata, freer>>
        /\ llpc = "head" /\ llpc' = "idle" /\ current' = current
    BY <1>15 DEF LoopEnd
  <2>2. \A u \in Task : ~Contains(tasks, u) /\ ~Contains(temp', u)
    BY <2>1, EmptyList, SMTT(20)
  <2>3. Len(tasks) = 0 /\ Len(temp') = 0 /\ IsInjective(temp') /\ Len(temp) \in Nat
    BY <1>0, <2>1, EmptyList, SMTT(20) DEF TypeOK
  <2>4. Linked' /\ AtWork'
    BY <1>0, <2>1, <2>2, <2>3, SMTT(20) DEF Linked, AtWork
  <2>5. ASSUME NEW u \in Task PROVE Placed(u)' /\ FreePlaced(u)'
    BY <1>0, <2>1, <2>2, SMTT(20) DEF Placed, FreePlaced, OnList, pdata
  <2> QED
    BY <2>4, <2>5, SMTT(20)
<1>16. CASE UNCHANGED vars
  BY <1>0, <1>16, Undisturbed, Zenon DEF Linked, AtWork, vars, lists, pdata, thread
<1> QED
  BY <1>1, <1>2, <1>3, <1>4, <1>5, <1>6, <1>7, <1>8, <1>9, <1>10, <1>11, <1>12, <1>13, <1>14,
     <1>15, <1>16, SMTT(20)
  DEF Next, LLThread, Client

LEMMA StepInv ==
    ASSUME Considerate
    PROVE  LLInv /\ ThreadForTasks /\ [Next]_vars => LLInv'
  BY StepPlaces, StepType DEF LLInv

\* Two lists without repetitions and without a task in common, in a row.
LEMMA InARow ==
    ASSUME NEW s \in Seq(Task), NEW r \in Seq(Task), IsInjective(s), IsInjective(r),
           \A u \in Task : ~(Contains(s, u) /\ Contains(r, u))
    PROVE  IsInjective(s \o r)
<1> DEFINE q == s \o r
<1>1. /\ Len(s) \in Nat /\ Len(r) \in Nat
      /\ \A i \in 1 .. Len(s) : s[i] \in Task
      /\ \A i \in 1 .. Len(r) : r[i] \in Task
  OBVIOUS
<1>2. /\ q \in Seq(Task) /\ Len(q) = Len(s) + Len(r)
      /\ \A i \in 1 .. Len(s) + Len(r) : q[i] = IF i <= Len(s) THEN s[i] ELSE r[i - Len(s)]
  BY Joined
<1> HIDE DEF q
<1>3. ASSUME NEW i \in 1 .. Len(q), NEW j \in 1 .. Len(q), q[i] = q[j] PROVE i = j
  <2>1. CASE i <= Len(s) /\ j <= Len(s)
    <3>1. i \in 1 .. Len(s) /\ j \in 1 .. Len(s) /\ s[i] = s[j]
      BY <1>1, <1>2, <1>3, <2>1, SMTT(20)
    <3> QED
      BY <3>1, Distinct, SMTT(20)
  <2>2. CASE i > Len(s) /\ j > Len(s)
    <3>1. /\ i - Len(s) \in 1 .. Len(r) /\ j - Len(s) \in 1 .. Len(r)
      BY <1>1, <1>2, <2>2, SMTT(20)
    <3>2. r[i - Len(s)] = r[j - Len(s)]
      BY <1>1, <1>2, <1>3, <2>2, SMTT(20)
    <3>3. i - Len(s) = j - Len(s)
      BY <3>1, <3>2, Distinct, SMTT(20)
    <3> QED
      BY <1>1, <3>3, SMTT(20)
  <2>3. CASE i <= Len(s) /\ j > Len(s)
    <3>1. i \in 1 .. Len(s) /\ j - Len(s) \in 1 .. Len(r) /\ q[i] = s[i] /\ q[j] = r[j - Len(s)]
      BY <1>1, <1>2, <2>3, SMTT(20)
    <3>2. Contains(s, s[i]) /\ Contains(r, s[i]) /\ s[i] \in Task
      BY <1>1, <1>3, <3>1, Zenon DEF Contains
    <3> QED
      BY <3>2, Zenon
  <2>4. CASE i > Len(s) /\ j <= Len(s)
    <3>1. j \in 1 .. Len(s) /\ i - Len(s) \in 1 .. Len(r) /\ q[j] = s[j] /\ q[i] = r[i - Len(s)]
      BY <1>1, <1>2, <2>4, SMTT(20)
    <3>2. Contains(s, s[j]) /\ Contains(r, s[j]) /\ s[j] \in Task
      BY <1>1, <1>3, <3>1, Zenon DEF Contains
    <3> QED
      BY <3>2, SMTT(20)
  <2> QED
    BY <1>1, <1>2, <2>1, <2>2, <2>3, <2>4, SMTT(20)
<1>4. IsInjective(q)
  BY <1>2, <1>3, Distinct, Zenon
<1> QED
  BY <1>4, Zenon DEF q

(* What the invariant says of the lists, the states and the calls of       *)
(* zephyr_ll_task_free, for considerate clients.                           *)
THEOREM Invariant ==
    ASSUME Considerate
    PROVE  Spec => []LLInv
<1>1. Init => LLInv /\ ThreadForTasks
  BY InitInv, InitType, SMTT(20)
<1>2. LLInv /\ ThreadForTasks /\ [Next]_vars => LLInv' /\ ThreadForTasks'
  BY StepInv, StepType, Zenon DEF LLInv
<1> QED
  BY <1>1, <1>2, PTL DEF Spec

(* sch->tasks and the temporary list of zephyr_ll_run never link a task    *)
(* twice, and n_tasks, which decides when the thread is aborted, counts    *)
(* them all, whatever considerate clients do while a task runs.            *)
THEOREM ListsAccounted ==
    ASSUME Considerate
    PROVE  Spec => []ListAccounting
<1>1. LLInv => ListAccounting
  BY InARow, ZenonT(30) DEF LLInv, Linked, TypeOK, ListAccounting
<1> QED
  BY <1>1, Invariant, PTL

(* task->state tells whether the scheduler has the task on a list, which   *)
(* zephyr_ll_task_free and zephyr_ll_task_cancel rely on.                  *)
THEOREM StateTells ==
    ASSUME Considerate
    PROVE  Spec => []StateTellsList
<1>1. LLInv => StateTellsList
  BY SMTT(20) DEF LLInv, TypeOK, States, Placed, StateTellsList, InLimbo
<1> QED
  BY <1>1, Invariant, PTL

(* When zephyr_ll_task_free returns, the scheduler neither links the task  *)
(* nor is about to come back from its .run(): "after this returns the      *)
(* object can be destroyed".                                               *)
THEOREM FreeSynchronous ==
    ASSUME Considerate
    PROVE  Spec => []FreeIsSynchronous
<1>1. LLInv => FreeIsSynchronous
  <2> SUFFICES ASSUME LLInv, NEW t \in Task, ~priv_data[t] PROVE ~OnList(t) /\ current # t
    BY SMTT(20) DEF FreeIsSynchronous
  <2>1. ~OnList(t)
    BY DEF LLInv, Placed
  <2>2. current # t
    BY <2>1, CurrentTask, TaskAssumption, Zenon DEF LLInv, AtWork, OnList
  <2> QED
    BY <2>1, <2>2, Zenon
<1> QED
  BY <1>1, Invariant, PTL
=============================================================================
