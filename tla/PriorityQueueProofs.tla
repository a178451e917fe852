------------------------- MODULE PriorityQueueProofs -------------------------
(***************************************************************************)
(* The queue of module PriorityQueue, proved for every set of ids, every   *)
(* mask and queues of every length.                                        *)
(***************************************************************************)
EXTENDS PriorityQueue, QueueLemmas

\* Whatever is inserted and popped, in whatever order, both slices are sorted
\* and the mask separates them.
THEOREM QueueStaysWellFormed == Spec => []WellFormed
<1>1. Init => WellFormed
  BY EmptyIsWellFormed DEF Init, WellFormed
<1>2. WellFormed /\ [Next]_vars => WellFormed'
  <2>. SUFFICES ASSUME WellFormed, [Next]_vars PROVE WellFormed'
    OBVIOUS
  <2>1. ASSUME NEW id \in Ids, InsertCall(id) PROVE WellFormed'
    BY <2>1, BoundsAssumption, InsertKeepsWellFormed DEF InsertCall, WellFormed
  <2>2. ASSUME PopCall PROVE WellFormed'
    BY <2>2, PopTakesSmallest DEF PopCall, WellFormed
  <2>3. ASSUME UNCHANGED vars PROVE WellFormed'
    BY <2>3 DEF vars, WellFormed
  <2>. QED
    BY <2>1, <2>2, <2>3 DEF Next
<1>. QED
  BY <1>1, <1>2, PTL DEF Spec

\* Every Pop answers the smallest id of the queue.
THEOREM PopAnswersSmallest ==
    Spec => [][PopCall => \A id \in QueueIds(q) : popped'[1] <= id]_vars
<1>1. WellFormed /\ [Next]_vars
        => [PopCall => \A id \in QueueIds(q) : popped'[1] <= id]_vars
  <2>. SUFFICES ASSUME WellFormed, PopCall, NEW id \in QueueIds(q) PROVE popped'[1] <= id
    OBVIOUS
  <2>. QED
    BY PopTakesSmallest DEF PopCall, WellFormed
<1>. QED
  BY <1>1, QueueStaysWellFormed, PTL DEF Spec
-----------------------------------------------------------------------------
\* An insert into a slice is an insertion in the sense of SortedList.
LEMMA InsertInSliceInserts ==
    ASSUME NEW ids \in Seq(Id), Sorted(ids), NEW id \in Id
    PROVE  Flat!IsInsertion(InsertInSlice(ids, id), ids, id)
<1>. DEFINE p == InsertPosition(ids, id)
            t == InsertInSlice(ids, id)
<1>1. /\ p \in 0..Len(ids)
      /\ t \in Seq(Id) /\ Len(t) = Len(ids) + 1
      /\ t = [j \in 1..(Len(ids) + 1) |-> IF j <= p THEN ids[j]
                                         ELSE IF j = p + 1 THEN id ELSE ids[j - 1]]
  BY InsertPositionCuts, InsertInSliceSorts DEF InsertInSlice
<1>. HIDE DEF p, t
<1>2. Len(ids) \in Nat /\ p + 1 \in 1..Len(t)
  BY <1>1
<1>3. t[p + 1] = id
  BY <1>1, <1>2
<1>4. ASSUME NEW j \in 1..Len(ids)
      PROVE  ids[j] = IF j < p + 1 THEN t[j] ELSE t[j + 1]
  BY <1>1, <1>2
<1>5. Flat!IsInsertion(t, ids, id)
  BY <1>1, <1>2, <1>3, <1>4 DEF Flat!IsInsertion
<1>. QED
  BY <1>5 DEF t

\* What is around the slice does not matter.
LEMMA InsertionBefore ==
    ASSUME NEW s \in Seq(Id), NEW t \in Seq(Id), NEW r \in Seq(Id), NEW id \in Id,
           Flat!IsInsertion(t, s, id)
    PROVE  Flat!IsInsertion(t \o r, s \o r, id)
<1>1. PICK k \in 1..Len(t) :
          /\ t[k] = id
          /\ \A j \in 1..Len(s) : s[j] = IF j < k THEN t[j] ELSE t[j + 1]
  BY DEF Flat!IsInsertion
<1>2. /\ Len(t) = Len(s) + 1 /\ Len(s) \in Nat /\ Len(r) \in Nat
      /\ Len(t \o r) = Len(t) + Len(r) /\ Len(s \o r) = Len(s) + Len(r)
  BY DEF Flat!IsInsertion
<1>3. k \in 1..Len(t \o r) /\ (t \o r)[k] = id
  BY <1>1, <1>2
<1>4. ASSUME NEW j \in 1..Len(s \o r)
      PROVE  (s \o r)[j] = IF j < k THEN (t \o r)[j] ELSE (t \o r)[j + 1]
  <2>1. CASE j <= Len(s)
    BY <2>1, <1>1, <1>2
  <2>2. CASE j > Len(s)
    BY <2>2, <1>1, <1>2
  <2>. QED
    BY <2>1, <2>2, <1>2
<1>5. Len(t \o r) = Len(s \o r) + 1
  BY <1>2
<1>. DEFINE T == t \o r
            S == s \o r
<1>6. /\ Len(T) = Len(S) + 1 /\ k \in 1..Len(T) /\ T[k] = id
      /\ \A j \in 1..Len(S) : S[j] = IF j < k THEN T[j] ELSE T[j + 1]
  BY <1>3, <1>4, <1>5
<1>. HIDE DEF S, T
<1>7. Flat!IsInsertion(T, S, id)
  BY <1>6 DEF Flat!IsInsertion
<1>. QED
  BY <1>7 DEF S, T

LEMMA InsertionAfter ==
    ASSUME NEW s \in Seq(Id), NEW t \in Seq(Id), NEW r \in Seq(Id), NEW id \in Id,
           Flat!IsInsertion(t, s, id)
    PROVE  Flat!IsInsertion(r \o t, r \o s, id)
<1>1. PICK k \in 1..Len(t) :
          /\ t[k] = id
          /\ \A j \in 1..Len(s) : s[j] = IF j < k THEN t[j] ELSE t[j + 1]
  BY DEF Flat!IsInsertion
<1>2. /\ Len(t) = Len(s) + 1 /\ Len(s) \in Nat /\ Len(r) \in Nat
      /\ Len(r \o t) = Len(r) + Len(t) /\ Len(r \o s) = Len(r) + Len(s)
  BY DEF Flat!IsInsertion
<1>3. Len(r) + k \in 1..Len(r \o t) /\ (r \o t)[Len(r) + k] = id
  BY <1>1, <1>2
<1>4. ASSUME NEW j \in 1..Len(r \o s)
      PROVE  (r \o s)[j] = IF j < Len(r) + k THEN (r \o t)[j] ELSE (r \o t)[j + 1]
  <2>1. CASE j <= Len(r)
    BY <2>1, <1>2
  <2>2. CASE j > Len(r)
    <3>. DEFINE i == j - Len(r)
    <3>1. i \in 1..Len(s) /\ (r \o s)[j] = s[i]
      BY <2>2, <1>2
    <3>2. s[i] = IF i < k THEN t[i] ELSE t[i + 1]
      BY <3>1, <1>1
    <3>3. (r \o t)[j] = t[i] /\ (r \o t)[j + 1] = t[i + 1]
      <4>1. /\ j \in 1..(Len(r) + Len(t)) /\ j + 1 \in 1..(Len(r) + Len(t))
            /\ ~(j <= Len(r)) /\ ~(j + 1 <= Len(r)) /\ (j + 1) - Len(r) = i + 1
        BY <2>2, <1>2
      <4>. QED
        BY <4>1, ConcatProperties
    <3>4. i < k <=> j < Len(r) + k
      BY <1>2
    <3>. QED
      BY <3>1, <3>2, <3>3, <3>4
  <2>. QED
    BY <2>1, <2>2, <1>2
<1>5. Len(r \o t) = Len(r \o s) + 1
  BY <1>2
<1>. DEFINE T == r \o t
            S == r \o s
<1>6. /\ Len(T) = Len(S) + 1 /\ Len(r) + k \in 1..Len(T) /\ T[Len(r) + k] = id
      /\ \A j \in 1..Len(S) : S[j] = IF j < Len(r) + k THEN T[j] ELSE T[j + 1]
  BY <1>3, <1>4, <1>5
<1>. HIDE DEF S, T
<1>7. Flat!IsInsertion(T, S, id)
  BY <1>6 DEF Flat!IsInsertion
<1>. QED
  BY <1>7 DEF S, T

\* The two slices of a well-formed queue, one after the other, are in order.
LEMMA WellFormedIsInOrder ==
    ASSUME NEW p, WellFormedQueue(p)
    PROVE  p.high \o p.low \in Seq(Id) /\ Flat!InOrder(p.high \o p.low)
<1>. DEFINE h == p.high
            l == p.low
<1>1. /\ h \in Seq(Id) /\ l \in Seq(Id) /\ Sorted(h) /\ Sorted(l)
      /\ \A i \in DOMAIN h : h[i] \in Nat /\ h[i] < LowPriorityMask
      /\ \A i \in DOMAIN l : l[i] \in Nat /\ l[i] >= LowPriorityMask
  BY DEF WellFormedQueue, Id
<1>. HIDE DEF h, l
<1>2. /\ Len(h) \in Nat /\ Len(l) \in Nat /\ DOMAIN h = 1..Len(h) /\ DOMAIN l = 1..Len(l)
      /\ h \o l \in Seq(Id) /\ DOMAIN (h \o l) = 1..(Len(h) + Len(l))
  BY <1>1
<1>3. ASSUME NEW i \in DOMAIN (h \o l), NEW j \in DOMAIN (h \o l), i < j
      PROVE  (h \o l)[i] <= (h \o l)[j]
  <2>1. CASE j <= Len(h)
    BY <2>1, <1>1, <1>2, <1>3 DEF Sorted
  <2>2. CASE i <= Len(h) /\ j > Len(h)
    <3>1. /\ (h \o l)[i] = h[i] /\ i \in DOMAIN h
          /\ (h \o l)[j] = l[j - Len(h)] /\ j - Len(h) \in DOMAIN l
      BY <2>2, <1>1, <1>2
    <3>. QED
      BY <3>1, <1>1, MaskAssumption
  <2>3. CASE i > Len(h)
    <3>1. /\ (h \o l)[i] = l[i - Len(h)] /\ i - Len(h) \in DOMAIN l
          /\ (h \o l)[j] = l[j - Len(h)] /\ j - Len(h) \in DOMAIN l
          /\ i - Len(h) < j - Len(h)
      BY <2>3, <1>1, <1>2, <1>3
    <3>. QED
      BY <3>1, <1>1 DEF Sorted
  <2>. QED
    BY <2>1, <2>2, <2>3, <1>2
<1>. QED
  BY <1>2, <1>3 DEF Flat!InOrder, h, l

\* The queue implements the sorted list: every insert puts its id in a place
\* that keeps the order of the two slices taken together, every pop takes the
\* head of that list.
THEOREM QueueRefinesSortedList == Spec => RefinesSortedList
<1>. USE DEF Id
<1>1. Init => Flat!Init
  BY DEF Init, Flat!Init, EmptyQueue
<1>2. WellFormed /\ WellFormed' /\ [Next]_vars
        => [Flat!Next]_<<q.high \o q.low, popped>>
  <2>. SUFFICES ASSUME WellFormed, WellFormed', [Next]_vars
                PROVE  [Flat!Next]_<<q.high \o q.low, popped>>
    OBVIOUS
  <2>0. /\ q \in [high : Seq(Id), low : Seq(Id)]
        /\ q.high \in Seq(Id) /\ q.low \in Seq(Id) /\ Sorted(q.high) /\ Sorted(q.low)
    BY DEF WellFormed, WellFormedQueue
  <2>1. ASSUME NEW id \in Ids, InsertCall(id) PROVE Flat!Add(id)
    <3>0. id \in Id
      BY BoundsAssumption
    <3>1. CASE id >= LowPriorityMask
      <4>. DEFINE t == InsertInSlice(q.low, id)
      <4>1. t \in Seq(Id) /\ Flat!IsInsertion(t, q.low, id)
        BY <2>0, <3>0, InsertInSliceSorts, InsertInSliceInserts
      <4>2. q'.high = q.high /\ q'.low = t
        BY <2>0, <2>1, <3>1 DEF InsertCall, Insert
      <4>. HIDE DEF t
      <4>3. Flat!IsInsertion(q.high \o t, q.high \o q.low, id)
        BY <2>0, <3>0, <4>1, InsertionAfter
      <4>. QED
        BY <2>1, <4>2, <4>3, WellFormedIsInOrder DEF Flat!Add, InsertCall, WellFormed
    <3>2. CASE ~(id >= LowPriorityMask)
      <4>. DEFINE t == InsertInSlice(q.high, id)
      <4>1. t \in Seq(Id) /\ Flat!IsInsertion(t, q.high, id)
        BY <2>0, <3>0, InsertInSliceSorts, InsertInSliceInserts
      <4>2. q'.low = q.low /\ q'.high = t
        BY <2>0, <2>1, <3>2 DEF InsertCall, Insert
      <4>. HIDE DEF t
      <4>3. Flat!IsInsertion(t \o q.low, q.high \o q.low, id)
        BY <2>0, <3>0, <4>1, InsertionBefore
      <4>. QED
        BY <2>1, <4>2, <4>3, WellFormedIsInOrder DEF Flat!Add, InsertCall, WellFormed
    <3>. QED
      BY <3>1, <3>2
  <2>2. ASSUME PopCall PROVE Flat!Take
    <3>. DEFINE h == q.high
                l == q.low
    <3>0. /\ h \in Seq(Id) /\ l \in Seq(Id) /\ Len(h) \in Nat /\ Len(l) \in Nat
          /\ Len(h) + Len(l) > 0
      BY <2>0, <2>2 DEF PopCall, QueueLen
    <3>1. CASE Len(h) > 0
      <4>1. q'.high = Tail(h) /\ q'.low = l /\ popped' = <<Head(h)>>
        BY <2>0, <2>2, <3>1 DEF PopCall, PopRest, PopId
      <4>. HIDE DEF h, l
      <4>2. Head(h \o l) = Head(h) /\ Tail(h \o l) = Tail(h) \o l /\ h \o l # <<>>
        BY <3>0, <3>1, HeadTailProperties
      <4>. QED
        BY <4>1, <4>2 DEF Flat!Take, h, l
    <3>2. CASE ~(Len(h) > 0)
      <4>1. q'.high = h /\ q'.low = Tail(l) /\ popped' = <<Head(l)>>
        BY <2>0, <2>2, <3>2 DEF PopCall, PopRest, PopId
      <4>. HIDE DEF h, l
      <4>2. h = <<>> /\ Len(l) > 0
        BY <3>0, <3>2
      <4>3. h \o l = l /\ h \o Tail(l) = Tail(l) /\ l # <<>>
        BY <3>0, <4>2
      <4>. QED
        BY <4>1, <4>3 DEF Flat!Take, h, l
    <3>. QED
      BY <3>1, <3>2
  <2>3. CASE UNCHANGED vars
    BY <2>3 DEF vars
  <2>. QED
    BY <2>1, <2>2, <2>3 DEF Next, Flat!Next
<1>. QED
  BY <1>1, <1>2, QueueStaysWellFormed, PTL DEF Spec, RefinesSortedList, Flat!Spec
=============================================================================
