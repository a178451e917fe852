---------------------------- MODULE QueueLemmas ----------------------------
(***************************************************************************)
(* Facts about the operators of module Queue, for every mask and every     *)
(* slice: what an insert and a pop return, keep and preserve.              *)
(***************************************************************************)
EXTENDS Queue, FiniteSetTheorems, SequenceTheorems, WellFoundedInduction, TLAPS

Less == {p \in Nat \X Nat : p[1] < p[2]}

\* The order of the naturals has no infinite descent.
LEMMA LessWellFounded == IsWellFoundedOn(Less, Nat)
BY NatLessThanWellFounded, Zenon DEF OpToRel, Less

\* Every set of naturals that is not empty has a smallest element.
LEMMA LeastNatural ==
    ASSUME NEW T \in SUBSET Nat, T # {}
    PROVE  \E x \in T : \A y \in T : x <= y
<1>1. PICK x \in T : \A y \in T : <<y, x>> \notin Less
  BY LessWellFounded, WFMin
<1>2. ASSUME NEW y \in T PROVE x <= y
  <2>1. x \in Nat /\ y \in Nat
    OBVIOUS
  <2>2. ~(y < x)
    BY <1>1, <2>1 DEF Less
  <2>. QED
    BY <2>1, <2>2
<1>. QED
  BY <1>2

-----------------------------------------------------------------------------
\* sort.Search finds the cut of a sorted slice: what is before it is below the
\* id, what is at it or after it is not.
LEMMA SortSearchCuts ==
    ASSUME NEW ids \in Seq(Id), Sorted(ids), NEW id \in Id
    PROVE  /\ SortSearch(ids, id) \in 0..Len(ids)
           /\ \A j \in DOMAIN ids : ids[j] < id <=> j <= SortSearch(ids, id)
<1>. DEFINE Above == {i \in 0..Len(ids) : i < Len(ids) => ids[i + 1] >= id}
            Cut(i) == /\ \A j \in 1..i : ids[j] < id
                      /\ i < Len(ids) => ids[i + 1] >= id
<1>0. Len(ids) \in Nat /\ DOMAIN ids = 1..Len(ids) /\ \A j \in 1..Len(ids) : ids[j] \in Nat
  BY DEF Id
<1>1. PICK i \in Above : \A j \in Above : i <= j
  <2>1. Len(ids) \in Above /\ Above \subseteq Nat
    BY <1>0
  <2>. HIDE DEF Above
  <2>. QED
    BY <2>1, LeastNatural
<1>2. ASSUME NEW j \in 1..i PROVE ids[j] < id
  <2>1. i \in Nat /\ j \in 1..Len(ids) /\ j - 1 \in 0..Len(ids) /\ j - 1 < i
    BY <1>0
  <2>2. ASSUME j - 1 \in Above PROVE FALSE
    <3>. HIDE DEF Above
    <3>1. i <= j - 1
      BY <2>2, <1>1
    <3>. QED
      BY <3>1, <2>1, <1>0
  <2>. QED
    BY <2>1, <2>2, <1>0 DEF Id
<1>3. i \in 0..Len(ids) /\ Cut(i)
  BY <1>1, <1>2
<1>4. SortSearch(ids, id) \in 0..Len(ids) /\ Cut(SortSearch(ids, id))
  BY <1>3 DEF SortSearch
<1>5. ASSUME NEW k \in 0..Len(ids), Cut(k), NEW j \in DOMAIN ids
      PROVE  ids[j] < id <=> j <= k
  <2>1. CASE j <= k
    BY <2>1, <1>0, <1>5
  <2>2. CASE j > k
    <3>1. k + 1 \in DOMAIN ids /\ ids[k + 1] >= id
      BY <2>2, <1>0, <1>5
    <3>2. ids[k + 1] <= ids[j]
      BY <3>1, <2>2, <1>0 DEF Sorted
    <3>. QED
      BY <3>1, <3>2, <2>2, <1>0 DEF Id
  <2>. QED
    BY <2>1, <2>2, <1>0
<1>. HIDE DEF Cut
<1>. QED
  BY <1>4, <1>5

\* The position insertInSlice takes is that cut too, by either of its ways.
LEMMA InsertPositionCuts ==
    ASSUME NEW ids \in Seq(Id), Sorted(ids), NEW id \in Id
    PROVE  /\ InsertPosition(ids, id) \in 0..Len(ids)
           /\ \A j \in DOMAIN ids : ids[j] < id <=> j <= InsertPosition(ids, id)
<1>1. CASE Len(ids) > 0 /\ ids[Len(ids)] < id
  <2>1. ASSUME NEW j \in DOMAIN ids PROVE ids[j] < id
    <3>1. ids[j] <= ids[Len(ids)]
      BY <1>1 DEF Sorted, Id
    <3>. QED
      BY <3>1, <1>1 DEF Id
  <2>2. InsertPosition(ids, id) = Len(ids)
    BY <1>1 DEF InsertPosition
  <2>. QED
    BY <2>1, <2>2
<1>2. CASE ~(Len(ids) > 0 /\ ids[Len(ids)] < id)
  BY <1>2, SortSearchCuts DEF InsertPosition
<1>. QED
  BY <1>1, <1>2

-----------------------------------------------------------------------------
\* One id more, in its place; the slice stays a sorted slice of ids and holds
\* the ids it held, and the new one.
LEMMA InsertInSliceSorts ==
    ASSUME NEW ids \in Seq(Id), Sorted(ids), NEW id \in Id
    PROVE  /\ InsertInSlice(ids, id) \in Seq(Id)
           /\ Len(InsertInSlice(ids, id)) = Len(ids) + 1
           /\ Sorted(InsertInSlice(ids, id))
           /\ Elements(InsertInSlice(ids, id)) = Elements(ids) \cup {id}
<1>. DEFINE p == InsertPosition(ids, id)
            t == InsertInSlice(ids, id)
<1>0. /\ Len(ids) \in Nat /\ DOMAIN ids = 1..Len(ids)
      /\ \A j \in 1..Len(ids) : ids[j] \in Nat
      /\ id \in Nat
  BY DEF Id
<1>1. p \in 0..Len(ids) /\ \A j \in 1..Len(ids) : ids[j] < id <=> j <= p
  BY InsertPositionCuts, <1>0
<1>2. t = [j \in 1..(Len(ids) + 1) |-> IF j <= p THEN ids[j]
                                       ELSE IF j = p + 1 THEN id ELSE ids[j - 1]]
  BY DEF InsertInSlice
<1>. HIDE DEF p, t
<1>3. \A j \in 1..(Len(ids) + 1) : t[j] \in Nat
  BY <1>0, <1>1, <1>2
<1>4. t \in Seq(Id) /\ Len(t) = Len(ids) + 1 /\ DOMAIN t = 1..(Len(ids) + 1)
  <2>1. t \in [1..(Len(ids) + 1) -> Nat]
    BY <1>2, <1>3
  <2>. QED
    BY <2>1, <1>0 DEF Id
<1>5. Sorted(t)
  <2>. SUFFICES ASSUME NEW i \in 1..(Len(ids) + 1), NEW j \in 1..(Len(ids) + 1), i < j
                PROVE  t[i] <= t[j]
    BY <1>4 DEF Sorted
  <2>1. \A k, l \in 1..Len(ids) : k < l => ids[k] <= ids[l]
    BY <1>0 DEF Sorted
  <2>2. CASE j <= p
    BY <2>1, <2>2, <1>0, <1>1, <1>2
  <2>3. CASE j = p + 1
    BY <2>3, <1>0, <1>1, <1>2
  <2>4. CASE j > p + 1
    <3>1. t[j] = ids[j - 1] /\ j - 1 \in 1..Len(ids) /\ ~(j - 1 <= p)
      BY <2>4, <1>0, <1>1, <1>2
    <3>2. id <= ids[j - 1]
      BY <3>1, <1>0, <1>1
    <3>3. CASE i <= p
      BY <3>1, <3>3, <2>1, <1>0, <1>1, <1>2
    <3>4. CASE i = p + 1
      BY <3>1, <3>2, <3>4, <1>0, <1>1, <1>2
    <3>5. CASE i > p + 1
      <4>1. t[i] = ids[i - 1] /\ i - 1 \in 1..Len(ids) /\ i - 1 < j - 1
        BY <3>5, <1>0, <1>1, <1>2
      <4>. QED
        BY <4>1, <3>1, <2>1
    <3>. QED
      BY <3>3, <3>4, <3>5, <1>0, <1>1
  <2>. QED
    BY <2>2, <2>3, <2>4, <1>0, <1>1
<1>6. Elements(t) = Elements(ids) \cup {id}
  <2>1. ASSUME NEW j \in 1..(Len(ids) + 1) PROVE t[j] \in Elements(ids) \cup {id}
    <3>1. CASE j <= p
      BY <3>1, <1>0, <1>1, <1>2 DEF Elements
    <3>2. CASE j = p + 1
      BY <3>2, <1>0, <1>1, <1>2
    <3>3. CASE j > p + 1
      <4>1. t[j] = ids[j - 1] /\ j - 1 \in DOMAIN ids
        BY <3>3, <1>0, <1>1, <1>2
      <4>. QED
        BY <4>1 DEF Elements
    <3>. QED
      BY <3>1, <3>2, <3>3, <1>0, <1>1
  <2>2. id \in Elements(t)
    <3>1. p + 1 \in DOMAIN t /\ t[p + 1] = id
      BY <1>0, <1>1, <1>2, <1>4
    <3>. QED
      BY <3>1 DEF Elements
  <2>3. ASSUME NEW j \in DOMAIN ids PROVE ids[j] \in Elements(t)
    <3>1. CASE j <= p
      <4>1. j \in DOMAIN t /\ t[j] = ids[j]
        BY <3>1, <1>0, <1>1, <1>2, <1>4
      <4>. QED
        BY <4>1 DEF Elements
    <3>2. CASE j > p
      <4>1. j + 1 \in DOMAIN t /\ t[j + 1] = ids[j]
        BY <3>2, <1>0, <1>1, <1>2, <1>4
      <4>. QED
        BY <4>1 DEF Elements
    <3>. QED
      BY <3>1, <3>2, <1>0, <1>1
  <2>. QED
    BY <2>1, <2>2, <2>3, <1>4 DEF Elements
<1>. QED
  BY <1>4, <1>5, <1>6 DEF t
-----------------------------------------------------------------------------
\* What is left of a sorted slice when its head, its smallest id, is taken.
LEMMA TailSorts ==
    ASSUME NEW ids \in Seq(Id), Sorted(ids), Len(ids) > 0
    PROVE  /\ Head(ids) \in Elements(ids)
           /\ Tail(ids) \in Seq(Id)
           /\ Sorted(Tail(ids))
           /\ Elements(ids) = Elements(Tail(ids)) \cup {Head(ids)}
           /\ \A id \in Elements(ids) : Head(ids) <= id
<1>0. Len(ids) \in Nat /\ DOMAIN ids = 1..Len(ids) /\ Head(ids) = ids[1]
  OBVIOUS
<1>1. /\ Tail(ids) \in Seq(Id)
      /\ DOMAIN Tail(ids) = 1..(Len(ids) - 1)
      /\ \A j \in 1..(Len(ids) - 1) : Tail(ids)[j] = ids[j + 1]
  BY <1>0
<1>2. Sorted(Tail(ids))
  BY <1>0, <1>1 DEF Sorted
<1>3. Elements(Tail(ids)) \cup {Head(ids)} \subseteq Elements(ids)
  BY <1>0, <1>1 DEF Elements
<1>4. ASSUME NEW j \in DOMAIN ids PROVE ids[j] \in Elements(Tail(ids)) \cup {Head(ids)}
  <2>1. CASE j = 1
    BY <2>1, <1>0
  <2>2. CASE j # 1
    <3>1. j - 1 \in DOMAIN Tail(ids) /\ Tail(ids)[j - 1] = ids[j]
      BY <2>2, <1>0, <1>1
    <3>. QED
      BY <3>1 DEF Elements
  <2>. QED
    BY <2>1, <2>2
<1>5. ASSUME NEW j \in DOMAIN ids PROVE Head(ids) <= ids[j]
  <2>1. CASE j = 1
    BY <2>1, <1>0 DEF Id
  <2>2. CASE j # 1
    BY <2>2, <1>0 DEF Sorted
  <2>. QED
    BY <2>1, <2>2
<1>. QED
  BY <1>1, <1>2, <1>3, <1>4, <1>5 DEF Elements

-----------------------------------------------------------------------------
LEMMA EmptyIsWellFormed ==
    WellFormedQueue(EmptyQueue) /\ QueueIds(EmptyQueue) = {} /\ QueueLen(EmptyQueue) = 0
BY DEF WellFormedQueue, EmptyQueue, Sorted, QueueIds, Elements, QueueLen

\* The mask in terms of the ids a slice holds.
LEMMA WellFormedByElements ==
    ASSUME NEW q \in [high : Seq(Id), low : Seq(Id)]
    PROVE  WellFormedQueue(q) <=>
               /\ Sorted(q.high) /\ Sorted(q.low)
               /\ \A id \in Elements(q.high) : id < LowPriorityMask
               /\ \A id \in Elements(q.low) : id >= LowPriorityMask
BY DEF WellFormedQueue, Elements

\* Insert keeps the queue well formed and adds the id, nothing else.
LEMMA InsertKeepsWellFormed ==
    ASSUME NEW q, WellFormedQueue(q), NEW id \in Id
    PROVE  /\ WellFormedQueue(Insert(q, id))
           /\ QueueIds(Insert(q, id)) = QueueIds(q) \cup {id}
           /\ QueueLen(Insert(q, id)) = QueueLen(q) + 1
<1>0. /\ q \in [high : Seq(Id), low : Seq(Id)]
      /\ q.high \in Seq(Id) /\ q.low \in Seq(Id)
      /\ Sorted(q.high) /\ Sorted(q.low)
  BY DEF WellFormedQueue
<1>1. CASE id >= LowPriorityMask
  <2>. DEFINE t == InsertInSlice(q.low, id)
  <2>1. /\ t \in Seq(Id) /\ Len(t) = Len(q.low) + 1 /\ Sorted(t)
        /\ Elements(t) = Elements(q.low) \cup {id}
    BY <1>0, InsertInSliceSorts
  <2>2. Insert(q, id) = [q EXCEPT !.low = t]
    BY <1>1 DEF Insert
  <2>. HIDE DEF t
  <2>3. /\ Insert(q, id) \in [high : Seq(Id), low : Seq(Id)]
        /\ Insert(q, id).high = q.high /\ Insert(q, id).low = t
    BY <1>0, <2>1, <2>2
  <2>4. WellFormedQueue(Insert(q, id))
    BY <1>0, <1>1, <2>1, <2>3, WellFormedByElements
  <2>. QED
    BY <1>0, <2>1, <2>3, <2>4, SMTT(20) DEF QueueIds, QueueLen
<1>2. CASE ~(id >= LowPriorityMask)
  <2>. DEFINE t == InsertInSlice(q.high, id)
  <2>1. /\ t \in Seq(Id) /\ Len(t) = Len(q.high) + 1 /\ Sorted(t)
        /\ Elements(t) = Elements(q.high) \cup {id}
    BY <1>0, InsertInSliceSorts
  <2>2. Insert(q, id) = [q EXCEPT !.high = t]
    BY <1>2 DEF Insert
  <2>. HIDE DEF t
  <2>3. /\ Insert(q, id) \in [high : Seq(Id), low : Seq(Id)]
        /\ Insert(q, id).low = q.low /\ Insert(q, id).high = t
    BY <1>0, <2>1, <2>2
  <2>4. id < LowPriorityMask
    BY <1>2, MaskAssumption DEF Id
  <2>5. WellFormedQueue(Insert(q, id))
    BY <1>0, <2>1, <2>3, <2>4, WellFormedByElements
  <2>. QED
    BY <1>0, <2>1, <2>3, <2>5, SMTT(20) DEF QueueIds, QueueLen
<1>. QED
  BY <1>1, <1>2

\* Pop answers the smallest id of the queue and leaves the others.
LEMMA PopTakesSmallest ==
    ASSUME NEW q, WellFormedQueue(q), QueueLen(q) > 0
    PROVE  /\ PopId(q) \in QueueIds(q)
           /\ \A id \in QueueIds(q) : PopId(q) <= id
           /\ WellFormedQueue(PopRest(q))
           /\ QueueIds(q) = QueueIds(PopRest(q)) \cup {PopId(q)}
<1>0. /\ q \in [high : Seq(Id), low : Seq(Id)]
      /\ q.high \in Seq(Id) /\ q.low \in Seq(Id)
      /\ Sorted(q.high) /\ Sorted(q.low)
      /\ \A id \in Elements(q.high) : id \in Nat /\ id < LowPriorityMask
      /\ \A id \in Elements(q.low) : id \in Nat /\ id >= LowPriorityMask
  BY WellFormedByElements DEF WellFormedQueue, Elements, Id
<1>1. CASE Len(q.high) > 0
  <2>1. /\ Head(q.high) \in Elements(q.high)
        /\ Tail(q.high) \in Seq(Id) /\ Sorted(Tail(q.high))
        /\ Elements(q.high) = Elements(Tail(q.high)) \cup {Head(q.high)}
        /\ \A id \in Elements(q.high) : Head(q.high) <= id
    BY <1>0, <1>1, TailSorts
  <2>2. /\ PopId(q) = Head(q.high)
        /\ PopRest(q) \in [high : Seq(Id), low : Seq(Id)]
        /\ PopRest(q).high = Tail(q.high) /\ PopRest(q).low = q.low
    BY <1>0, <1>1, <2>1 DEF PopId, PopRest
  <2>3. WellFormedQueue(PopRest(q))
    BY <1>0, <2>1, <2>2, WellFormedByElements
  <2>4. ASSUME NEW id \in Elements(q.low) PROVE Head(q.high) <= id
    <3>1. /\ id \in Nat /\ id >= LowPriorityMask
          /\ Head(q.high) \in Nat /\ Head(q.high) < LowPriorityMask
      BY <1>0, <2>1
    <3>. QED
      BY <3>1, MaskAssumption
  <2>. QED
    BY <2>1, <2>2, <2>3, <2>4 DEF QueueIds
<1>2. CASE ~(Len(q.high) > 0)
  <2>0. Len(q.high) = 0 /\ Len(q.low) > 0 /\ Elements(q.high) = {}
    BY <1>0, <1>2 DEF QueueLen, Elements
  <2>1. /\ Head(q.low) \in Elements(q.low)
        /\ Tail(q.low) \in Seq(Id) /\ Sorted(Tail(q.low))
        /\ Elements(q.low) = Elements(Tail(q.low)) \cup {Head(q.low)}
        /\ \A id \in Elements(q.low) : Head(q.low) <= id
    BY <1>0, <2>0, TailSorts
  <2>2. /\ PopId(q) = Head(q.low)
        /\ PopRest(q) \in [high : Seq(Id), low : Seq(Id)]
        /\ PopRest(q).low = Tail(q.low) /\ PopRest(q).high = q.high
    BY <1>0, <1>2, <2>1 DEF PopId, PopRest
  <2>3. WellFormedQueue(PopRest(q))
    BY <1>0, <2>1, <2>2, WellFormedByElements
  <2>. QED
    BY <2>0, <2>1, <2>2, <2>3 DEF QueueIds
<1>. QED
  BY <1>1, <1>2

-----------------------------------------------------------------------------
(* Slices without repetitions. *)

NoRepeats(s) == \A i, j \in DOMAIN s : s[i] = s[j] => i = j

\* An id that is not in a slice yet makes no repetition, wherever it goes.
LEMMA InsertInSliceNoRepeats ==
    ASSUME NEW ids \in Seq(Id), Sorted(ids), NoRepeats(ids),
           NEW id \in Id, id \notin Elements(ids)
    PROVE  NoRepeats(InsertInSlice(ids, id))
<1>. DEFINE p == InsertPosition(ids, id)
            t == InsertInSlice(ids, id)
            from(j) == IF j <= p THEN j ELSE j - 1
<1>1. /\ p \in 0..Len(ids) /\ Len(ids) \in Nat /\ DOMAIN ids = 1..Len(ids)
      /\ t = [j \in 1..(Len(ids) + 1) |-> IF j <= p THEN ids[j]
                                         ELSE IF j = p + 1 THEN id ELSE ids[j - 1]]
  BY InsertPositionCuts DEF InsertInSlice
<1>2. /\ \A i, j \in 1..Len(ids) : ids[i] = ids[j] => i = j
      /\ \A i \in 1..Len(ids) : ids[i] # id
  BY <1>1 DEF NoRepeats, Elements
<1>. HIDE DEF p, t
<1>3. ASSUME NEW i \in 1..(Len(ids) + 1), NEW j \in 1..(Len(ids) + 1), t[i] = t[j]
      PROVE  i = j
  <2>1. CASE i = p + 1
    <3>1. t[i] = id
      BY <1>1, <2>1
    <3>2. ASSUME j # p + 1 PROVE FALSE
      <4>1. from(j) \in 1..Len(ids) /\ t[j] = ids[from(j)]
        BY <1>1, <3>2
      <4>. QED
        BY <4>1, <3>1, <1>2, <1>3
    <3>. QED
      BY <2>1, <3>2
  <2>2. CASE i # p + 1
    <3>1. from(i) \in 1..Len(ids) /\ t[i] = ids[from(i)]
      BY <1>1, <2>2
    <3>2. j # p + 1
      BY <3>1, <1>1, <1>2, <1>3
    <3>3. from(j) \in 1..Len(ids) /\ t[j] = ids[from(j)]
      BY <1>1, <3>2
    <3>4. from(i) = from(j)
      BY <3>1, <3>3, <1>2, <1>3
    <3>. QED
      BY <3>2, <3>4, <2>2, <1>1
  <2>. QED
    BY <2>1, <2>2
<1>4. NoRepeats(t)
  BY <1>1, <1>3 DEF NoRepeats
<1>. QED
  BY <1>4 DEF t

LEMMA TailNoRepeats ==
    ASSUME NEW ids \in Seq(Id), Len(ids) > 0, NoRepeats(ids)
    PROVE  NoRepeats(Tail(ids)) /\ Head(ids) \notin Elements(Tail(ids))
<1>1. /\ Len(ids) \in Nat /\ DOMAIN ids = 1..Len(ids) /\ Head(ids) = ids[1]
      /\ DOMAIN Tail(ids) = 1..(Len(ids) - 1)
      /\ \A j \in 1..(Len(ids) - 1) : Tail(ids)[j] = ids[j + 1]
  OBVIOUS
<1>. QED
  BY <1>1 DEF NoRepeats, Elements

QueueNoRepeats(q) == NoRepeats(q.high) /\ NoRepeats(q.low)

LEMMA InsertNoRepeats ==
    ASSUME NEW q, WellFormedQueue(q), QueueNoRepeats(q),
           NEW id \in Id, id \notin QueueIds(q)
    PROVE  QueueNoRepeats(Insert(q, id))
<1>1. /\ q \in [high : Seq(Id), low : Seq(Id)]
      /\ q.high \in Seq(Id) /\ Sorted(q.high) /\ NoRepeats(q.high) /\ id \notin Elements(q.high)
      /\ q.low \in Seq(Id) /\ Sorted(q.low) /\ NoRepeats(q.low) /\ id \notin Elements(q.low)
  BY DEF WellFormedQueue, QueueNoRepeats, QueueIds
<1>2. NoRepeats(InsertInSlice(q.high, id)) /\ NoRepeats(InsertInSlice(q.low, id))
  BY <1>1, InsertInSliceNoRepeats
<1>. QED
  BY <1>1, <1>2 DEF Insert, QueueNoRepeats

\* The id Pop answers is not queued any more.
LEMMA PopRemoves ==
    ASSUME NEW q, WellFormedQueue(q), QueueNoRepeats(q), QueueLen(q) > 0
    PROVE  QueueNoRepeats(PopRest(q)) /\ PopId(q) \notin QueueIds(PopRest(q))
<1>0. /\ q \in [high : Seq(Id), low : Seq(Id)]
      /\ q.high \in Seq(Id) /\ q.low \in Seq(Id)
      /\ NoRepeats(q.high) /\ NoRepeats(q.low)
      /\ \A id \in Elements(q.high) : id \in Nat /\ id < LowPriorityMask
      /\ \A id \in Elements(q.low) : id \in Nat /\ id >= LowPriorityMask
  BY WellFormedByElements DEF WellFormedQueue, Elements, Id, QueueNoRepeats
<1>1. CASE Len(q.high) > 0
  <2>1. NoRepeats(Tail(q.high)) /\ Head(q.high) \notin Elements(Tail(q.high))
    BY <1>0, <1>1, TailNoRepeats
  <2>2. Head(q.high) \in Elements(q.high)
    <3>1. 1 \in DOMAIN q.high /\ q.high[1] = Head(q.high)
      BY <1>0, <1>1
    <3>. QED
      BY <3>1 DEF Elements
  <2>3. Head(q.high) \notin Elements(q.low)
    BY <1>0, <2>2, MaskAssumption
  <2>4. PopId(q) = Head(q.high) /\ PopRest(q) = [q EXCEPT !.high = Tail(@)]
    BY <1>1 DEF PopId, PopRest
  <2>5. PopRest(q).high = Tail(q.high) /\ PopRest(q).low = q.low
    BY <1>0, <2>4
  <2>. QED
    BY <1>0, <2>1, <2>3, <2>4, <2>5 DEF QueueNoRepeats, QueueIds
<1>2. CASE ~(Len(q.high) > 0)
  <2>0. Len(q.low) > 0 /\ Elements(q.high) = {}
    BY <1>0, <1>2 DEF QueueLen, Elements
  <2>1. NoRepeats(Tail(q.low)) /\ Head(q.low) \notin Elements(Tail(q.low))
    BY <1>0, <2>0, TailNoRepeats
  <2>2. PopId(q) = Head(q.low) /\ PopRest(q) = [q EXCEPT !.low = Tail(@)]
    BY <1>2 DEF PopId, PopRest
  <2>3. PopRest(q).low = Tail(q.low) /\ PopRest(q).high = q.high
    BY <1>0, <2>2
  <2>. QED
    BY <1>0, <2>0, <2>1, <2>2, <2>3 DEF QueueNoRepeats, QueueIds
<1>. QED
  BY <1>1, <1>2

-----------------------------------------------------------------------------
(* How often an id is in a slice, and in a queue *)

Count(s, id) == Cardinality({i \in DOMAIN s : s[i] = id})
CountQueue(q, id) == Count(q.high, id) + Count(q.low, id)
OneIf(b) == IF b THEN 1 ELSE 0

LEMMA CountIsNat ==
    ASSUME NEW s \in Seq(Id), NEW id
    PROVE  IsFiniteSet({i \in DOMAIN s : s[i] = id}) /\ Count(s, id) \in Nat
<1>1. DOMAIN s = 1 .. Len(s) /\ Len(s) \in Nat
  OBVIOUS
<1>2. IsFiniteSet(DOMAIN s)
  BY <1>1, FS_Interval
<1>3. {i \in DOMAIN s : s[i] = id} \in SUBSET DOMAIN s
  OBVIOUS
<1>4. IsFiniteSet({i \in DOMAIN s : s[i] = id})
  BY <1>2, <1>3, FS_Subset
<1>. QED
  BY <1>4, FS_CardinalityType DEF Count

\* The sequence t is s with x at position p.
PutAt(s, t, p, x) ==
    /\ p \in 1 .. Len(s) + 1
    /\ DOMAIN t = 1 .. Len(s) + 1
    /\ t[p] = x
    /\ \A j \in 1 .. Len(s) : t[IF j < p THEN j ELSE j + 1] = s[j]

LEMMA CountOfPut ==
    ASSUME NEW s \in Seq(Id), NEW t, NEW p, NEW x, PutAt(s, t, p, x), NEW id
    PROVE  Count(t, id) = Count(s, id) + OneIf(x = id)
<1>. DEFINE S == {i \in DOMAIN s : s[i] = id}
            T == {i \in DOMAIN t : t[i] = id}
            f == [j \in S |-> IF j < p THEN j ELSE j + 1]
<1>0. /\ Len(s) \in Nat /\ DOMAIN s = 1 .. Len(s) /\ DOMAIN t = 1 .. Len(s) + 1
      /\ p \in 1 .. Len(s) + 1 /\ t[p] = x
      /\ \A j \in 1 .. Len(s) : t[IF j < p THEN j ELSE j + 1] = s[j]
  BY DEF PutAt
<1>1. \A j \in S : f[j] \in T \ {p}
  BY <1>0
<1>2. \A j, k \in S : f[j] = f[k] => j = k
  BY <1>0
<1>3. ASSUME NEW k \in T \ {p} PROVE \E j \in S : f[j] = k
  <2>1. CASE k < p
    <3>1. k \in S /\ f[k] = k
      BY <1>0, <2>1
    <3>. QED
      BY <3>1
  <2>2. CASE k > p
    <3>1. k - 1 \in 1 .. Len(s) /\ ~(k - 1 < p) /\ k - 1 + 1 = k
      BY <1>0, <2>2
    <3>2. s[k - 1] = t[k]
      BY <1>0, <3>1
    <3>3. k - 1 \in S /\ f[k - 1] = k
      BY <1>0, <3>1, <3>2
    <3>. QED
      BY <3>3
  <2>. QED
    BY <1>0, <2>1, <2>2
<1>4. ExistsBijection(S, T \ {p})
  <2>1. f \in [S -> T \ {p}]
    BY <1>1
  <2>2. f \in Bijection(S, T \ {p})
    <3>. HIDE DEF f, S, T
    <3>1. f \in Injection(S, T \ {p})
      BY <1>2, <2>1 DEF Injection, IsInjective
    <3>2. f \in Surjection(S, T \ {p})
      BY <1>3, <2>1 DEF Surjection
    <3>. QED
      BY <3>1, <3>2 DEF Bijection
  <2>. QED
    BY <2>2 DEF ExistsBijection
<1>5. IsFiniteSet(S)
  BY CountIsNat
<1>6. Count(s, id) = Cardinality(S) /\ Count(t, id) = Cardinality(T) /\ (p \in T <=> x = id)
  BY <1>0 DEF Count
<1>. HIDE DEF S, T, f
<1>7. IsFiniteSet(T \ {p}) /\ Cardinality(T \ {p}) = Cardinality(S) /\ Cardinality(S) \in Nat
  BY <1>4, <1>5, FS_Bijection, FS_CardinalityType
<1>8. CASE p \in T
  <2>1. T = (T \ {p}) \cup {p}
    BY <1>8
  <2>2. Cardinality((T \ {p}) \cup {p}) = Cardinality(T \ {p}) + 1
    BY <1>7, FS_AddElement
  <2>. QED
    BY <1>6, <1>7, <1>8, <2>1, <2>2 DEF OneIf
<1>9. CASE p \notin T
  <2>1. T = T \ {p}
    BY <1>9
  <2>. QED
    BY <1>6, <1>7, <1>9, <2>1, SMTT(20) DEF OneIf
<1>. QED
  BY <1>8, <1>9

LEMMA CountOfAppend ==
    ASSUME NEW s \in Seq(Id), NEW x \in Id, NEW id
    PROVE  Count(Append(s, x), id) = Count(s, id) + OneIf(x = id)
<1>1. /\ Len(s) \in Nat /\ DOMAIN Append(s, x) = 1 .. Len(s) + 1
      /\ Append(s, x)[Len(s) + 1] = x /\ \A j \in 1 .. Len(s) : Append(s, x)[j] = s[j]
  OBVIOUS
<1>2. PutAt(s, Append(s, x), Len(s) + 1, x)
  BY <1>1 DEF PutAt
<1>. QED
  BY <1>2, CountOfPut

LEMMA CountOfTail ==
    ASSUME NEW s \in Seq(Id), s # <<>>, NEW id
    PROVE  Count(s, id) = Count(Tail(s), id) + OneIf(Head(s) = id)
<1>. DEFINE t == Tail(s)
            x == Head(s)
<1>1. /\ t \in Seq(Id) /\ Len(t) = Len(s) - 1 /\ Len(s) \in Nat /\ Len(s) > 0
      /\ DOMAIN s = 1 .. Len(s) /\ x = s[1] /\ \A j \in 1 .. Len(s) - 1 : t[j] = s[j + 1]
  OBVIOUS
<1>. HIDE DEF t, x
<1>2. PutAt(t, s, 1, x)
  BY <1>1 DEF PutAt
<1>3. Count(s, id) = Count(t, id) + OneIf(x = id)
  BY <1>1, <1>2, CountOfPut
<1>. QED
  BY <1>3 DEF t, x

LEMMA CountOfInsert ==
    ASSUME NEW q, WellFormedQueue(q), NEW x \in Id, NEW id
    PROVE  CountQueue(Insert(q, x), id) = CountQueue(q, id) + OneIf(x = id)
<1>0. /\ q.high \in Seq(Id) /\ q.low \in Seq(Id) /\ Sorted(q.high) /\ Sorted(q.low)
      /\ q \in [high : Seq(Id), low : Seq(Id)]
  BY DEF WellFormedQueue
<1>1. ASSUME NEW s \in Seq(Id), Sorted(s)
      PROVE  Count(InsertInSlice(s, x), id) = Count(s, id) + OneIf(x = id)
  <2>1. InsertPosition(s, x) \in 0 .. Len(s) /\ Len(s) \in Nat
    BY <1>1, InsertPositionCuts
  <2>. PICK i : i = InsertPosition(s, x)
    OBVIOUS
  <2>2. InsertInSlice(s, x) = [j \in 1 .. (Len(s) + 1) |-> IF j <= i THEN s[j]
                                                          ELSE IF j = i + 1 THEN x ELSE s[j - 1]]
    BY DEF InsertInSlice
  <2>3. PutAt(s, InsertInSlice(s, x), i + 1, x)
    BY <2>1, <2>2 DEF PutAt
  <2>. QED
    BY <2>3, CountOfPut
<1>2. Count(q.high, id) \in Nat /\ Count(q.low, id) \in Nat /\ OneIf(x = id) \in Nat
  BY <1>0, CountIsNat DEF OneIf
<1>3. CASE x >= LowPriorityMask
  <2>1. Insert(q, x).low = InsertInSlice(q.low, x) /\ Insert(q, x).high = q.high
    BY <1>0, <1>3 DEF Insert
  <2>. QED
    BY <1>0, <1>1, <1>2, <2>1 DEF CountQueue
<1>4. CASE ~(x >= LowPriorityMask)
  <2>1. Insert(q, x).high = InsertInSlice(q.high, x) /\ Insert(q, x).low = q.low
    BY <1>0, <1>4 DEF Insert
  <2>. QED
    BY <1>0, <1>1, <1>2, <2>1 DEF CountQueue
<1>. QED
  BY <1>3, <1>4

LEMMA CountOfPop ==
    ASSUME NEW q, WellFormedQueue(q), QueueLen(q) > 0, NEW id
    PROVE  CountQueue(q, id) = CountQueue(PopRest(q), id) + OneIf(PopId(q) = id)
<1>0. /\ q.high \in Seq(Id) /\ q.low \in Seq(Id) /\ q \in [high : Seq(Id), low : Seq(Id)]
      /\ Len(q.high) \in Nat /\ Len(q.low) \in Nat
  BY DEF WellFormedQueue
<1>1. Count(q.high, id) \in Nat /\ Count(q.low, id) \in Nat
  BY <1>0, CountIsNat
<1>2. CASE Len(q.high) > 0
  <2>1. /\ PopRest(q).high = Tail(q.high) /\ PopRest(q).low = q.low /\ PopId(q) = Head(q.high)
        /\ q.high # <<>> /\ Tail(q.high) \in Seq(Id)
    BY <1>0, <1>2 DEF PopRest, PopId
  <2>2. Count(q.high, id) = Count(Tail(q.high), id) + OneIf(Head(q.high) = id)
    BY <1>0, <2>1, CountOfTail
  <2>3. Count(Tail(q.high), id) \in Nat
    BY <2>1, CountIsNat
  <2>. QED
    BY <1>1, <2>1, <2>2, <2>3 DEF CountQueue, OneIf
<1>3. CASE ~(Len(q.high) > 0)
  <2>1. /\ PopRest(q).low = Tail(q.low) /\ PopRest(q).high = q.high /\ PopId(q) = Head(q.low)
        /\ q.low # <<>> /\ Tail(q.low) \in Seq(Id)
    BY <1>0, <1>3 DEF PopRest, PopId, QueueLen
  <2>2. Count(q.low, id) = Count(Tail(q.low), id) + OneIf(Head(q.low) = id)
    BY <1>0, <2>1, CountOfTail
  <2>3. Count(Tail(q.low), id) \in Nat
    BY <2>1, CountIsNat
  <2>. QED
    BY <1>1, <2>1, <2>2, <2>3 DEF CountQueue, OneIf
<1>. QED
  BY <1>2, <1>3
=============================================================================
