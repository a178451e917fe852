------------------------------- MODULE Queue -------------------------------
(***************************************************************************)
(* The in-memory queue of message ids, store/queue.go: two slices sorted   *)
(* by id, one for the high-priority ids (below the mask) and one for the   *)
(* low-priority ids (the mask bit set).  Only operators: the machines      *)
(* that own such a queue are PriorityQueue and Dispatcher.                 *)
(***************************************************************************)
EXTENDS Integers, Sequences

CONSTANT LowPriorityMask   \* LOW_PRIORITY_MASK, 1<<63 in the code

ASSUME MaskAssumption == LowPriorityMask \in Nat \ {0}

Id == Nat

EmptyQueue == [high |-> <<>>, low |-> <<>>]

\* sort.Search of the standard library by its contract: the first position
\* (counted from 0) whose element is not below id, Len(ids) if there is none.
SortSearch(ids, id) ==
    CHOOSE i \in 0..Len(ids) :
        /\ \A j \in 1..i : ids[j] < id
        /\ i < Len(ids) => ids[i + 1] >= id

\* The position at which insertInSlice puts id: the end when the last
\* element is below it (the common case), else the binary search's answer.
InsertPosition(ids, id) ==
    IF Len(ids) > 0 /\ ids[Len(ids)] < id
    THEN Len(ids)
    ELSE SortSearch(ids, id)

\* Everything from the position on moves up by one and id takes its place.
InsertInSlice(ids, id) ==
    LET i == InsertPosition(ids, id)
    IN  [j \in 1..(Len(ids) + 1) |-> IF j <= i THEN ids[j]
                                     ELSE IF j = i + 1 THEN id ELSE ids[j - 1]]

\* Mutant: the test of the mask is the wrong way round.
InsertSwapped(q, id) ==
    IF id < LowPriorityMask
    THEN [q EXCEPT !.low  = InsertInSlice(@, id)]
    ELSE [q EXCEPT !.high = InsertInSlice(@, id)]

Insert(q, id) ==
    IF id >= LowPriorityMask
    THEN [q EXCEPT !.low  = InsertInSlice(@, id)]
    ELSE [q EXCEPT !.high = InsertInSlice(@, id)]

QueueLen(q) == Len(q.low) + Len(q.high)

\* Mutant: Pop answers from the low slice first.
PopIdLowFirst(q) == IF Len(q.low) > 0 THEN Head(q.low) ELSE Head(q.high)

\* Pop returns an id and changes the queue: one operator for each.  Popping
\* an empty queue would index an empty slice; every caller tests Len first.
PopId(q) == IF Len(q.high) > 0 THEN Head(q.high) ELSE Head(q.low)

PopRest(q) ==
    IF Len(q.high) > 0
    THEN [q EXCEPT !.high = Tail(@)]
    ELSE [q EXCEPT !.low  = Tail(@)]

-----------------------------------------------------------------------------
Elements(s) == {s[i] : i \in DOMAIN s}
QueueIds(q) == Elements(q.high) \cup Elements(q.low)

Sorted(s) == \A i, j \in DOMAIN s : i < j => s[i] <= s[j]

\* What every queue the program holds satisfies: both slices sorted, and the
\* mask separates them.
WellFormedQueue(q) ==
    /\ q \in [high : Seq(Id), low : Seq(Id)]
    /\ Sorted(q.high)
    /\ Sorted(q.low)
    /\ \A i \in DOMAIN q.high : q.high[i] < LowPriorityMask
    /\ \A i \in DOMAIN q.low  : q.low[i] >= LowPriorityMask
=============================================================================
