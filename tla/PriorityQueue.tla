--------------------------- MODULE PriorityQueue ---------------------------
(***************************************************************************)
(* store.PriorityQueue as a machine: any sequence of Insert, and of Pop    *)
(* when the queue is not empty (how disp/dispatcher.go calls it).  popped  *)
(* is the answer of the call that just returned, <<>> after an Insert.     *)
(***************************************************************************)
EXTENDS Queue

CONSTANTS Ids,       \* the ids that may be inserted, any number of times each
          MaxLen     \* bound on the length of the queue

ASSUME BoundsAssumption == Ids \subseteq Id /\ MaxLen \in Nat

VARIABLES q, popped

vars == <<q, popped>>

TypeOK ==
    /\ q \in [high : Seq(Ids), low : Seq(Ids)]
    /\ popped \in {<<>>} \cup {<<id>> : id \in Ids}

Init == q = EmptyQueue /\ popped = <<>>

InsertCall(id) ==
    /\ QueueLen(q) < MaxLen
    /\ q' = Insert(q, id)
    /\ popped' = <<>>

PopCall ==
    /\ QueueLen(q) > 0
    /\ q' = PopRest(q)
    /\ popped' = <<PopId(q)>>

Next == (\E id \in Ids : InsertCall(id)) \/ PopCall

Spec == Init /\ [][Next]_vars

-----------------------------------------------------------------------------
\* Both slices stay sorted and the mask separates them, whatever the order of
\* the inserts: the fast path of insertInSlice and its binary search agree.
WellFormed == WellFormedQueue(q)

\* The two slices together behave as one sorted list from which Pop takes the
\* smallest id: the refinement of SortedList.
Flat == INSTANCE SortedList WITH list <- q.high \o q.low, taken <- popped
RefinesSortedList == Flat!Spec
=============================================================================
