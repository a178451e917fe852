----------------------------- MODULE SortedList -----------------------------
(***************************************************************************)
(* What the queue of store/queue.go promises to the dispatcher, without    *)
(* its representation: one list of ids, always in increasing order.        *)
(* Adding an id puts it anywhere that keeps the order; taking one takes    *)
(* the smallest.  As the mask bit makes every low-priority id larger than  *)
(* every high-priority one, "smallest first" is also "high before low,     *)
(* and oldest first within a priority".                                    *)
(***************************************************************************)
EXTENDS Integers, Sequences

CONSTANT Ids

VARIABLES list, taken

InOrder(s) == \A i, j \in DOMAIN s : i < j => s[i] <= s[j]

\* t is s with id put somewhere.
IsInsertion(t, s, id) ==
    /\ Len(t) = Len(s) + 1
    /\ \E k \in 1..Len(t) :
          /\ t[k] = id
          /\ \A j \in 1..Len(s) : s[j] = IF j < k THEN t[j] ELSE t[j + 1]

Init == list = <<>> /\ taken = <<>>

Add(id) ==
    /\ IsInsertion(list', list, id)
    /\ InOrder(list')
    /\ taken' = <<>>

Take ==
    /\ list # <<>>
    /\ list' = Tail(list)
    /\ taken' = <<Head(list)>>

Next == (\E id \in Ids : Add(id)) \/ Take

Spec == Init /\ [][Next]_<<list, taken>>
=============================================================================
