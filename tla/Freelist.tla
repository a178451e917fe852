------------------------------ MODULE Freelist ------------------------------
(***************************************************************************)
(* The free list of boltdb, boltdb/bolt/freelist.go: the pages that may be *)
(* allocated, and by transaction the pages that it freed and that a reader *)
(* of an earlier version may still use.  The code keeps the ids sorted and *)
(* a cache of all of them; here they are sets, and the cache is All.       *)
(***************************************************************************)
EXTENDS Integers, FiniteSets

CONSTANTS
    IdsPerPage,   \* ids that fit on one page of the list
    CountMax      \* 0xFFFF, the count a page header cannot hold any more

ASSUME FreelistAssumption ==
    /\ IdsPerPage \in Nat \ {0}
    /\ CountMax \in Nat \ {0}

\* A function with one more or one changed argument, as maps have it.
Assign(f, key, value) == [x \in DOMAIN f \cup {key} |-> IF x = key THEN value ELSE f[x]]

\* pending maps the transactions that freed pages to these pages.
EmptyFreelist == [ids |-> {}, pending |-> << >>]

PendingOf(f, txid) == IF txid \in DOMAIN f.pending THEN f.pending[txid] ELSE {}
AllPending(f) == UNION {f.pending[t] : t \in DOMAIN f.pending}
All(f) == f.ids \cup AllPending(f)

Least(S) == CHOOSE x \in S : \A y \in S : x <= y
Greatest(S) == CHOOSE x \in S : \A y \in S : x >= y

\* Pages a list of count ids takes; size counts the ids freed and pending.
ListPages(count) == count \div IdsPerPage + 1

-----------------------------------------------------------------------------
\* The starts of n free pages in a row; allocate scans the sorted ids and takes
\* the first of them.
Runs(f, n) == {p \in f.ids : p .. (p + n - 1) \subseteq f.ids}

Allocate(f, n) ==
    LET p == Least(Runs(f, n)) IN [f EXCEPT !.ids = @ \ (p .. (p + n - 1))]

\* free panics when a page is on the list already.
MayFree(f, pages) == pages \cap All(f) = {} /\ pages \cap {0, 1} = {}

Free(f, txid, pages) ==
    [f EXCEPT !.pending = Assign(@, txid, PendingOf(f, txid) \cup pages)]

\* What txid or an older transaction freed becomes available.
Release(f, txid) ==
    LET old == {t \in DOMAIN f.pending : t <= txid}
    IN  [ids     |-> f.ids \cup UNION {f.pending[t] : t \in old},
         pending |-> [t \in DOMAIN f.pending \ old |-> f.pending[t]]]

Rollback(f, txid) ==
    [f EXCEPT !.pending = [t \in DOMAIN @ \ {txid} |-> @[t]]]

\* A list of CountMax ids or more is written with its length as the first
\* element, and read without its last.
ReadList(ids) ==
    IF Cardinality(ids) < CountMax THEN ids ELSE ids \ {Greatest(ids)}

\* Open reads the list; every id on it is free then.
Read(ids) == [EmptyFreelist EXCEPT !.ids = ReadList(ids)]

\* After a rollback the list is read again, without what is still pending.
Reload(f, ids) == [f EXCEPT !.ids = ReadList(ids) \ AllPending(f)]
=============================================================================
