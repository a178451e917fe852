----------------------------- MODULE BoltBucket -----------------------------
(***************************************************************************)
(* Write transactions on one bucket of boltdb, one after the other: the    *)
(* functions the message store calls, then rebalance in any order of the   *)
(* nodes (Go ranges over a map), then spill.  Beside the tree runs what    *)
(* the bucket ought to hold, a map and a sequence number.                  *)
(***************************************************************************)
EXTENDS BoltTree

CONSTANTS
    Keys,          \* keys, in their order
    Vals,
    FirstKeys,     \* the bucket a run begins with holds some of these
    MaxTxs,        \* bound on the transactions
    MaxOps         \* bound on the calls in one of them

VARIABLES
    file,          \* pages, free list, high water mark, and the header of the bucket
    t,             \* the bucket as the open transaction has it
    phase,         \* "idle", "ops" or "rebalance"
    want,          \* what the bucket ought to hold, or NoBucket
    ops

vars == <<file, t, phase, want, ops>>

NoBucket == [exists |-> FALSE]
Bucket(map, seq) == [exists |-> TRUE, map |-> map, seq |-> seq]

\* The root bucket is one leaf page, top, with the header if there is one.
NewFile == [pages |-> << >>, free |-> EmptyFreelist, hwm |-> 4, txid |-> 1,
            top |-> 3, header |-> NoBucket]

\* Commit of the bucket and then of the root bucket that holds its header.
Committed(base, u) ==
    LET top == [WritePage(FreePages(u, {base.top}), TRUE, << >>) EXCEPT !.t.panic = u.panic]
    IN  [base EXCEPT !.pages = u.pages, !.free = top.t.free, !.hwm = top.t.hwm,
                     !.top = top.page,
                     !.header = [exists |-> TRUE, at |-> Header(u.root, u.sequence, u.inline)]]

\* beginRWTx, when there are no readers.
Begun(base) == [base EXCEPT !.txid = @ + 1, !.free = Release(@, base.txid)]

\* The file after one transaction that made the bucket and put keys.
FileWith(keys) ==
    LET base  == Begun(NewFile)
        empty == Open(base, NewHeader)
    IN  IF keys = {} THEN NewFile
        ELSE Committed(base, SpillBucket(
                FoldLeft(LAMBDA u, k : Put(u, k, CHOOSE v \in Vals \ Wide : TRUE),
                         empty, InOrder(keys, LAMBDA k : k))))

Init ==
    /\ \E keys \in FirstKeys :
          /\ file = FileWith(keys)
          /\ want = IF keys = {} THEN NoBucket
                    ELSE Bucket([k \in keys |-> CHOOSE v \in Vals \ Wide : TRUE], 0)
    /\ t = Open(file, NewHeader)
    /\ phase = "idle"
    /\ ops = 0

Begin ==
    /\ phase = "idle"
    /\ file.txid < MaxTxs + 2
    /\ file' = Begun(file)
    /\ t' = Open(file', IF file.header.exists THEN file.header.at ELSE NewHeader)
    /\ phase' = "ops"
    /\ ops' = 0
    /\ UNCHANGED want

Call ==
    /\ phase = "ops"
    /\ ops < MaxOps
    /\ ops' = ops + 1
    /\ UNCHANGED <<file, phase>>

\* CreateBucketIfNotExists: an empty bucket, inline.
CreateBucket ==
    /\ Call
    /\ ~want.exists
    /\ t' = [Materialize([t EXCEPT !.root = 0, !.sequence = 0, !.inline = << >>], 0, None)
                EXCEPT !.sequence = 0]
    /\ want' = Bucket(<< >>, 0)

\* Mutant: only the root page of the bucket is given back.
DeleteBucketRoot ==
    /\ Call
    /\ want.exists
    /\ t' = [(IF t.root = 0 THEN t ELSE FreePages(t, PageSpan(t, t.root)))
                EXCEPT !.root = 0, !.nodes = << >>, !.rootNode = None]
    /\ want' = NoBucket

DeleteBucket ==
    /\ Call
    /\ want.exists
    /\ t' = FreeBucket([t EXCEPT !.nodes = << >>, !.rootNode = None])
    /\ want' = NoBucket

PutKey(k, v) ==
    /\ Call
    /\ want.exists
    /\ t' = Put(t, k, v)
    /\ want' = [want EXCEPT !.map = (k :> v) @@ @]

DeleteKey(k) ==
    /\ Call
    /\ want.exists
    /\ t' = Delete(t, k)
    /\ want' = [want EXCEPT !.map = [j \in DOMAIN @ \ {k} |-> @[j]]]

Sequence ==
    /\ Call
    /\ want.exists
    /\ t' = NextSequence(t)
    /\ want' = [want EXCEPT !.seq = @ + 1]

\* Commit: rebalance visits the nodes in any order.
StartCommit ==
    /\ phase = "ops"
    /\ phase' = "rebalance"
    /\ UNCHANGED <<file, t, want, ops>>

RebalanceNode(id) ==
    /\ phase = "rebalance"
    /\ t.nodes[id].unbalanced
    /\ t' = Rebalance(t, id)
    /\ UNCHANGED <<file, phase, want, ops>>

Commit ==
    /\ phase = "rebalance"
    /\ \A id \in DOMAIN t.nodes : ~t.nodes[id].unbalanced
    /\ LET u == SpillBucket(t)
       IN  /\ t' = u
           /\ file' = IF want.exists THEN Committed(file, u)
                      ELSE [Committed(file, u) EXCEPT !.header = NoBucket]
    /\ phase' = "idle"
    /\ UNCHANGED <<want, ops>>

Next ==
    \/ Begin \/ CreateBucket \/ DeleteBucket \/ Sequence \/ StartCommit \/ Commit
    \/ \E k \in Keys : DeleteKey(k) \/ \E v \in Vals : PutKey(k, v)
    \/ \E id \in DOMAIN t.nodes : RebalanceNode(id)

Spec == Init /\ [][Next]_vars

-----------------------------------------------------------------------------
Saved == Open(file, file.header.at)

\* Within a transaction Get finds what was put last and nothing that was
\* deleted, through the nodes and the pages (bucket.go:256-269).
GetFindsLastPut ==
    phase = "ops" /\ want.exists =>
        \A k \in Keys : Get(t, k) = {want.map[j] : j \in {k} \cap DOMAIN want.map}

\* A committed bucket, walked with a cursor, yields exactly what it ought to
\* hold in the order of the keys, and its sequence counts on (cursor.go:209-234,
\* bucket.go:329-345, 350-361).
WalkYieldsAll ==
    phase = "idle" =>
        /\ file.header.exists = want.exists
        /\ want.exists =>
              /\ ForEach(Saved) = [i \in 1 .. Cardinality(DOMAIN want.map) |->
                                     LET k == InOrder(DOMAIN want.map, LAMBDA j : j)[i]
                                     IN  Item(k, want.map[k])]
              /\ Saved.sequence = want.seq

\* No page is lost and none has two owners when a transaction has committed
\* (tx.go:326-395).
PagesAccounted ==
    phase = "idle" =>
        LET tree == IF file.header.exists /\ Saved.root # 0 THEN PagesUnder(Saved, Saved.root) ELSE {}
        IN  /\ tree \cup {file.top} \cup All(file.free) = 3 .. (file.hwm - 1)
            /\ tree \cap All(file.free) = {} /\ file.top \notin tree \cup All(file.free)

\* A committed tree has all its leaves at one depth, no empty page, at least two
\* items on the root if it is a branch, and each branch item has the key
\* its page begins with.
RECURSIVE Depths(_, _)
Depths(u, id) ==
    IF u.pages[id].leaf THEN {0}
    ELSE UNION {{d + 1 : d \in Depths(u, link.to)} : link \in Range(u.pages[id].items)}

RECURSIVE Ordered(_, _)
Ordered(u, id) ==
    u.pages[id].leaf \/
    \A link \in Range(u.pages[id].items) :
        /\ u.pages[link.to].items # << >>
        /\ u.pages[link.to].items[1].key = link.key
        /\ Ordered(u, link.to)

TreeIsBalanced ==
    phase = "idle" /\ file.header.exists /\ Saved.root # 0 =>
        /\ Cardinality(Depths(Saved, Saved.root)) = 1
        /\ Ordered(Saved, Saved.root)
        /\ Saved.pages[Saved.root].leaf \/ Len(Saved.pages[Saved.root].items) > 1

\* None of the code's assertions fails: a page is not freed twice, a node that
\* is rebalanced has a sibling (freelist.go:116, node.go:455).
NeverPanics == ~t.panic

\* A commit leaves a tree the next transaction can work with, and gives every
\* page one owner, without tripping over the code's own assertions.
TreeIsSound == NeverPanics /\ PagesAccounted /\ TreeIsBalanced
=============================================================================
