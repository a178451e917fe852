------------------------------ MODULE BoltTree ------------------------------
(***************************************************************************)
(* The B+tree of a bucket of boltdb (boltdb/bolt bucket.go, node.go,       *)
(* cursor.go): how a write transaction finds, changes, rebalances and      *)
(* writes it, and how a cursor walks it.                                   *)
(*                                                                         *)
(* Only operators, on a record t: the pages of the file, the free list and *)
(* the high water mark; then the bucket as the transaction sees it, with   *)
(* the pages it has turned into nodes (Bucket.nodes).  A node is named by  *)
(* its page until it is spilled.  An item of a leaf is a key with a value, *)
(* one of a branch is a key with a page.  A panic of the code sets         *)
(* t.panic.                                                                *)
(***************************************************************************)
EXTENDS Freelist, SequencesExt, TLC

CONSTANTS
    PageSize,   \* what fits on a page
    Wide        \* the values that take three times the space of the others

MinKeysPerPage == 2
None == -1      \* no parent, no root node, no page

Item(key, val) == [key |-> key, val |-> val]
Link(key, page) == [key |-> key, to |-> page]

ItemSize(item) == IF "val" \in DOMAIN item /\ item.val \in Wide THEN 3 ELSE 1
SizeOf(items) == FoldLeft(LAMBDA size, item : size + ItemSize(item), 0, items)

Page(leaf, items) == [leaf |-> leaf, items |-> items]
PagesTaken(items) == SizeOf(items) \div PageSize + 1

\* A bucket's header: its root page, or 0 and the page inline.
Header(root, sequence, inline) == [root |-> root, sequence |-> sequence, inline |-> inline]
NewHeader == Header(0, 0, << >>)

\* A bucket opened by a transaction: nothing is a node yet.
Open(base, header) ==
    [pages |-> base.pages, free |-> base.free, hwm |-> base.hwm, txid |-> base.txid,
     root |-> header.root, sequence |-> header.sequence, inline |-> header.inline,
     rootNode |-> None, nodes |-> << >>, panic |-> FALSE]

\* The elements of S by their keys.
InOrder(S, Key(_)) ==
    [i \in 1 .. Cardinality(S) |->
        CHOOSE x \in S : Cardinality({y \in S : Key(y) < Key(x)}) = i - 1]

-----------------------------------------------------------------------------
\* pageNode: the node of a page when there is one, else the page.
At(t, id) ==
    IF id \in DOMAIN t.nodes THEN Page(t.nodes[id].leaf, t.nodes[id].inodes)
    ELSE IF t.root = 0 THEN Page(TRUE, t.inline)
    ELSE t.pages[id]

\* sort.Search, by bisection: in a sorted sequence the first item with a key
\* that is not below.
RECURSIVE Bisect(_, _, _, _)
Bisect(items, key, i, j) ==
    LET h == (i + j) \div 2
    IN  IF i = j THEN i
        ELSE IF items[h].key < key THEN Bisect(items, key, h + 1, j)
        ELSE Bisect(items, key, i, h)

IndexOf(items, key) == Bisect(items, key, 1, Len(items) + 1)
Exact(items, key) ==
    IndexOf(items, key) <= Len(items) /\ items[IndexOf(items, key)].key = key

\* On a branch the last item with a key that is not above, or the first item.
BranchIndex(items, key) ==
    IF Exact(items, key) \/ IndexOf(items, key) = 1
    THEN IndexOf(items, key) ELSE IndexOf(items, key) - 1

\* Cursor.search: the pages from the root to the leaf, each with the index.
RECURSIVE Search(_, _, _)
Search(t, key, id) ==
    LET p == At(t, id)
    IN  IF p.leaf THEN << [id |-> id, index |-> IndexOf(p.items, key)] >>
        ELSE LET i == BranchIndex(p.items, key)
             IN  << [id |-> id, index |-> i] >> \o Search(t, key, p.items[i].to)

Seek(t, key) == Last(Search(t, key, t.root))

\* Bucket.Get, {} for no value.
Get(t, key) ==
    LET leaf == At(t, Seek(t, key).id).items
    IN  {leaf[i].val : i \in {j \in DOMAIN leaf : leaf[j].key = key}}

\* Cursor.first and next; a leaf that is empty ends the walk.
RECURSIVE Down(_, _, _)
Down(t, stack, id) ==
    LET p == At(t, id)
        here == Append(stack, [id |-> id, index |-> 1])
    IN  IF p.leaf THEN here ELSE Down(t, here, p.items[1].to)

RECURSIVE Walk(_, _)
Walk(t, stack) ==
    LET leaf  == At(t, Last(stack).id).items
        more  == {i \in DOMAIN stack : stack[i].index < Len(At(t, stack[i].id).items)}
        top   == Greatest(more)
        moved == Append(SubSeq(stack, 1, top - 1), [stack[top] EXCEPT !.index = @ + 1])
        p     == At(t, stack[top].id)
    IN  IF leaf = << >> THEN << >>
        ELSE << leaf[Last(stack).index] >>
             \o (IF more = {} THEN << >>
                 ELSE Walk(t, IF p.leaf THEN moved
                              ELSE Down(t, moved, p.items[Last(moved).index].to)))

ForEach(t) == Walk(t, Down(t, << >>, t.root))

-----------------------------------------------------------------------------
\* Bucket.node: a page becomes a node.
Materialize(t, id, parent) ==
    IF id \in DOMAIN t.nodes THEN t
    ELSE LET p == At(t, id)
             n == [leaf |-> p.leaf, inodes |-> p.items, unbalanced |-> FALSE, parent |-> parent,
                   key |-> IF p.items = << >> THEN None ELSE p.items[1].key, children |-> {}]
             u == [t EXCEPT !.nodes = (id :> n) @@ @]
         IN  IF parent = None THEN [u EXCEPT !.rootNode = id]
             ELSE [u EXCEPT !.nodes[parent].children = @ \cup {id}]

\* Cursor.node: so do all pages from the root to the leaf of a key.
MaterializePath(t, path) ==
    FoldLeft(LAMBDA u, i : Materialize(u, path[i].id, IF i = 1 THEN None ELSE path[i - 1].id),
             t, [i \in DOMAIN path |-> i])

\* Mutant: an item goes behind the place of its key.
PutBehind(items, old, item) ==
    LET i == IndexOf(items, old)
    IN  IF Exact(items, old) THEN ReplaceAt(items, i, item)
        ELSE InsertAt(items, IF i > Len(items) THEN i ELSE i + 1, item)

\* node.put and node.del.
PutItem(items, old, item) ==
    IF Exact(items, old) THEN ReplaceAt(items, IndexOf(items, old), item)
    ELSE InsertAt(items, IndexOf(items, old), item)

DelItem(items, key) ==
    IF Exact(items, key) THEN RemoveAt(items, IndexOf(items, key)) ELSE items

DelIn(t, id, key) ==
    [t EXCEPT !.nodes[id] = [@ EXCEPT !.inodes = DelItem(@, key),
                                      !.unbalanced = @ \/ Exact(t.nodes[id].inodes, key)]]

Put(t, key, val) ==
    LET path == Search(t, key, t.root)
    IN  [MaterializePath(t, path) EXCEPT
            !.nodes[Last(path).id].inodes = PutItem(@, key, Item(key, val))]

Delete(t, key) ==
    LET path == Search(t, key, t.root)
    IN  DelIn(MaterializePath(t, path), Last(path).id, key)

\* The root becomes a node, so that the new sequence is saved.
NextSequence(t) ==
    [Materialize(t, t.root, None) EXCEPT !.sequence = @ + 1]

-----------------------------------------------------------------------------
\* freelist.free panics on a page that is on the list.
FreePages(t, pages) ==
    [t EXCEPT !.free = Free(@, t.txid, pages), !.panic = @ \/ ~MayFree(t.free, pages)]

PageSpan(t, id) == id .. (id + PagesTaken(t.pages[id].items) - 1)
FreeNode(t, id) == IF id = 0 THEN t ELSE FreePages(t, PageSpan(t, id))

\* A node that is left out: off its parent's children and off Bucket.nodes.
Dropped(t, id) ==
    LET up == t.nodes[id].parent
        u  == [t EXCEPT !.nodes = [n \in DOMAIN @ \ {id} |-> @[n]]]
    IN  FreeNode(IF up = None THEN u ELSE [u EXCEPT !.nodes[up].children = @ \ {id}], id)

\* Nodes below the items get another parent.
Adopt(t, items, new) ==
    FoldLeft(LAMBDA u, item :
                IF "to" \in DOMAIN item /\ item.to \in DOMAIN u.nodes
                THEN [u EXCEPT !.nodes[u.nodes[item.to].parent].children = @ \ {item.to},
                               !.nodes[new].children = @ \cup {item.to},
                               !.nodes[item.to].parent = new]
                ELSE u,
             t, items)

MinKeys(n) == IF n.leaf THEN 1 ELSE 2
Enough(n) == SizeOf(n.inodes) > PageSize \div 4 /\ Len(n.inodes) > MinKeys(n)

\* A root branch with one child takes the place of the child.
Collapse(t, id) ==
    LET c == t.nodes[id].inodes[1].to
        u == Materialize(t, c, id)
        k == u.nodes[c]
        v == Adopt(u, k.inodes, id)
    IN  [Dropped(v, c) EXCEPT !.nodes[id] =
            [@ EXCEPT !.leaf = k.leaf, !.inodes = k.inodes, !.children = k.children]]

\* One item comes over from a sibling that can spare it.
Move(t, id, from, fromNext) ==
    LET s    == t.nodes[from].inodes
        item == IF fromNext THEN s[1] ELSE Last(s)
        rest == IF fromNext THEN Tail(s) ELSE Front(s)
        u    == Adopt(t, << item >>, id)
        mine == IF fromNext THEN Append(t.nodes[id].inodes, item)
                ELSE << item >> \o t.nodes[id].inodes
        v    == [u EXCEPT !.nodes[id].inodes = mine, !.nodes[from].inodes = rest]
        Rekeyed(w, n) ==
            LET key == w.nodes[n].inodes[1].key
            IN  [w EXCEPT !.nodes[w.nodes[n].parent].inodes = PutItem(@, w.nodes[n].key, Link(key, n)),
                          !.nodes[n].key = key]
    IN  Rekeyed(IF fromNext THEN Rekeyed(v, from) ELSE v, id)

\* Mutant: the parent keeps the link to the node that is left out.
MergeKeepingLink(t, into, from) ==
    LET items == t.nodes[from].inodes
        u     == Adopt(t, items, into)
    IN  Dropped([u EXCEPT !.nodes[into].inodes = @ \o items], from)

\* Two siblings become one.
Merge(t, into, from) ==
    LET items == t.nodes[from].inodes
        u     == Adopt(t, items, into)
        v     == [u EXCEPT !.nodes[into].inodes = @ \o items]
    IN  Dropped(DelIn(v, v.nodes[from].parent, v.nodes[from].key), from)

\* node.rebalance.
RECURSIVE Rebalance(_, _)
Rebalance(t, id) ==
    LET n  == t.nodes[id]
        up == n.parent
        u  == [t EXCEPT !.nodes[id].unbalanced = FALSE]
        links == t.nodes[up].inodes
        here  == IndexOf(links, n.key)
        next  == here = 1
        sib   == links[IF next THEN 2 ELSE here - 1].to
        v     == Materialize(u, sib, up)
    IN  IF ~n.unbalanced THEN t
        ELSE IF Enough(n) THEN u
        ELSE IF up = None
        THEN IF ~n.leaf /\ Len(n.inodes) = 1 THEN Collapse(u, id) ELSE u
        ELSE IF n.inodes = << >>
        THEN Rebalance(Dropped(DelIn(u, up, n.key), id), up)
        ELSE IF Len(links) < 2 THEN [u EXCEPT !.panic = TRUE]
        ELSE IF Len(v.nodes[sib].inodes) > MinKeys(v.nodes[sib])
        THEN Move(v, id, sib, next)
        ELSE Rebalance(IF next THEN Merge(v, id, sib) ELSE Merge(v, sib, id), up)

-----------------------------------------------------------------------------
\* splitIndex, as the length of the first part: half a page, with at least two
\* items before and two, with the item it stops at, after it.
SplitIndex(items) ==
    Least({i \in MinKeysPerPage .. Len(items) - MinKeysPerPage - 1 :
             \/ i = Len(items) - MinKeysPerPage - 1
             \/ SizeOf(SubSeq(items, 1, i + 1)) > PageSize \div 2})

\* node.split: parts until one fits on a page or is too short to be split.
RECURSIVE Split(_)
Split(items) ==
    IF Len(items) <= 2 * MinKeysPerPage \/ SizeOf(items) < PageSize THEN << items >>
    ELSE LET i == SplitIndex(items)
         IN  << SubSeq(items, 1, i) >> \o Split(SubSeq(items, i + 1, Len(items)))

\* Tx.allocate and node.write.
WritePage(t, leaf, items) ==
    LET n == PagesTaken(items)
        found == Runs(t.free, n) # {}
        p == IF found THEN Least(Runs(t.free, n)) ELSE t.hwm
    IN  [t |-> [t EXCEPT !.free = IF found THEN Allocate(@, n) ELSE @,
                         !.hwm = IF found THEN @ ELSE @ + n,
                         !.pages = (p :> Page(leaf, items)) @@ @],
         page |-> p]

\* The parts of a node go to new pages, and their links to the parent.
WriteParts(t, leaf, parts) ==
    FoldLeft(LAMBDA acc, part :
                LET w == WritePage(acc.t, leaf, part)
                IN  [t |-> w.t, links |-> Append(acc.links, Link(part[1].key, w.page))],
             [t |-> t, links |-> << >>], parts)

\* node.spill: the children first, in the order of their keys; the first part
\* replaces the node's item in the parent, the others are new there.
RECURSIVE Spill(_, _)
Spill(t, id) ==
    LET kids == InOrder(t.nodes[id].children, LAMBDA c : t.nodes[c].inodes[1].key)
        Up(u, c) ==
            LET s == Spill(u, c)
            IN  [s.t EXCEPT !.nodes[id].inodes =
                    FoldLeft(LAMBDA items, i :
                                PutItem(items, IF i = 1 THEN t.nodes[c].key ELSE s.links[i].key,
                                        s.links[i]),
                             @, [i \in DOMAIN s.links |-> i])]
        u == FoldLeft(Up, t, kids)
    IN  WriteParts(FreeNode(u, id), u.nodes[id].leaf, Split(u.nodes[id].inodes))

\* A root that was split gets a new root above it.
RECURSIVE SpillRoot(_)
SpillRoot(s) ==
    IF Len(s.links) = 1 THEN [s.t EXCEPT !.root = s.links[1].to]
    ELSE SpillRoot(WriteParts(s.t, FALSE, Split(s.links)))

\* The pages of the bucket, for Bucket.free and Tx.checkBucket.
RECURSIVE PagesUnder(_, _)
PagesUnder(t, id) ==
    LET p == t.pages[id]
    IN  PageSpan(t, id) \cup (IF p.leaf THEN {}
                              ELSE UNION {PagesUnder(t, p.items[i].to) : i \in DOMAIN p.items})

\* Bucket.free, for a bucket whose nodes were dropped (DeleteBucket), and for one
\* whose only node is its root, which may have more pages below when it
\* collapsed only in memory: they were freed then.
FreeBucket(t) ==
    IF t.root = 0 THEN t
    ELSE [FreePages(t, IF t.rootNode = None THEN PagesUnder(t, t.root) ELSE PageSpan(t, t.root))
            EXCEPT !.root = 0]

Inlineable(t) ==
    LET n == t.nodes[t.rootNode]
    IN  n.leaf /\ SizeOf(n.inodes) <= PageSize \div 4

\* Bucket.spill for one bucket: its header, if it was touched.
SpillBucket(t) ==
    IF t.rootNode = None THEN t
    ELSE IF Inlineable(t) THEN [FreeBucket(t) EXCEPT !.inline = t.nodes[t.rootNode].inodes]
    ELSE [SpillRoot(Spill(t, t.rootNode)) EXCEPT !.inline = << >>]
=============================================================================
