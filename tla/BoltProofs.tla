----------------------------- MODULE BoltProofs -----------------------------
(***************************************************************************)
(* Proofs about the transactions of boltdb, for every number of readers,   *)
(* every set of keys, and every bound on pages, transactions and troubles: *)
(* each page has one owner, what a reader looks at is not reclaimed, what  *)
(* is used is mapped, and the transactions keep the promise of module      *)
(* Snapshots.                                                              *)
(***************************************************************************)
EXTENDS BoltProperties, FiniteSetTheorems, WellFoundedInduction, TLAPS

\* Two hypotheses of the theorems: the list has fewer ids than the count of a
\* page holds, and the last sync of a commit does not fail.  Without the second
\* the theorems are false, as the run bolt_sync shows; without the first the list
\* loses its last id when it is read.
Regular == LastPage < CountMax /\ ~SyncMetaFails

-----------------------------------------------------------------------------
(* The inductive invariant: what a file holds *)

MetaPages == [kind : {"meta"}, txid : Txid, root : Nat, list : Nat, hwm : Nat]

\* The tree of version m: a root and its leaves, all of them different pages.
Tree(f, m) ==
    /\ m.hwm <= LastPage + 1
    /\ m.root \in 2 .. (m.hwm - 1)
    /\ f[m.root].kind = "root"
    /\ DOMAIN f[m.root].kids \subseteq Keys
    /\ \A k \in DOMAIN f[m.root].kids :
          LET p == f[m.root].kids[k]
          IN  /\ p \in 2 .. (m.hwm - 1) /\ p # m.root
              /\ f[p].kind = "leaf" /\ f[p].by \in Txid
              /\ \A j \in DOMAIN f[m.root].kids : f[m.root].kids[j] = p => j = k

Used(f, m) == Reachable(f, m) \cup ListAt(f, m)

\* A complete version: its tree and its list are apart, and the list names all
\* other pages below the high water mark.
Version(f, m) ==
    /\ Tree(f, m)
    /\ m.list \in 2 .. (m.hwm - 1)
    /\ f[m.list].kind = "list" /\ f[m.list].pages \in Nat \ {0}
    /\ m.list + f[m.list].pages <= m.hwm
    /\ ListAt(f, m) \cap Reachable(f, m) = {}
    /\ f[m.list].ids = (2 .. (m.hwm - 1)) \ Used(f, m)
    /\ \A p \in 0 .. (m.hwm - 1) : f[p].kind # "zero"

\* The two meta pages hold successive versions, and the newer is complete.
Metas(f) ==
    /\ f[0] \in MetaPages /\ f[0].txid % 2 = 0
    /\ f[1] \in MetaPages /\ f[1].txid % 2 = 1
    /\ f[0].txid = f[1].txid + 1 \/ f[1].txid = f[0].txid + 1

Sound(f) == DOMAIN f = Pgid /\ Metas(f) /\ Version(f, Newest(f))

\* The ids on the list of the newest version.
Listed == file[Newest(file).list].ids

-----------------------------------------------------------------------------
(* The writer *)

\* A writer that waits for the map goes on where it was.
Stage == IF wpc = "remap" THEN tx.resume ELSE wpc
Before == {"body", "spill", "list", "write", "sync", "meta"}

KidPages == {tx.kids[k] : k \in DOMAIN tx.kids}
NewMeta  == Meta(tx.txid, tx.root, tx.list, tx.hwm)

\* The file as it will be when the dirty pages are written.
After == [p \in Pgid |-> IF p \in DOMAIN tx.dirty THEN tx.dirty[p] ELSE file[p]]

\* Pages freed by this transaction, and those freed by others that readers hold.
Own  == PendingOf(freelist, tx.txid)
Kept == UNION {freelist.pending[t] : t \in DOMAIN freelist.pending \ {tx.txid}}

\* The pages that transactions may write over: until the new version is published
\* those that a rollback would bring back to the list.
Reusable == IF wpc = "commit" THEN freelist.ids ELSE Listed \ Kept

\* The fields of a write transaction.
TxRecord(x) ==
    /\ x = [txid |-> x.txid, root |-> x.root, list |-> x.list, hwm |-> x.hwm, kids |-> x.kids,
            puts |-> x.puts, draft |-> x.draft, dirty |-> x.dirty, grown |-> x.grown,
            resume |-> x.resume]
    /\ x.txid \in Txid /\ x.puts \subseteq Keys /\ x.draft \in Promise!Versions
    /\ DOMAIN x.dirty \subseteq Pgid /\ x.grown \in BOOLEAN

WriterTypes ==
    /\ wpc \in Before \cup {"idle", "remap", "commit"}
    /\ TxRecord(tx)
    /\ wpc = "remap" => tx.resume \in {"spill", "list"}
    /\ wpc = "idle" => tx = NoTx
    /\ wpc = "commit" => tx.txid = Newest(file).txid
    /\ Stage \in Before => tx.txid = Newest(file).txid + 1
    /\ troubles \in 0 .. MaxTroubles

\* The free list: a page is on it once, and it has what the newest version's list
\* has, apart from what the writer took.
FreelistFits ==
    /\ freelist = [ids |-> freelist.ids, pending |-> freelist.pending]
    /\ DOMAIN freelist.pending \subseteq Txid \ {0}
    /\ \A s, t \in DOMAIN freelist.pending :
          s # t => freelist.pending[s] \cap freelist.pending[t] = {}
    /\ freelist.ids \cap AllPending(freelist) = {}
    /\ wpc \in {"idle", "commit"} =>
          All(freelist) = Listed /\ \A t \in DOMAIN freelist.pending : t <= Newest(file).txid
    /\ Stage \in Before =>
          /\ Kept \subseteq Listed /\ freelist.ids \subseteq Listed
          /\ Own \subseteq Used(file, Newest(file))
          /\ \A t \in DOMAIN freelist.pending : t <= tx.txid

\* The pages a transaction has taken come from the list or lie behind the last.
DirtyFits ==
    /\ Stage \in Before =>
          /\ tx.hwm \in Nat /\ Newest(file).hwm <= tx.hwm /\ tx.hwm <= LastPage + 1
          /\ DOMAIN tx.dirty \subseteq (Listed \ Kept) \cup Newest(file).hwm .. (tx.hwm - 1)
          /\ DOMAIN tx.dirty \cap freelist.ids = {}
          /\ \A p \in DOMAIN tx.dirty : tx.dirty[p].kind # "zero"
    /\ Stage \in {"body", "spill", "list"} =>
          /\ Newest(file).hwm .. (tx.hwm - 1) \subseteq DOMAIN tx.dirty
          /\ Listed \ Kept \subseteq freelist.ids \cup DOMAIN tx.dirty
          /\ tx.list = Newest(file).list
    /\ wpc = "commit" => DOMAIN tx.dirty = {}

LeavesFit ==
    /\ DOMAIN tx.kids \subseteq Keys
    /\ \A k \in DOMAIN tx.kids :
          /\ tx.kids[k] \in 2 .. (tx.hwm - 1) /\ tx.kids[k] # tx.root
          /\ After[tx.kids[k]].kind = "leaf" /\ After[tx.kids[k]].by \in Txid
          /\ \A j \in DOMAIN tx.kids : tx.kids[j] = tx.kids[k] => j = k

\* The nodes in memory: leaves and root that are still where they were, or dirty;
\* what they gave up is pending.  Together they are the tree it began with.
NodesFit ==
    /\ Stage = "body" =>
          /\ DOMAIN tx.dirty = {} /\ Own = {} /\ tx.puts = {} /\ ~tx.grown
    /\ Stage \in {"body", "spill"} =>
          /\ LeavesFit
          /\ tx.root = Newest(file).root
          /\ DOMAIN tx.dirty \subseteq KidPages
          /\ \A k \in tx.puts \cap DOMAIN tx.kids : tx.kids[k] \notin DOMAIN tx.dirty
          /\ Own \cup {tx.root} \cup (KidPages \ DOMAIN tx.dirty) = Reachable(file, Newest(file))
          /\ Own \cap ({tx.root} \cup KidPages) = {}
          /\ tx.draft = [k \in DOMAIN tx.kids \cup tx.puts |->
                            IF k \in tx.puts THEN tx.txid ELSE After[tx.kids[k]].by]
    /\ Stage = "list" =>
          /\ LeavesFit
          /\ tx.root \in 2 .. (tx.hwm - 1) /\ After[tx.root] = Root(tx.kids)
          /\ DOMAIN tx.dirty \subseteq {tx.root} \cup KidPages
          /\ Own \cup (({tx.root} \cup KidPages) \ DOMAIN tx.dirty) = Reachable(file, Newest(file))
          /\ Own \cap ({tx.root} \cup KidPages) = {}
          /\ tx.draft = [k \in DOMAIN tx.kids |-> After[tx.kids[k]].by]

\* The new version is complete once its list is.
VersionFits ==
    /\ Stage \in {"write", "sync", "meta"} =>
          /\ Version(After, NewMeta)
          /\ After[tx.list].ids = All(freelist)
          /\ tx.draft = Content(After, NewMeta)
    /\ Stage = "sync" => \A p \in DOMAIN tx.dirty : file[p] = tx.dirty[p]
    /\ Stage = "meta" => DOMAIN tx.dirty = {}
    /\ wpc = "commit" => tx.draft = Content(file, Newest(file))

-----------------------------------------------------------------------------
(* The disk, the map, and the readers *)

\* A crash finds the newest version whole, or the one before it while the new meta
\* page is not synced.
DiskFits ==
    /\ DOMAIN disk = Pgid
    /\ wpc # "commit" =>
          /\ disk[0] = file[0] /\ disk[1] = file[1]
          /\ \A p \in Used(file, Newest(file)) : disk[p] = file[p]
          /\ \A p \in 0 .. (Newest(file).hwm - 1) : disk[p].kind # "zero"
    /\ wpc = "meta" => \A p \in Pgid : disk[p] = file[p]
    /\ wpc = "commit" =>
          /\ Sound(disk)
          /\ \A p \in Pgid \ {MetaPage(tx.txid)} : disk[p] = file[p]

\* The pages that the writer's next allocation asks for.
Asked == IF Stage = "spill" THEN 1
         ELSE ListPages(Cardinality(All(FreedList(freelist))))

MapFits ==
    /\ datasz \in Nat
    /\ \A p \in Pgid : file[p].kind # "zero" => p < datasz
    /\ Stage \in Before => tx.hwm <= datasz
    /\ Stage \in {"spill", "list"} /\ tx.grown => tx.hwm + Asked < datasz
    /\ wpc = "remap" => tx.hwm + Asked <= LastPage + 1

\* The version that a reader looks at.
VersionOf(r) == IF reader[r].pc = "copy" THEN file[reader[r].at] ELSE reader[r].meta

\* Its pages are not reused, not even after a rollback, and are not pending for a
\* transaction that could be released while the reader is there.
Safe(m) ==
    /\ Tree(file, m)
    /\ m.txid <= Newest(file).txid /\ m.hwm <= Newest(file).hwm
    /\ Reachable(file, m) \cap Reusable = {}
    /\ \A t \in DOMAIN freelist.pending :
          t <= m.txid => Reachable(file, m) \cap freelist.pending[t] = {}

ReaderAt == [pc : {"idle", "map", "copy", "read", "remove"}, at : {0, 1}, meta : MetaPages]

ReadersFit ==
    /\ reader \in [Readers -> ReaderAt]
    /\ \A r \in Readers :
          /\ reader[r].pc = "copy" => reader[r].at = NewestAt(file) \/ wpc \in {"idle", "commit"}
          /\ HoldsMap(r) => Safe(VersionOf(r))

IInv ==
    /\ Sound(file)
    /\ WriterTypes /\ FreelistFits /\ DirtyFits /\ NodesFit /\ VersionFits
    /\ DiskFits /\ MapFits /\ ReadersFit

-----------------------------------------------------------------------------
(* Numbers *)

\* The order of the naturals has no infinite descent.
Below == {p \in Nat \X Nat : p[1] < p[2]}

LEMMA BelowWellFounded == IsWellFoundedOn(Below, Nat)
BY NatLessThanWellFounded, Zenon DEF OpToRel, Below

\* Every set of naturals that is not empty has a least element.
LEMMA LeastIsLeast ==
    ASSUME NEW S \in SUBSET Nat, S # {}
    PROVE  Least(S) \in S /\ \A y \in S : Least(S) <= y
<1>1. PICK x \in S : \A y \in S : <<y, x>> \notin Below
  BY BelowWellFounded, WFMin
<1>2. ASSUME NEW y \in S PROVE x <= y
  <2>1. x \in Nat /\ y \in Nat
    OBVIOUS
  <2>2. ~(y < x)
    BY <1>1, <2>1 DEF Below
  <2>. QED
    BY <2>1, <2>2
<1>. QED
  BY <1>2 DEF Least

\* So has a bounded one a greatest.
LEMMA GreatestIsGreatest ==
    ASSUME NEW n \in Nat, NEW S \in SUBSET (0 .. n), S # {}
    PROVE  Greatest(S) \in S /\ \A y \in S : Greatest(S) >= y
<1>. DEFINE T == {d \in 0 .. n : n - d \in S}
<1>1. T \in SUBSET Nat /\ T # {}
  <2>1. PICK y \in S : TRUE
    OBVIOUS
  <2>2. n - y \in T
    <3>1. n - y \in 0 .. n /\ n - (n - y) = y
      OBVIOUS
    <3>. QED
      BY <2>1, <3>1
  <2>3. T \in SUBSET Nat
    OBVIOUS
  <2>. HIDE DEF T
  <2>. QED
    BY <2>2, <2>3
<1>2. PICK d \in T : \A e \in T : d <= e
  BY <1>1, LeastIsLeast
<1>3. \A y \in S : n - d >= y
  <2>. SUFFICES ASSUME NEW y \in S PROVE n - d >= y
    OBVIOUS
  <2>1. n - y \in T
    <3>1. n - y \in 0 .. n /\ n - (n - y) = y
      OBVIOUS
    <3>. QED
      BY <3>1
  <2>2. d <= n - y
    BY <1>2, <2>1
  <2>. QED
    BY <2>2
<1>4. n - d \in S
  BY <1>2
<1>5. \E x \in S : \A y \in S : x >= y
  BY <1>3, <1>4
<1>. HIDE DEF T
<1>. QED
  BY <1>5 DEF Greatest

\* A file ends behind its last page that was written.
LEMMA FileSizeCovers ==
    ASSUME NEW f, NEW q \in Pgid, f[q].kind # "zero"
    PROVE  /\ FileSize(f) \in 1 .. (LastPage + 1)
           /\ \A p \in Pgid : f[p].kind # "zero" => p < FileSize(f)
<1>. DEFINE S == {p \in Pgid : f[p] # Zero}
<1>1. \A p \in Pgid : f[p].kind # "zero" => p \in S
  BY DEF Zero
<1>2. S \in SUBSET (0 .. LastPage) /\ S # {}
  BY <1>1 DEF Pgid
<1>3. Greatest(S) \in S /\ \A y \in S : Greatest(S) >= y
  BY <1>2, GreatestIsGreatest, BoltAssumption
<1>4. FileSize(f) = Greatest(S) + 1
  BY DEF FileSize
<1>. HIDE DEF S
<1>5. Greatest(S) \in 0 .. LastPage
  BY <1>2, <1>3
<1>. QED
  BY <1>1, <1>2, <1>3, <1>4, <1>5, BoltAssumption DEF Pgid

\* There is a map of every size that a file can take.
LEMMA MapSizeSuffices ==
    ASSUME NEW n \in 0 .. (LastPage + 2)
    PROVE  MapSize(n) \in Nat /\ MapSize(n) >= n
<1>. DEFINE S == {size \in MapSizes : size >= n}
<1>1. S \in SUBSET Nat /\ S # {}
  <2>1. PICK size \in MapSizes : size > LastPage + 1
    BY BoltAssumption
  <2>2. size \in Nat /\ size >= n
    BY <2>1, BoltAssumption
  <2>. QED
    BY <2>1, <2>2, BoltAssumption
<1>2. Least(S) \in S
  BY <1>1, LeastIsLeast
<1>. QED
  BY <1>2, BoltAssumption DEF MapSize

-----------------------------------------------------------------------------
(* The free list *)

\* The list takes at least one page.
LEMMA ListPagesIsPositive ==
    ASSUME NEW n \in Nat
    PROVE  ListPages(n) \in Nat \ {0}
BY FreelistAssumption DEF ListPages

\* No more ids than pages.
LEMMA IdsAreFew ==
    ASSUME NEW S \in SUBSET (2 .. LastPage)
    PROVE  Cardinality(S) \in Nat /\ Cardinality(S) < LastPage
<1>1. IsFiniteSet(2 .. LastPage) /\ Cardinality(2 .. LastPage) = LastPage - 1
  <2>1. 2 \in Int /\ LastPage \in Int /\ ~(2 > LastPage)
    BY BoltAssumption
  <2>. QED
    BY <2>1, FS_Interval, BoltAssumption, SMTT(20)
<1>2. IsFiniteSet(S) /\ Cardinality(S) <= LastPage - 1
  BY <1>1, FS_Subset
<1>3. Cardinality(S) \in Nat
  BY <1>2, FS_CardinalityType
<1>. QED
  BY <1>2, <1>3, BoltAssumption

\* A list of fewer ids than a page can count is read as it was written.
LEMMA ReadListReadsAll ==
    ASSUME Regular, NEW S \in SUBSET (2 .. LastPage)
    PROVE  ReadList(S) = S
BY IdsAreFew, BoltAssumption, FreelistAssumption DEF ReadList, Regular

\* Pages that a transaction frees are added to its own and to no other's.
LEMMA FreeAddsOwn ==
    ASSUME NEW f, NEW txid, NEW pages,
           f = [ids |-> f.ids, pending |-> f.pending]
    PROVE  LET g == Free(f, txid, pages)
           IN  /\ g = [ids |-> g.ids, pending |-> g.pending]
               /\ g.ids = f.ids
               /\ DOMAIN g.pending = DOMAIN f.pending \cup {txid}
               /\ g.pending[txid] = PendingOf(f, txid) \cup pages
               /\ \A t \in DOMAIN f.pending \ {txid} : g.pending[t] = f.pending[t]
               /\ AllPending(g) = AllPending(f) \cup pages
               /\ All(g) = All(f) \cup pages
<1>. DEFINE g == Free(f, txid, pages)
<1>1. g = [ids |-> f.ids, pending |-> Assign(f.pending, txid, PendingOf(f, txid) \cup pages)]
  BY DEF Free
<1>2. /\ DOMAIN g.pending = DOMAIN f.pending \cup {txid}
      /\ g.pending[txid] = PendingOf(f, txid) \cup pages
      /\ \A t \in DOMAIN f.pending \ {txid} : g.pending[t] = f.pending[t]
  BY <1>1 DEF Assign
<1>. HIDE DEF g
<1>3. AllPending(g) = AllPending(f) \cup pages
  <2>1. AllPending(g) \subseteq AllPending(f) \cup pages
    BY <1>2 DEF AllPending, PendingOf
  <2>2. \A t \in DOMAIN f.pending : f.pending[t] \subseteq AllPending(g)
    BY <1>2 DEF AllPending, PendingOf
  <2>3. pages \subseteq AllPending(g)
    BY <1>2 DEF AllPending
  <2>. QED
    BY <2>1, <2>2, <2>3 DEF AllPending
<1>. QED
  BY <1>1, <1>2, <1>3 DEF All, g

\* What is pending belongs to this transaction or is kept for another.
LEMMA PendingIsOwnOrKept ==
    AllPending(freelist) = Own \cup Kept
BY DEF AllPending, Own, Kept, PendingOf

\* An allocation takes a run of pages of the list, or leaves the list alone and
\* takes pages behind the last.
LEMMA PlaceIsFree ==
    ASSUME NEW f, NEW n \in Nat \ {0}, f = [ids |-> f.ids, pending |-> f.pending],
           f.ids \subseteq Nat, tx.hwm \in Nat
    PROVE  LET S == Place(f, n) .. (Place(f, n) + n - 1)
               g == ListAfter(f, n)
           IN  /\ Place(f, n) \in Nat /\ Place(f, n) \in S
               /\ g = [ids |-> g.ids, pending |-> f.pending]
               /\ \/ S \subseteq f.ids /\ g.ids = f.ids \ S /\ HwmAfter(f, n) = tx.hwm
                  \/ S = tx.hwm .. (tx.hwm + n - 1) /\ g = f /\ HwmAfter(f, n) = tx.hwm + n
<1>1. CASE Runs(f, n) # {}
  <2>1. Runs(f, n) \in SUBSET Nat
    BY DEF Runs
  <2>2. Least(Runs(f, n)) \in Runs(f, n)
    BY <1>1, <2>1, LeastIsLeast
  <2>3. Place(f, n) \in f.ids /\ Place(f, n) .. (Place(f, n) + n - 1) \subseteq f.ids
    BY <1>1, <2>2 DEF Place, Runs
  <2>4. ListAfter(f, n) = [ids |-> f.ids \ (Place(f, n) .. (Place(f, n) + n - 1)),
                           pending |-> f.pending]
    BY <1>1 DEF ListAfter, Allocate, Place
  <2>5. HwmAfter(f, n) = tx.hwm
    BY <1>1 DEF HwmAfter
  <2>6. Place(f, n) \in Place(f, n) .. (Place(f, n) + n - 1)
    BY <2>3
  <2>. QED
    BY <2>3, <2>4, <2>5, <2>6
<1>2. CASE Runs(f, n) = {}
  BY <1>2 DEF Place, ListAfter, HwmAfter
<1>. QED
  BY <1>1, <1>2

-----------------------------------------------------------------------------
(* Versions *)

\* The newest version is one of the two, on the page of its parity.
LEMMA NewestIsOneOfTwo ==
    ASSUME NEW f, Metas(f)
    PROVE  /\ NewestAt(f) \in {0, 1} /\ Newest(f) \in MetaPages
           /\ NewestAt(f) = Newest(f).txid % 2
           /\ Newest(f) = f[NewestAt(f)]
           /\ \A i \in {0, 1} : i # NewestAt(f) => f[i].txid + 1 = Newest(f).txid
BY DEF Metas, MetaPages, NewestAt, Newest, Txid

\* A tree is the same in a file that has the same pages where it is.
LEMMA TreeStays ==
    ASSUME NEW f, NEW g, NEW m, Tree(f, m), \A p \in Reachable(f, m) : g[p] = f[p]
    PROVE  /\ Tree(g, m)
           /\ KidsOf(g, m) = KidsOf(f, m) /\ Reachable(g, m) = Reachable(f, m)
           /\ Content(g, m) = Content(f, m)
<1>1. KidsOf(f, m) = f[m.root].kids
  BY DEF Tree, KidsOf
<1>2. g[m.root] = f[m.root] /\ \A k \in DOMAIN KidsOf(f, m) : g[KidsOf(f, m)[k]] = f[KidsOf(f, m)[k]]
  BY DEF Reachable
<1>3. KidsOf(g, m) = KidsOf(f, m)
  BY <1>2 DEF KidsOf
<1>4. Reachable(g, m) = Reachable(f, m)
  BY <1>3 DEF Reachable
<1>5. \A k \in DOMAIN KidsOf(f, m) : ValueAt(g, KidsOf(g, m)[k]) = ValueAt(f, KidsOf(f, m)[k])
  BY <1>2, <1>3 DEF ValueAt
<1>6. Content(g, m) = Content(f, m)
  BY <1>3, <1>5 DEF Content
<1>7. Tree(g, m)
  BY <1>1, <1>2 DEF Tree
<1>. QED
  BY <1>3, <1>4, <1>6, <1>7

\* Where the pages of a tree are, and what it holds.
LEMMA TreeFacts ==
    ASSUME NEW f, NEW m, Tree(f, m)
    PROVE  /\ KidsOf(f, m) = f[m.root].kids
           /\ Reachable(f, m) \subseteq 2 .. (m.hwm - 1)
           /\ Content(f, m) = [k \in DOMAIN f[m.root].kids |-> f[f[m.root].kids[k]].by]
           /\ Content(f, m) \in Promise!Versions
<1>1. KidsOf(f, m) = f[m.root].kids
  BY DEF Tree, KidsOf
<1>2. Reachable(f, m) \subseteq 2 .. (m.hwm - 1)
  BY <1>1 DEF Tree, Reachable
<1>3. \A k \in DOMAIN f[m.root].kids : ValueAt(f, f[m.root].kids[k]) = f[f[m.root].kids[k]].by
  BY DEF Tree, ValueAt
<1>4. Content(f, m) = [k \in DOMAIN f[m.root].kids |-> f[f[m.root].kids[k]].by]
  BY <1>1, <1>3 DEF Content
<1>5. Content(f, m) \in [DOMAIN f[m.root].kids -> Txid] /\ DOMAIN f[m.root].kids \in SUBSET Keys
  BY <1>4 DEF Tree
<1>6. Content(f, m) \in Promise!Versions
  BY <1>5 DEF Promise!Versions
<1>. QED
  BY <1>1, <1>2, <1>4, <1>6

\* Where the pages of a version are.
LEMMA VersionFacts ==
    ASSUME NEW f, NEW m, Version(f, m), m.hwm \in Nat
    PROVE  /\ Tree(f, m) /\ m.hwm <= LastPage + 1
           /\ Reachable(f, m) \subseteq Used(f, m) /\ ListAt(f, m) \subseteq Used(f, m)
           /\ ListAt(f, m) = m.list .. (m.list + f[m.list].pages - 1)
           /\ m.list \in ListAt(f, m) /\ m.root \in Reachable(f, m)
           /\ Used(f, m) \subseteq 2 .. (m.hwm - 1)
           /\ f[m.list].ids = (2 .. (m.hwm - 1)) \ Used(f, m)
           /\ 2 .. (m.hwm - 1) \subseteq 2 .. LastPage
<1>1. Tree(f, m) /\ m.hwm <= LastPage + 1 /\ f[m.list].ids = (2 .. (m.hwm - 1)) \ Used(f, m)
  BY DEF Version, Tree
<1>2. Reachable(f, m) \subseteq 2 .. (m.hwm - 1)
  BY <1>1, TreeFacts
<1>3. ListAt(f, m) = m.list .. (m.list + f[m.list].pages - 1)
  BY DEF Version, ListAt
<1>4. m.list \in Nat /\ f[m.list].pages \in Nat \ {0} /\ m.list > 1
      /\ m.list + f[m.list].pages <= m.hwm
  BY DEF Version
<1>5. ListAt(f, m) \subseteq 2 .. (m.hwm - 1) /\ m.list \in ListAt(f, m)
  BY <1>3, <1>4
<1>6. m.root \in Reachable(f, m)
  BY DEF Reachable
<1>7. 2 .. (m.hwm - 1) \subseteq 2 .. LastPage
  BY <1>1, BoltAssumption
<1>. QED
  BY <1>1, <1>2, <1>3, <1>5, <1>6, <1>7 DEF Used

\* A version is the same in a file that has the same pages where it is.
LEMMA VersionStays ==
    ASSUME NEW f, NEW g, NEW m, Version(f, m), m.hwm \in Nat,
           \A p \in Used(f, m) : g[p] = f[p],
           \A p \in 0 .. (m.hwm - 1) : g[p].kind # "zero"
    PROVE  /\ Version(g, m)
           /\ Used(g, m) = Used(f, m) /\ ListAt(g, m) = ListAt(f, m)
           /\ Reachable(g, m) = Reachable(f, m) /\ KidsOf(g, m) = KidsOf(f, m)
           /\ Content(g, m) = Content(f, m)
           /\ g[m.list].ids = f[m.list].ids
<1>1. /\ Tree(f, m) /\ Reachable(f, m) \subseteq Used(f, m)
      /\ m.list \in Used(f, m) /\ m.root \in Used(f, m)
  BY VersionFacts
<1>2. /\ Tree(g, m) /\ Reachable(g, m) = Reachable(f, m) /\ KidsOf(g, m) = KidsOf(f, m)
      /\ Content(g, m) = Content(f, m)
  BY <1>1, TreeStays
<1>3. g[m.list] = f[m.list]
  BY <1>1
<1>4. ListAt(g, m) = ListAt(f, m)
  BY <1>3 DEF ListAt
<1>5. Used(g, m) = Used(f, m)
  BY <1>2, <1>4 DEF Used
<1>6. Version(g, m)
  BY <1>2, <1>3, <1>4, <1>5 DEF Version
<1>. QED
  BY <1>2, <1>3, <1>4, <1>5, <1>6

\* Files with the same meta pages and the same pages of the newest version.
LEMMA SoundStays ==
    ASSUME NEW f, NEW g, Sound(f), DOMAIN g = Pgid, g[0] = f[0], g[1] = f[1],
           \A p \in Used(f, Newest(f)) : g[p] = f[p],
           \A p \in 0 .. (Newest(f).hwm - 1) : g[p].kind # "zero"
    PROVE  /\ Sound(g)
           /\ NewestAt(g) = NewestAt(f) /\ Newest(g) = Newest(f)
           /\ Used(g, Newest(g)) = Used(f, Newest(f))
           /\ ListAt(g, Newest(g)) = ListAt(f, Newest(f))
           /\ Reachable(g, Newest(g)) = Reachable(f, Newest(f))
           /\ KidsOf(g, Newest(g)) = KidsOf(f, Newest(f))
           /\ Content(g, Newest(g)) = Content(f, Newest(f))
           /\ g[Newest(g).list].ids = f[Newest(f).list].ids
<1>1. Metas(f) /\ Version(f, Newest(f)) /\ Newest(f).hwm \in Nat
  BY NewestIsOneOfTwo DEF Sound, MetaPages
<1>2. Metas(g) /\ NewestAt(g) = NewestAt(f) /\ Newest(g) = Newest(f)
  BY <1>1, NewestIsOneOfTwo DEF Metas, NewestAt, Newest
<1>3. /\ Version(g, Newest(f))
      /\ Used(g, Newest(f)) = Used(f, Newest(f)) /\ ListAt(g, Newest(f)) = ListAt(f, Newest(f))
      /\ Reachable(g, Newest(f)) = Reachable(f, Newest(f))
      /\ KidsOf(g, Newest(f)) = KidsOf(f, Newest(f))
      /\ Content(g, Newest(f)) = Content(f, Newest(f))
      /\ g[Newest(f).list].ids = f[Newest(f).list].ids
  BY <1>1, VersionStays
<1>. QED
  BY <1>2, <1>3 DEF Sound

\* The newest version of the file, as the steps use it.
Base == Newest(file)

LEMMA BaseFacts ==
    ASSUME Sound(file)
    PROVE  /\ Base \in MetaPages /\ Base.hwm \in Nat /\ Base.txid \in Nat
           /\ NewestAt(file) \in {0, 1} /\ NewestAt(file) = Base.txid % 2
           /\ Base = file[NewestAt(file)]
           /\ Version(file, Base) /\ Tree(file, Base) /\ Base.hwm <= LastPage + 1
           /\ Listed = (2 .. (Base.hwm - 1)) \ Used(file, Base)
           /\ Used(file, Base) \subseteq 2 .. (Base.hwm - 1)
           /\ Reachable(file, Base) \cup ListAt(file, Base) = Used(file, Base)
           /\ Reachable(file, Base) \cap ListAt(file, Base) = {}
           /\ Base.root \in Reachable(file, Base) /\ Base.list \in ListAt(file, Base)
           /\ 2 .. (Base.hwm - 1) \subseteq 2 .. LastPage
<1>1. Metas(file) /\ Version(file, Base)
  BY DEF Sound, Base
<1>2. /\ Base \in MetaPages /\ NewestAt(file) \in {0, 1} /\ NewestAt(file) = Base.txid % 2
      /\ Base = file[NewestAt(file)]
  BY <1>1, NewestIsOneOfTwo DEF Base
<1>3. Base.hwm \in Nat /\ Base.txid \in Nat
  BY <1>2, BoltAssumption DEF MetaPages, Txid
<1>4. /\ Tree(file, Base) /\ Base.hwm <= LastPage + 1
      /\ file[Base.list].ids = (2 .. (Base.hwm - 1)) \ Used(file, Base)
      /\ Used(file, Base) \subseteq 2 .. (Base.hwm - 1)
      /\ Base.root \in Reachable(file, Base) /\ Base.list \in ListAt(file, Base)
      /\ 2 .. (Base.hwm - 1) \subseteq 2 .. LastPage
  BY <1>1, <1>3, VersionFacts
<1>5. Reachable(file, Base) \cap ListAt(file, Base) = {}
  BY <1>1 DEF Version
<1>. QED
  BY <1>1, <1>2, <1>3, <1>4, <1>5 DEF Used, Listed, Base

-----------------------------------------------------------------------------
(* What the invariant says of the pages that move *)

LEMMA PendingOne ==
    ASSUME NEW t \in DOMAIN freelist.pending
    PROVE  freelist.pending[t] \subseteq AllPending(freelist)
BY DEF AllPending

LEMMA PagesFacts ==
    ASSUME IInv
    PROVE  /\ freelist.ids \subseteq Listed /\ Kept \subseteq Listed
           /\ freelist.ids \subseteq Reusable /\ Reusable \subseteq Listed
           /\ AllPending(freelist) \subseteq 2 .. (Base.hwm - 1)
           /\ All(freelist) \subseteq 2 .. (Base.hwm - 1)
           /\ All(freelist) \subseteq 2 .. LastPage
           /\ DOMAIN tx.dirty \subseteq 2 .. LastPage
           /\ DOMAIN tx.dirty \cap Used(file, Base) = {}
           /\ DOMAIN tx.dirty \cap freelist.ids = {}
           /\ \A m \in MetaPages : Safe(m) => DOMAIN tx.dirty \cap Reachable(file, m) = {}
<1>1. /\ Sound(file) /\ WriterTypes /\ FreelistFits /\ DirtyFits
  BY DEF IInv
<1>2. /\ Listed = (2 .. (Base.hwm - 1)) \ Used(file, Base)
      /\ Used(file, Base) \subseteq 2 .. (Base.hwm - 1)
      /\ Base.hwm \in Nat /\ Base.hwm <= LastPage + 1
      /\ 2 .. (Base.hwm - 1) \subseteq 2 .. LastPage
  BY <1>1, BaseFacts
<1>3. wpc \in {"idle", "commit"} \/ Stage \in Before
  BY <1>1 DEF WriterTypes, Stage, Before
<1>4. AllPending(freelist) = Own \cup Kept
  BY PendingIsOwnOrKept
<1>5. freelist.ids \cap AllPending(freelist) = {}
  BY <1>1 DEF FreelistFits
<1>6. freelist.ids \subseteq Listed /\ Kept \subseteq Listed
      /\ Own \subseteq 2 .. (Base.hwm - 1)
  <2>1. CASE wpc \in {"idle", "commit"}
    BY <1>1, <1>2, <1>4, <2>1 DEF FreelistFits, All
  <2>2. CASE Stage \in Before
    BY <1>1, <1>2, <2>2 DEF FreelistFits, Base
  <2>. QED
    BY <1>3, <2>1, <2>2
<1>7. freelist.ids \subseteq Reusable /\ Reusable \subseteq Listed
  BY <1>4, <1>5, <1>6 DEF Reusable
<1>8. /\ AllPending(freelist) \subseteq 2 .. (Base.hwm - 1)
      /\ All(freelist) \subseteq 2 .. (Base.hwm - 1)
  BY <1>2, <1>4, <1>6 DEF All
<1>9. /\ DOMAIN tx.dirty \subseteq (Listed \ Kept) \cup Base.hwm .. LastPage
      /\ DOMAIN tx.dirty \cap freelist.ids = {}
      /\ wpc \in {"idle", "commit"} => DOMAIN tx.dirty = {}
  <2>1. CASE wpc = "idle"
    <3>1. tx = NoTx
      BY <1>1, <2>1 DEF WriterTypes
    <3>2. NoTx.dirty = << >>
      BY DEF NoTx
    <3>3. DOMAIN tx.dirty = DOMAIN << >> /\ DOMAIN << >> = {}
      BY <3>1, <3>2
    <3>. QED
      BY <3>3
  <2>2. CASE wpc = "commit"
    BY <1>1, <2>2 DEF DirtyFits
  <2>3. CASE Stage \in Before
    <3>1. /\ tx.hwm \in Nat /\ tx.hwm <= LastPage + 1
          /\ DOMAIN tx.dirty \subseteq (Listed \ Kept) \cup Base.hwm .. (tx.hwm - 1)
          /\ DOMAIN tx.dirty \cap freelist.ids = {}
      BY <1>1, <2>3 DEF DirtyFits, Base
    <3>2. Base.hwm .. (tx.hwm - 1) \subseteq Base.hwm .. LastPage
      BY <1>2, <3>1, BoltAssumption
    <3>3. wpc \notin {"idle", "commit"}
      BY <2>3 DEF Stage, Before
    <3>. QED
      BY <3>1, <3>2, <3>3
  <2>. QED
    BY <1>3, <2>1, <2>2, <2>3
<1>10. Base.hwm > 2
  BY <1>1, <1>2, BaseFacts
<1>11. /\ DOMAIN tx.dirty \subseteq 2 .. LastPage
       /\ DOMAIN tx.dirty \cap Used(file, Base) = {}
  <2>1. Base.hwm .. LastPage \subseteq 2 .. LastPage
    BY <1>2, <1>10, BoltAssumption
  <2>2. Base.hwm .. LastPage \cap (2 .. (Base.hwm - 1)) = {}
    BY <1>2, BoltAssumption
  <2>. QED
    BY <1>2, <1>9, <2>1, <2>2
<1>12. ASSUME NEW m \in MetaPages, Safe(m)
       PROVE  DOMAIN tx.dirty \cap Reachable(file, m) = {}
  <2>1. CASE wpc \in {"idle", "commit"}
    BY <1>9, <2>1
  <2>2. CASE wpc \notin {"idle", "commit"}
    <3>1. Reachable(file, m) \subseteq 2 .. (m.hwm - 1) /\ m.hwm <= Base.hwm
      BY <1>12, TreeFacts DEF Safe, Base
    <3>2. Reachable(file, m) \cap (Listed \ Kept) = {}
      BY <1>12, <2>2 DEF Safe, Reusable
    <3>3. (2 .. (m.hwm - 1)) \cap (Base.hwm .. LastPage) = {}
      BY <1>2, <3>1, BoltAssumption DEF MetaPages
    <3>. QED
      BY <1>9, <3>1, <3>2, <3>3
  <2>. QED
    BY <2>1, <2>2
<1>. QED
  BY <1>2, <1>6, <1>7, <1>8, <1>9, <1>11, <1>12

\* Whoever begins now may look at the newest version.
LEMMA BaseIsSafe ==
    ASSUME IInv
    PROVE  Safe(Base)
<1>1. /\ Tree(file, Base) /\ Base.txid \in Nat /\ Base.hwm \in Nat
      /\ Listed \cap Reachable(file, Base) = {}
  BY BaseFacts DEF IInv
<1>2. Reachable(file, Base) \cap Reusable = {}
  BY <1>1, PagesFacts
<1>3. ASSUME NEW t \in DOMAIN freelist.pending, t <= Base.txid
      PROVE  freelist.pending[t] \subseteq Listed
  <2>1. CASE wpc \in {"idle", "commit"}
    BY <2>1, PendingOne DEF IInv, FreelistFits, All
  <2>2. CASE Stage \in Before
    <3>1. t # tx.txid
      BY <1>1, <1>3, <2>2 DEF IInv, WriterTypes, Base
    <3>2. freelist.pending[t] \subseteq Kept
      BY <3>1 DEF Kept
    <3>. QED
      BY <3>2, PagesFacts
  <2>3. wpc \in {"idle", "commit"} \/ Stage \in Before
    BY DEF IInv, WriterTypes, Stage, Before
  <2>. QED
    BY <2>1, <2>2, <2>3
<1>4. Base.txid <= Newest(file).txid /\ Base.hwm <= Newest(file).hwm
  BY <1>1 DEF Base
<1>. QED
  BY <1>1, <1>2, <1>3, <1>4 DEF Safe

-----------------------------------------------------------------------------
(* Readers' steps *)

notReader == <<file, disk, freelist, datasz, wpc, tx, troubles>>

\* A step of a reader that leaves it at a step it may be at.
LEMMA ReaderMoves ==
    ASSUME IInv, UNCHANGED notReader,
           NEW r \in Readers, NEW v \in ReaderAt, reader' = [reader EXCEPT ![r] = v],
           v.pc = "copy" => v.at = NewestAt(file) \/ wpc \in {"idle", "commit"},
           v.pc = "copy" => Safe(file[v.at]),
           v.pc = "read" => Safe(v.meta)
    PROVE  IInv'
<1>1. /\ Listed' = Listed /\ Stage' = Stage /\ KidPages' = KidPages /\ NewMeta' = NewMeta
      /\ After' = After /\ Own' = Own /\ Kept' = Kept /\ Reusable' = Reusable /\ Asked' = Asked
  BY DEF notReader, Listed, Stage, KidPages, NewMeta, After, Own, Kept, Reusable, Asked, FreedList
<1>2. /\ Sound(file)' /\ WriterTypes' /\ FreelistFits' /\ DirtyFits' /\ NodesFit' /\ VersionFits'
      /\ DiskFits' /\ MapFits'
  BY <1>1 DEF notReader, IInv, WriterTypes, FreelistFits, DirtyFits, NodesFit, VersionFits,
              DiskFits, MapFits, LeavesFit
<1>3. reader' \in [Readers -> ReaderAt]
  BY DEF IInv, ReadersFit
<1>4. ASSUME NEW q \in Readers
      PROVE  /\ reader'[q].pc = "copy" => reader'[q].at = NewestAt(file) \/ wpc \in {"idle", "commit"}
             /\ HoldsMap(q)' => Safe(VersionOf(q)')
  <2>1. CASE q = r
    <3>1. reader'[q] = v
      BY <2>1 DEF IInv, ReadersFit
    <3>2. v.pc \in {"copy", "read"} => Safe(VersionOf(q)')
      BY <3>1 DEF VersionOf, notReader
    <3>. QED
      BY <3>1, <3>2 DEF HoldsMap
  <2>2. CASE q # r
    <3>1. reader'[q] = reader[q]
      BY <2>2 DEF IInv, ReadersFit
    <3>2. VersionOf(q)' = VersionOf(q)
      BY <3>1 DEF VersionOf, notReader
    <3>. QED
      BY <3>1, <3>2 DEF IInv, ReadersFit, HoldsMap
  <2>. QED
    BY <2>1, <2>2
<1>5. \A m : Safe(m) => Safe(m)'
  BY <1>1 DEF Safe, notReader
<1>6. ReadersFit'
  <2>1. ASSUME NEW q \in Readers
        PROVE  HoldsMap(q)' => Safe(VersionOf(q))'
    <3>1. \A m : m = VersionOf(q)' /\ Safe(m)' => Safe(VersionOf(q))'
      BY DEF Safe
    <3>. QED
      BY <1>4, <1>5, <3>1
  <2>2. NewestAt(file)' = NewestAt(file) /\ wpc' = wpc
    BY DEF notReader
  <2>. QED
    BY <1>3, <1>4, <2>1, <2>2 DEF ReadersFit
<1>. QED
  BY <1>2, <1>6 DEF IInv

LEMMA ReaderStepKeeps ==
    ASSUME IInv, NEW r \in Readers, LockMeta(r) \/ ViewRuns(r) \/ RemoveTx(r)
    PROVE  IInv'
<1>1. /\ reader \in [Readers -> ReaderAt] /\ reader[r] \in ReaderAt
      /\ reader[r].pc = "copy" => reader[r].at = NewestAt(file) \/ wpc \in {"idle", "commit"}
      /\ HoldsMap(r) => Safe(VersionOf(r))
  BY DEF IInv, ReadersFit
<1>2. /\ NewestAt(file) \in {0, 1} /\ Base = file[NewestAt(file)] /\ Base \in MetaPages
      /\ file[0] \in MetaPages /\ file[1] \in MetaPages
  BY BaseFacts DEF IInv, Sound, Metas
<1>3. NoMeta \in MetaPages
  BY BoltAssumption DEF NoMeta, Meta, MetaPages, Txid
<1>4. CASE LockMeta(r)
  <2>. DEFINE v == [reader[r] EXCEPT !.pc = "map"]
  <2>1. v \in ReaderAt /\ v.pc = "map"
    BY <1>1 DEF ReaderAt
  <2>2. reader' = [reader EXCEPT ![r] = v] /\ UNCHANGED notReader
    BY <1>4 DEF LockMeta, notReader
  <2>. HIDE DEF v
  <2>. QED
    BY <2>1, <2>2, ReaderMoves
<1>5. CASE LockMap(r)
  <2>. DEFINE v == [pc |-> "copy", at |-> NewestAt(file), meta |-> NoMeta]
  <2>1. v \in ReaderAt /\ v.pc = "copy" /\ v.at = NewestAt(file)
    BY <1>2, <1>3 DEF ReaderAt
  <2>2. reader' = [reader EXCEPT ![r] = v] /\ UNCHANGED notReader
    BY <1>5 DEF LockMap, notReader
  <2>3. Safe(file[v.at])
    BY <1>2, <2>1, BaseIsSafe
  <2>. HIDE DEF v
  <2>. QED
    BY <2>1, <2>2, <2>3, ReaderMoves
<1>6. CASE CopyMeta(r)
  <2>. DEFINE v == [pc |-> "read", at |-> 0, meta |-> file[reader[r].at]]
  <2>1. v \in ReaderAt /\ v.pc = "read" /\ v.meta = file[reader[r].at]
    BY <1>1, <1>2 DEF ReaderAt
  <2>2. reader' = [reader EXCEPT ![r] = v] /\ UNCHANGED notReader
    BY <1>6 DEF CopyMeta, notReader
  <2>3. Safe(v.meta)
    BY <1>1, <1>6 DEF CopyMeta, HoldsMap, VersionOf
  <2>. HIDE DEF v
  <2>. QED
    BY <2>1, <2>2, <2>3, ReaderMoves
<1>7. CASE UnlockMap(r)
  <2>. DEFINE v == [reader[r] EXCEPT !.pc = "remove"]
  <2>1. v \in ReaderAt /\ v.pc = "remove"
    BY <1>1 DEF ReaderAt
  <2>2. reader' = [reader EXCEPT ![r] = v] /\ UNCHANGED notReader
    BY <1>7 DEF UnlockMap, notReader
  <2>. HIDE DEF v
  <2>. QED
    BY <2>1, <2>2, ReaderMoves
<1>8. CASE RemoveTx(r)
  <2>. DEFINE v == [pc |-> "idle", at |-> 0, meta |-> NoMeta]
  <2>1. v \in ReaderAt /\ v.pc = "idle"
    BY <1>3 DEF ReaderAt
  <2>2. reader' = [reader EXCEPT ![r] = v] /\ UNCHANGED notReader
    BY <1>8 DEF RemoveTx, notReader
  <2>. HIDE DEF v
  <2>. QED
    BY <2>1, <2>2, ReaderMoves
<1>. QED
  BY <1>4, <1>5, <1>6, <1>7, <1>8 DEF ViewRuns

-----------------------------------------------------------------------------
(* Beginning to write *)

\* A release moves whole sets of pending pages to the free ones.
LEMMA ReleaseFacts ==
    ASSUME NEW f, NEW n, f = [ids |-> f.ids, pending |-> f.pending]
    PROVE  LET g == Release(f, n)
               old == {t \in DOMAIN f.pending : t <= n}
           IN  /\ g = [ids |-> g.ids, pending |-> g.pending]
               /\ DOMAIN g.pending = DOMAIN f.pending \ old
               /\ \A t \in DOMAIN g.pending : g.pending[t] = f.pending[t]
               /\ g.ids = f.ids \cup UNION {f.pending[t] : t \in old}
               /\ All(g) = All(f)
<1>. DEFINE g == Release(f, n)
            old == {t \in DOMAIN f.pending : t <= n}
<1>1. g = [ids |-> f.ids \cup UNION {f.pending[t] : t \in old},
           pending |-> [t \in DOMAIN f.pending \ old |-> f.pending[t]]]
  BY DEF Release
<1>2. /\ g = [ids |-> g.ids, pending |-> g.pending]
      /\ DOMAIN g.pending = DOMAIN f.pending \ old
      /\ \A t \in DOMAIN g.pending : g.pending[t] = f.pending[t]
      /\ g.ids = f.ids \cup UNION {f.pending[t] : t \in old}
  BY <1>1
<1>3. old \subseteq DOMAIN f.pending
  OBVIOUS
<1>. HIDE DEF g, old
<1>4. All(g) = All(f)
  <2>1. AllPending(g) \cup UNION {f.pending[t] : t \in old} = AllPending(f)
    <3>1. AllPending(g) = UNION {f.pending[t] : t \in DOMAIN f.pending \ old}
      BY <1>2 DEF AllPending
    <3>. QED
      BY <1>3, <3>1 DEF AllPending
  <2>. QED
    BY <1>2, <2>1 DEF All
<1>. QED
  BY <1>2, <1>4 DEF g, old

\* What is released was freed by transactions that every reader has seen.
LEMMA ReleasedFacts ==
    ASSUME IInv
    PROVE  LET g == Released(freelist)
               gone == DOMAIN freelist.pending \ DOMAIN g.pending
           IN  /\ g = [ids |-> g.ids, pending |-> g.pending]
               /\ DOMAIN g.pending \subseteq DOMAIN freelist.pending
               /\ \A t \in DOMAIN g.pending : g.pending[t] = freelist.pending[t]
               /\ g.ids = freelist.ids \cup UNION {freelist.pending[t] : t \in gone}
               /\ All(g) = All(freelist)
               /\ \A r \in Txs, t \in gone : t <= reader[r].meta.txid
<1>. DEFINE g == Released(freelist)
            gone == DOMAIN freelist.pending \ DOMAIN g.pending
            seen == {reader[r].meta.txid : r \in Txs}
<1>1. freelist = [ids |-> freelist.ids, pending |-> freelist.pending]
      /\ DOMAIN freelist.pending \subseteq Txid
  BY DEF IInv, FreelistFits
<1>2. PICK n : g = Release(freelist, n) /\ (Txs # {} => n = Least(seen) - 1)
  BY DEF Released
<1>3. /\ g = [ids |-> g.ids, pending |-> g.pending]
      /\ DOMAIN g.pending = DOMAIN freelist.pending \ {t \in DOMAIN freelist.pending : t <= n}
      /\ \A t \in DOMAIN g.pending : g.pending[t] = freelist.pending[t]
      /\ g.ids = freelist.ids \cup
                 UNION {freelist.pending[t] : t \in {t \in DOMAIN freelist.pending : t <= n}}
      /\ All(g) = All(freelist)
  BY <1>1, <1>2, ReleaseFacts
<1>4. gone = {t \in DOMAIN freelist.pending : t <= n}
  BY <1>3
<1>5. ASSUME NEW r \in Txs, NEW t \in gone PROVE t <= reader[r].meta.txid
  <2>1. \A q \in Txs : reader[q].meta.txid \in Nat
    BY BoltAssumption DEF IInv, ReadersFit, ReaderAt, MetaPages, Txid, Txs
  <2>2. seen \in SUBSET Nat /\ reader[r].meta.txid \in seen
    BY <2>1
  <2>3. Least(seen) \in Nat /\ Least(seen) <= reader[r].meta.txid
    BY <2>2, LeastIsLeast
  <2>4. t \in Nat /\ t <= Least(seen) - 1
    <3>1. t \in Nat
      BY <1>1, <1>4, BoltAssumption DEF Txid
    <3>. QED
      BY <1>2, <1>4, <3>1
  <2>. QED
    BY <2>1, <2>3, <2>4
<1>. QED
  BY <1>3, <1>4, <1>5

LEMMA BeginRWKeeps ==
    ASSUME IInv, BeginRW
    PROVE  IInv'
<1>. DEFINE g == Released(freelist)
            gone == DOMAIN freelist.pending \ DOMAIN g.pending
<1>1. /\ wpc = "idle" /\ wpc' = "body" /\ freelist' = g
      /\ file' = file /\ disk' = disk /\ datasz' = datasz /\ reader' = reader
      /\ troubles' = troubles /\ Base.txid < MaxTxid /\ \A q \in Readers : ~HoldsMeta(q)
      /\ tx' = [NoTx EXCEPT !.txid = Base.txid + 1, !.root = Base.root, !.list = Base.list,
                            !.hwm = Base.hwm, !.kids = KidsOf(file, Base),
                            !.draft = Content(file, Base)]
  BY DEF BeginRW, Base
<1>2. tx' = [txid |-> Base.txid + 1, root |-> Base.root, list |-> Base.list, hwm |-> Base.hwm,
             kids |-> KidsOf(file, Base), puts |-> {}, draft |-> Content(file, Base),
             dirty |-> << >>, grown |-> FALSE, resume |-> ""]
  BY <1>1 DEF NoTx
<1>3. /\ tx'.txid = Base.txid + 1 /\ tx'.root = Base.root /\ tx'.list = Base.list
      /\ tx'.hwm = Base.hwm /\ tx'.kids = KidsOf(file, Base) /\ tx'.puts = {}
      /\ tx'.draft = Content(file, Base) /\ DOMAIN tx'.dirty = {} /\ tx'.grown = FALSE
  <2>1. DOMAIN << >> = {}
    OBVIOUS
  <2>. QED
    BY <1>2, <2>1
<1>4. /\ Base \in MetaPages /\ Base.hwm \in Nat /\ Base.txid \in Nat
      /\ Version(file, Base) /\ Tree(file, Base) /\ Base.hwm <= LastPage + 1
      /\ Base.root \in Reachable(file, Base)
  BY BaseFacts DEF IInv
<1>5. /\ KidsOf(file, Base) = file[Base.root].kids
      /\ Content(file, Base) = [k \in DOMAIN file[Base.root].kids |-> file[file[Base.root].kids[k]].by]
      /\ Content(file, Base) \in Promise!Versions
  BY <1>4, TreeFacts
<1>6. /\ g = [ids |-> g.ids, pending |-> g.pending]
      /\ DOMAIN g.pending \subseteq DOMAIN freelist.pending
      /\ \A t \in DOMAIN g.pending : g.pending[t] = freelist.pending[t]
      /\ g.ids = freelist.ids \cup UNION {freelist.pending[t] : t \in gone}
      /\ All(g) = All(freelist)
      /\ \A r \in Txs, t \in gone : t <= reader[r].meta.txid
  BY ReleasedFacts
<1>7. /\ FreelistFits /\ All(freelist) = Listed
      /\ \A t \in DOMAIN freelist.pending : t \in Nat /\ t <= Base.txid
  BY <1>1, BoltAssumption DEF IInv, FreelistFits, Base, Txid
<1>. HIDE DEF g
<1>8. /\ Listed' = Listed /\ Base' = Base /\ Stage' = "body"
      /\ KidPages' = {KidsOf(file, Base)[k] : k \in DOMAIN KidsOf(file, Base)}
      /\ After' = [p \in Pgid |-> file[p]]
  BY <1>1, <1>3 DEF Listed, Base, Stage, KidPages, After
<1>9. tx'.txid \notin DOMAIN g.pending
  BY <1>3, <1>4, <1>6, <1>7
<1>10. Own' = {} /\ Kept' = AllPending(g)
  BY <1>1, <1>9 DEF Own, PendingOf, Kept, AllPending
<1>11. WriterTypes'
  <2>1. tx'.txid \in Txid
    BY <1>1, <1>3, <1>4, BoltAssumption DEF Txid
  <2>2. TxRecord(tx')
    BY <1>2, <1>3, <1>5, <2>1 DEF TxRecord
  <2>3. TxRecord(tx)'
    BY <2>2 DEF TxRecord
  <2>4. troubles' \in 0 .. MaxTroubles
    BY <1>1 DEF IInv, WriterTypes
  <2>5. Newest(file)' = Base
    BY <1>1 DEF Base
  <2>. QED
    BY <1>1, <1>3, <1>8, <2>3, <2>4, <2>5 DEF WriterTypes, Before
<1>12. g.ids \cap AllPending(g) = {}
  BY <1>6, <1>7 DEF FreelistFits, AllPending
<1>13. FreelistFits'
  <2>1. \A s, t \in DOMAIN g.pending : s # t => g.pending[s] \cap g.pending[t] = {}
    BY <1>6, <1>7 DEF FreelistFits
  <2>2. Kept' \subseteq Listed' /\ g.ids \subseteq Listed'
    BY <1>6, <1>7, <1>8, <1>10 DEF All
  <2>3. \A t \in DOMAIN g.pending : t <= tx'.txid
    BY <1>3, <1>4, <1>6, <1>7
  <2>4. DOMAIN g.pending \subseteq Txid \ {0}
    BY <1>6, <1>7 DEF FreelistFits
  <2>. QED
    BY <1>1, <1>6, <1>8, <1>10, <1>12, <2>1, <2>2, <2>3, <2>4 DEF FreelistFits, Before
<1>14. DirtyFits'
  <2>1. Listed' \ Kept' \subseteq g.ids
    BY <1>6, <1>7, <1>8, <1>10 DEF All
  <2>2. Newest(file)' = Base
    BY <1>1 DEF Base
  <2>3. Base.hwm .. (tx'.hwm - 1) = {}
    BY <1>3, <1>4
  <2>. QED
    BY <1>1, <1>3, <1>4, <1>8, <2>1, <2>2, <2>3 DEF DirtyFits
<1>15. NodesFit'
  <2>1. \A p \in 2 .. (Base.hwm - 1) : After'[p] = file[p]
    BY <1>4, <1>8, VersionFacts, BoltAssumption DEF Pgid
  <2>2. LeavesFit'
    <3>. DEFINE kids == file[Base.root].kids
    <3>1. /\ DOMAIN kids \subseteq Keys
          /\ \A k \in DOMAIN kids :
                /\ kids[k] \in 2 .. (Base.hwm - 1) /\ kids[k] # Base.root
                /\ file[kids[k]].kind = "leaf" /\ file[kids[k]].by \in Txid
                /\ \A j \in DOMAIN kids : kids[j] = kids[k] => j = k
      BY <1>4 DEF Tree
    <3>2. tx'.kids = kids
      BY <1>3, <1>5
    <3>. HIDE DEF kids
    <3>3. \A k \in DOMAIN kids : After'[kids[k]] = file[kids[k]]
      BY <2>1, <3>1
    <3>. QED
      BY <1>3, <3>1, <3>2, <3>3 DEF LeavesFit
  <2>3. tx'.draft = [k \in DOMAIN tx'.kids \cup tx'.puts |->
                        IF k \in tx'.puts THEN tx'.txid ELSE After'[tx'.kids[k]].by]
    <3>1. \A k \in DOMAIN KidsOf(file, Base) : After'[KidsOf(file, Base)[k]] = file[KidsOf(file, Base)[k]]
      BY <1>4, <1>5, <2>1 DEF Tree
    <3>2. tx'.draft = [k \in DOMAIN KidsOf(file, Base) |-> After'[KidsOf(file, Base)[k]].by]
      BY <1>3, <1>5, <3>1
    <3>3. /\ tx'.puts = {} /\ tx'.kids = KidsOf(file, Base)
      BY <1>3
    <3>. QED
      BY <3>2, <3>3
  <2>4. {tx'.root} \cup KidPages' = Reachable(file, Base)
    BY <1>3, <1>8 DEF Reachable
  <2>5. Newest(file)' = Base /\ Reachable(file, Newest(file))' = Reachable(file, Base)
    BY <1>1 DEF Base, Reachable, KidsOf
  <2>. QED
    BY <1>3, <1>8, <1>10, <2>2, <2>3, <2>4, <2>5 DEF NodesFit
<1>16. VersionFits'
  BY <1>1, <1>8 DEF VersionFits
<1>17. DiskFits'
  BY <1>1 DEF IInv, DiskFits, Used, Reachable, KidsOf, ListAt
<1>18. MapFits'
  <2>1. Base.hwm <= datasz
    <3>1. Base.hwm - 1 \in 0 .. (Base.hwm - 1) /\ Base.hwm - 1 \in Pgid
      BY <1>4, VersionFacts, BoltAssumption DEF Version, Pgid
    <3>2. file[Base.hwm - 1].kind # "zero"
      BY <1>4, <3>1 DEF Version
    <3>. QED
      BY <1>4, <3>1, <3>2 DEF IInv, MapFits
  <2>. QED
    BY <1>1, <1>3, <1>8, <2>1 DEF IInv, MapFits
<1>19. ReadersFit'
  <2>1. reader \in [Readers -> ReaderAt]
    BY DEF IInv, ReadersFit
  <2>2. ASSUME NEW r \in Readers, HoldsMap(r)
        PROVE  Safe(reader[r].meta)'
    <3>1. reader[r].pc = "read" /\ r \in Txs
      BY <1>1, <2>2 DEF HoldsMap, HoldsMeta, Txs
    <3>. DEFINE m == reader[r].meta
    <3>2. Safe(m)
      BY <2>2, <3>1 DEF IInv, ReadersFit, VersionOf
    <3>3. Reachable(file, m) \cap (Listed \ AllPending(g)) = {}
      <4>1. ASSUME NEW x \in Reachable(file, m), x \in Listed, x \notin AllPending(g)
            PROVE  FALSE
        <5>1. x \notin freelist.ids
          BY <3>2, PagesFacts DEF Safe
        <5>2. PICK t \in DOMAIN freelist.pending : x \in freelist.pending[t]
          BY <1>7, <4>1, <5>1 DEF All, AllPending
        <5>3. t \in gone
          BY <1>6, <4>1, <5>2 DEF AllPending
        <5>. QED
          BY <1>6, <3>1, <3>2, <5>2, <5>3 DEF Safe
      <4>. QED
        BY <4>1
    <3>4. \A t \in DOMAIN g.pending : t <= m.txid => Reachable(file, m) \cap g.pending[t] = {}
      BY <1>6, <3>2 DEF Safe
    <3>5. Reusable' = Listed \ AllPending(g)
      BY <1>1, <1>8, <1>10 DEF Reusable
    <3>6. Tree(file', m) /\ Reachable(file', m) = Reachable(file, m) /\ Newest(file)' = Newest(file)
      BY <1>1, <3>2 DEF Safe
    <3>. QED
      BY <1>1, <3>2, <3>3, <3>4, <3>5, <3>6 DEF Safe
  <2>3. ASSUME NEW r \in Readers
        PROVE  /\ reader'[r].pc = "copy" => reader'[r].at = NewestAt(file)' \/ wpc' \in {"idle", "commit"}
               /\ HoldsMap(r)' => Safe(VersionOf(r))'
    <3>1. reader'[r].pc # "copy"
      BY <1>1 DEF HoldsMeta
    <3>2. (VersionOf(r) = reader[r].meta)' /\ HoldsMap(r)' = HoldsMap(r)
      BY <1>1, <3>1 DEF VersionOf, HoldsMap
    <3>3. VersionOf(r)' = reader[r].meta
      BY <1>1, <3>2
    <3>. QED
      BY <1>1, <2>2, <3>1, <3>2, <3>3 DEF Safe
  <2>. QED
    BY <1>1, <2>1, <2>3 DEF ReadersFit
<1>20. Sound(file)'
  BY <1>1 DEF IInv
<1>. QED
  BY <1>11, <1>13, <1>14, <1>15, <1>16, <1>17, <1>18, <1>19, <1>20 DEF IInv

-----------------------------------------------------------------------------
(* Facts that the steps of the writer share *)

\* The pages that readers look at stay as they are, and are not reused.
LEMMA ReadersStay ==
    ASSUME IInv, reader' = reader, file'[0] = file[0], file'[1] = file[1],
           \A p \in Pgid \ DOMAIN tx.dirty : file'[p] = file[p],
           Reusable' \subseteq Reusable,
           \A t \in DOMAIN freelist'.pending : t \in Int,
           \A t \in DOMAIN freelist'.pending : t <= Base.txid =>
               t \in DOMAIN freelist.pending /\ freelist'.pending[t] = freelist.pending[t],
           wpc \in {"idle", "commit"} => wpc' \in {"idle", "commit"}
    PROVE  ReadersFit'
<1>1. /\ NewestAt(file') = NewestAt(file) /\ Newest(file') = Newest(file)
      /\ Base.hwm \in Nat /\ Base.txid \in Nat /\ file[0] \in MetaPages /\ file[1] \in MetaPages
      /\ Base.hwm <= LastPage + 1 /\ Base \in MetaPages
  <2>1. NewestAt(file') = NewestAt(file)
    BY DEF NewestAt
  <2>2. NewestAt(file) \in {0, 1}
    BY BaseFacts DEF IInv
  <2>3. Newest(file') = Newest(file)
    BY <2>1, <2>2 DEF Newest
  <2>. QED
    BY <2>1, <2>3, BaseFacts DEF IInv, Sound, Metas
<1>2. reader \in [Readers -> ReaderAt]
  BY DEF IInv, ReadersFit
<1>3. ASSUME NEW r \in Readers, HoldsMap(r)
      PROVE  VersionOf(r) \in MetaPages /\ VersionOf(r)' = VersionOf(r) /\ Safe(VersionOf(r))
  <2>1. reader[r] \in ReaderAt
    BY <1>2
  <2>2. VersionOf(r) \in MetaPages
    BY <1>1, <2>1 DEF VersionOf, ReaderAt
  <2>3. VersionOf(r)' = VersionOf(r)
    BY <2>1 DEF VersionOf, ReaderAt
  <2>. QED
    BY <1>3, <2>2, <2>3 DEF IInv, ReadersFit
<1>4. ASSUME NEW m \in MetaPages, Safe(m)
      PROVE  Safe(m)'
  <2>1. Reachable(file, m) \subseteq Pgid \ DOMAIN tx.dirty
    <3>1. Reachable(file, m) \subseteq 2 .. (m.hwm - 1) /\ m.hwm <= LastPage + 1
      BY <1>1, <1>4, TreeFacts DEF Safe, Base, MetaPages, Tree
    <3>2. 2 .. (m.hwm - 1) \subseteq Pgid
      BY <3>1, BoltAssumption DEF Pgid, MetaPages
    <3>. QED
      BY <1>4, <3>1, <3>2, PagesFacts
  <2>2. \A p \in Reachable(file, m) : file'[p] = file[p]
    BY <2>1
  <2>3. Tree(file', m) /\ Reachable(file', m) = Reachable(file, m)
    BY <1>4, <2>2, TreeStays DEF Safe
  <2>4. Reachable(file', m) \cap Reusable' = {}
    BY <1>4, <2>3 DEF Safe
  <2>5. ASSUME NEW t \in DOMAIN freelist'.pending, t <= m.txid
        PROVE  Reachable(file', m) \cap freelist'.pending[t] = {}
    <3>1. t <= Base.txid
      BY <1>1, <1>4, <2>5, BoltAssumption DEF Safe, Base, MetaPages, Txid
    <3>. QED
      BY <1>4, <2>3, <2>5, <3>1 DEF Safe
  <2>6. m.txid <= Newest(file').txid /\ m.hwm <= Newest(file').hwm
    BY <1>1, <1>4 DEF Safe
  <2>. QED
    BY <2>3, <2>4, <2>5, <2>6 DEF Safe
<1>5. ASSUME NEW r \in Readers
      PROVE  /\ reader'[r].pc = "copy" => reader'[r].at = NewestAt(file)' \/ wpc' \in {"idle", "commit"}
             /\ HoldsMap(r)' => Safe(VersionOf(r))'
  <2>1. reader'[r].pc = "copy" => reader'[r].at = NewestAt(file)' \/ wpc' \in {"idle", "commit"}
    BY <1>1 DEF IInv, ReadersFit
  <2>2. ASSUME HoldsMap(r)'
        PROVE  Safe(VersionOf(r))'
    <3>1. HoldsMap(r)
      BY <2>2 DEF HoldsMap
    <3>2. VersionOf(r) \in MetaPages /\ VersionOf(r)' = VersionOf(r) /\ Safe(VersionOf(r))
      BY <1>3, <3>1
    <3>3. \A m : m = VersionOf(r)' /\ Safe(m)' => Safe(VersionOf(r))'
      BY DEF Safe
    <3>. QED
      BY <1>4, <3>2, <3>3
  <2>. QED
    BY <2>1, <2>2
<1>. QED
  BY <1>2, <1>5 DEF ReadersFit

\* A page that this transaction frees was in use, and so it is on the list only now.
LEMMA FreeKeepsList ==
    ASSUME IInv, Stage \in Before, NEW pages, pages \subseteq Used(file, Base)
    PROVE  LET g == Free(freelist, tx.txid, pages)
           IN  /\ g = [ids |-> g.ids, pending |-> g.pending]
               /\ g.ids = freelist.ids
               /\ DOMAIN g.pending \subseteq Txid \ {0}
               /\ \A s, t \in DOMAIN g.pending : s # t => g.pending[s] \cap g.pending[t] = {}
               /\ g.ids \cap AllPending(g) = {}
               /\ UNION {g.pending[t] : t \in DOMAIN g.pending \ {tx.txid}} = Kept
               /\ PendingOf(g, tx.txid) = Own \cup pages
               /\ \A t \in DOMAIN g.pending : t <= tx.txid
               /\ \A t \in DOMAIN g.pending : t <= Base.txid =>
                     t \in DOMAIN freelist.pending /\ g.pending[t] = freelist.pending[t]
               /\ All(g) = All(freelist) \cup pages
               /\ All(g) \subseteq 2 .. LastPage
<1>. DEFINE g == Free(freelist, tx.txid, pages)
<1>1. /\ freelist = [ids |-> freelist.ids, pending |-> freelist.pending]
      /\ DOMAIN freelist.pending \subseteq Txid \ {0}
      /\ \A s, t \in DOMAIN freelist.pending :
            s # t => freelist.pending[s] \cap freelist.pending[t] = {}
      /\ freelist.ids \cap AllPending(freelist) = {}
      /\ Own \subseteq Used(file, Base)
      /\ \A t \in DOMAIN freelist.pending : t <= tx.txid
  BY DEF IInv, FreelistFits, Base
<1>2. /\ g = [ids |-> g.ids, pending |-> g.pending]
      /\ g.ids = freelist.ids
      /\ DOMAIN g.pending = DOMAIN freelist.pending \cup {tx.txid}
      /\ g.pending[tx.txid] = Own \cup pages
      /\ \A t \in DOMAIN freelist.pending \ {tx.txid} : g.pending[t] = freelist.pending[t]
      /\ AllPending(g) = AllPending(freelist) \cup pages
      /\ All(g) = All(freelist) \cup pages
  BY <1>1, FreeAddsOwn DEF Own
<1>. HIDE DEF g
<1>3. /\ tx.txid \in Txid /\ tx.txid = Base.txid + 1 /\ Base.txid \in Nat
      /\ Listed \cap Used(file, Base) = {} /\ Used(file, Base) \subseteq 2 .. LastPage
  BY BaseFacts DEF IInv, WriterTypes, TxRecord, Base
<1>4. Kept \subseteq Listed /\ freelist.ids \subseteq Listed /\ All(freelist) \subseteq 2 .. LastPage
  BY PagesFacts
<1>5. \A t \in DOMAIN freelist.pending \ {tx.txid} : freelist.pending[t] \subseteq Kept
  BY DEF Kept
<1>6. \A s, t \in DOMAIN g.pending : s # t => g.pending[s] \cap g.pending[t] = {}
  <2>. SUFFICES ASSUME NEW s \in DOMAIN g.pending, NEW t \in DOMAIN g.pending, s # t
                PROVE  g.pending[s] \cap g.pending[t] = {}
    OBVIOUS
  <2>1. CASE s # tx.txid /\ t # tx.txid
    BY <1>1, <1>2, <2>1
  <2>2. CASE s = tx.txid
    BY <1>1, <1>2, <1>3, <1>4, <1>5, <2>2
  <2>3. CASE t = tx.txid
    BY <1>1, <1>2, <1>3, <1>4, <1>5, <2>3
  <2>. QED
    BY <2>1, <2>2, <2>3
<1>7. g.ids \cap AllPending(g) = {}
  BY <1>1, <1>2, <1>3, <1>4
<1>8. UNION {g.pending[t] : t \in DOMAIN g.pending \ {tx.txid}} = Kept
  BY <1>2 DEF Kept
<1>9. DOMAIN g.pending \subseteq Txid \ {0}
  BY <1>1, <1>2, <1>3
<1>10. \A t \in DOMAIN g.pending : t <= tx.txid
  <2>1. tx.txid <= tx.txid
    BY <1>3, BoltAssumption DEF Txid
  <2>. QED
    BY <1>1, <1>2, <2>1
<1>11. \A t \in DOMAIN g.pending : t <= Base.txid =>
          t \in DOMAIN freelist.pending /\ g.pending[t] = freelist.pending[t]
  BY <1>2, <1>3
<1>12. PendingOf(g, tx.txid) = Own \cup pages
  BY <1>2 DEF PendingOf
<1>. QED
  BY <1>2, <1>3, <1>4, <1>6, <1>7, <1>8, <1>9, <1>10, <1>11, <1>12 DEF g

\* While the writer prepares its pages in memory, file and disk stay.
LEMMA DiskStays ==
    ASSUME IInv, file' = file, disk' = disk, wpc # "commit", wpc' \notin {"meta", "commit"}
    PROVE  Sound(file)' /\ DiskFits'
<1>1. Newest(file)' = Newest(file) /\ Used(file, Newest(file))' = Used(file, Newest(file))
  BY DEF Used, Reachable, ListAt, KidsOf
<1>. QED
  BY <1>1 DEF IInv, DiskFits

LEMMA BodyKeeps ==
    ASSUME IInv, NEW c \in Changes, Body(c.puts, c.dels)
    PROVE  IInv'
<1>. DEFINE puts == c.puts
            dels == c.dels
            pages == {tx.kids[k] : k \in dels}
            g == Free(freelist, tx.txid, pages)
<1>1. /\ wpc = "body" /\ wpc' = "spill" /\ dels \subseteq DOMAIN tx.kids
      /\ freelist' = g
      /\ tx' = [tx EXCEPT !.puts = puts, !.kids = [k \in DOMAIN @ \ dels |-> @[k]],
                          !.draft = [k \in puts \cup (DOMAIN @ \ dels) |->
                                        IF k \in puts THEN tx.txid ELSE @[k]]]
      /\ file' = file /\ disk' = disk /\ datasz' = datasz /\ reader' = reader /\ troubles' = troubles
  BY DEF Body
<1>2. puts \subseteq Keys /\ dels \subseteq Keys \ puts
  BY BoltAssumption
<1>. HIDE DEF puts, dels
<1>3. /\ TxRecord(tx) /\ Stage = "body" /\ Stage' = "spill"
      /\ tx.txid = Base.txid + 1 /\ Base.txid \in Nat
  <2>1. Stage = "body" /\ Stage' = "spill"
    BY <1>1 DEF Stage
  <2>. QED
    BY <2>1, BaseFacts DEF IInv, WriterTypes, Before, Base
<1>4. /\ tx'.txid = tx.txid /\ tx'.root = tx.root /\ tx'.list = tx.list /\ tx'.hwm = tx.hwm
      /\ tx'.dirty = tx.dirty /\ tx'.grown = tx.grown /\ tx'.puts = puts /\ tx'.resume = tx.resume
      /\ tx'.kids = [k \in DOMAIN tx.kids \ dels |-> tx.kids[k]]
      /\ tx'.draft = [k \in puts \cup (DOMAIN tx.draft \ dels) |->
                         IF k \in puts THEN tx.txid ELSE tx.draft[k]]
      /\ tx' = [txid |-> tx'.txid, root |-> tx'.root, list |-> tx'.list, hwm |-> tx'.hwm,
                kids |-> tx'.kids, puts |-> tx'.puts, draft |-> tx'.draft, dirty |-> tx'.dirty,
                grown |-> tx'.grown, resume |-> tx'.resume]
  BY <1>1, <1>3 DEF TxRecord
<1>5. /\ DOMAIN tx.dirty = {} /\ Own = {} /\ tx.puts = {} /\ LeavesFit /\ tx.root = Base.root
      /\ {tx.root} \cup KidPages = Reachable(file, Base)
      /\ tx.draft = [k \in DOMAIN tx.kids \cup tx.puts |->
                        IF k \in tx.puts THEN tx.txid ELSE After[tx.kids[k]].by]
  BY <1>3 DEF IInv, NodesFit, Base
<1>6. pages \subseteq KidPages /\ Reachable(file, Base) \subseteq Used(file, Base)
  BY <1>1 DEF KidPages, Used
<1>7. pages \subseteq Used(file, Base) /\ Stage \in Before
  BY <1>3, <1>5, <1>6 DEF Before
<1>8. /\ g = [ids |-> g.ids, pending |-> g.pending]
      /\ g.ids = freelist.ids
      /\ DOMAIN g.pending \subseteq Txid \ {0}
      /\ \A s, t \in DOMAIN g.pending : s # t => g.pending[s] \cap g.pending[t] = {}
      /\ g.ids \cap AllPending(g) = {}
      /\ UNION {g.pending[t] : t \in DOMAIN g.pending \ {tx.txid}} = Kept
      /\ PendingOf(g, tx.txid) = Own \cup pages
      /\ \A t \in DOMAIN g.pending : t <= tx.txid
      /\ \A t \in DOMAIN g.pending : t <= Base.txid =>
            t \in DOMAIN freelist.pending /\ g.pending[t] = freelist.pending[t]
  <2>. HIDE DEF pages
  <2>. QED
    BY <1>7, FreeKeepsList
<1>. HIDE DEF g
<1>9. /\ Listed' = Listed /\ Base' = Base /\ Own' = pages /\ Kept' = Kept /\ After' = After
      /\ Reusable' = Reusable /\ Newest(file)' = Base
  <2>1. Own' = pages /\ Kept' = Kept
    <3>1. Own' = PendingOf(g, tx.txid)
      BY <1>1, <1>4 DEF Own, PendingOf
    <3>2. Kept' = UNION {g.pending[t] : t \in DOMAIN g.pending \ {tx.txid}}
      BY <1>1, <1>4 DEF Kept
    <3>. QED
      BY <1>5, <1>8, <3>1, <3>2
  <2>2. Listed' = Listed /\ Base' = Base /\ After' = After /\ Newest(file)' = Base
    BY <1>1, <1>4 DEF Listed, Base, After
  <2>. QED
    BY <1>1, <2>1, <2>2 DEF Reusable
<1>10. WriterTypes'
  <2>1. tx'.draft \in Promise!Versions
    <3>1. DOMAIN tx.draft \subseteq Keys /\ \A k \in DOMAIN tx.draft : tx.draft[k] \in Txid
      BY <1>3 DEF TxRecord, Promise!Versions
    <3>2. tx.txid \in Txid
      BY <1>3 DEF TxRecord
    <3>3. tx'.draft \in [puts \cup (DOMAIN tx.draft \ dels) -> Txid]
          /\ puts \cup (DOMAIN tx.draft \ dels) \in SUBSET Keys
      BY <1>2, <1>4, <3>1, <3>2
    <3>. QED
      BY <3>3 DEF Promise!Versions
  <2>2. TxRecord(tx)'
    <3>1. TxRecord(tx')
      BY <1>2, <1>3, <1>4, <2>1 DEF TxRecord
    <3>. QED
      BY <3>1 DEF TxRecord
  <2>3. troubles' \in 0 .. MaxTroubles
    BY <1>1 DEF IInv, WriterTypes
  <2>. QED
    BY <1>1, <1>3, <1>4, <1>9, <2>2, <2>3 DEF WriterTypes, Before
<1>11. FreelistFits'
  <2>1. freelist' = g /\ Stage' = "spill" /\ wpc' = "spill" /\ tx'.txid = tx.txid
    BY <1>1, <1>3, <1>4
  <2>2. AllPending(freelist)' = AllPending(g)
    BY <2>1 DEF AllPending
  <2>3. /\ Kept' \subseteq Listed' /\ freelist'.ids \subseteq Listed'
        /\ Own' \subseteq Used(file, Base)
    BY <1>7, <1>8, <1>9, <2>1, PagesFacts
  <2>4. (Own \subseteq Used(file, Newest(file)))'
    <3>1. Used(file, Newest(file))' = Used(file, Base)
      BY <1>1 DEF Base, Used, Reachable, ListAt, KidsOf
    <3>. QED
      BY <2>3, <3>1
  <2>5. DOMAIN g.pending \subseteq Txid \ {0} /\ \A t \in DOMAIN g.pending : t <= tx.txid
    BY <1>8
  <2>6. /\ g = [ids |-> g.ids, pending |-> g.pending]
        /\ \A s, t \in DOMAIN g.pending : s # t => g.pending[s] \cap g.pending[t] = {}
        /\ g.ids \cap AllPending(g) = {}
    BY <1>8
  <2>. QED
    BY <2>1, <2>2, <2>3, <2>4, <2>5, <2>6 DEF FreelistFits
<1>12. DirtyFits'
  BY <1>1, <1>3, <1>4, <1>7, <1>8, <1>9 DEF IInv, DirtyFits, Base
<1>13. NodesFit'
  <2>1. LeavesFit'
    BY <1>4, <1>5, <1>9, SMTT(20) DEF LeavesFit
  <2>2. KidPages' = KidPages \ pages
    <3>1. KidPages' = {tx.kids[k] : k \in DOMAIN tx.kids \ dels}
      BY <1>4 DEF KidPages
    <3>2. \A j, k \in DOMAIN tx.kids : tx.kids[j] = tx.kids[k] => j = k
      BY <1>5 DEF LeavesFit
    <3>3. dels \subseteq DOMAIN tx.kids
      BY <1>1
    <3>. QED
      BY ONLY <3>1, <3>2, <3>3 DEF KidPages, pages
  <2>3. tx.root \notin KidPages
    BY <1>5 DEF LeavesFit, KidPages
  <2>4. tx'.draft = [k \in DOMAIN tx'.kids \cup tx'.puts |->
                        IF k \in tx'.puts THEN tx'.txid ELSE After'[tx'.kids[k]].by]
    <3>1. DOMAIN tx.draft = DOMAIN tx.kids /\ \A k \in DOMAIN tx.kids : tx.draft[k] = After[tx.kids[k]].by
      BY <1>5
    <3>2. DOMAIN tx'.kids = DOMAIN tx.kids \ dels /\ \A k \in DOMAIN tx'.kids : tx'.kids[k] = tx.kids[k]
      BY <1>4
    <3>3. puts \cup (DOMAIN tx.draft \ dels) = DOMAIN tx'.kids \cup tx'.puts
      BY <1>4, <3>1, <3>2
    <3>4. \A k \in DOMAIN tx'.kids \cup tx'.puts :
             (IF k \in puts THEN tx.txid ELSE tx.draft[k])
             = (IF k \in tx'.puts THEN tx'.txid ELSE After'[tx'.kids[k]].by)
      BY <1>4, <1>9, <3>1, <3>2
    <3>5. [k \in puts \cup (DOMAIN tx.draft \ dels) |->
              IF k \in puts THEN tx.txid ELSE tx.draft[k]]
          = [k \in DOMAIN tx'.kids \cup tx'.puts |->
                IF k \in puts THEN tx.txid ELSE tx.draft[k]]
      BY ONLY <3>3
    <3>6. [k \in DOMAIN tx'.kids \cup tx'.puts |->
              IF k \in puts THEN tx.txid ELSE tx.draft[k]]
          = [k \in DOMAIN tx'.kids \cup tx'.puts |->
                IF k \in tx'.puts THEN tx'.txid ELSE After'[tx'.kids[k]].by]
      BY ONLY <3>4
    <3>. QED
      BY ONLY <1>4, <3>5, <3>6
  <2>5. Reachable(file, Newest(file))' = Reachable(file, Base)
    BY <1>1 DEF Base, Reachable, KidsOf
  <2>6. /\ pages \cup {tx.root} \cup (KidPages' \ DOMAIN tx.dirty) = Reachable(file, Base)
        /\ pages \cap ({tx.root} \cup KidPages') = {}
    BY <1>5, <1>6, <2>2, <2>3
  <2>. QED
    BY <1>3, <1>4, <1>5, <1>9, <2>1, <2>4, <2>5, <2>6 DEF NodesFit
<1>14. VersionFits'
  BY <1>1, <1>3 DEF VersionFits
<1>15. Sound(file)' /\ DiskFits'
  BY <1>1, DiskStays
<1>16. MapFits'
  <2>1. tx.hwm <= datasz
    BY <1>7 DEF IInv, MapFits
  <2>2. tx.grown = FALSE
    BY <1>3 DEF IInv, NodesFit
  <2>. QED
    BY <1>1, <1>3, <1>4, <2>1, <2>2 DEF IInv, MapFits
<1>17. ReadersFit'
  <2>1. \A t \in DOMAIN g.pending : t \in Int
    BY <1>8, BoltAssumption DEF Txid
  <2>. QED
    BY <1>1, <1>8, <1>9, <2>1, ReadersStay
<1>. QED
  BY <1>10, <1>11, <1>12, <1>13, <1>14, <1>15, <1>16, <1>17 DEF IInv

-----------------------------------------------------------------------------
(* Placing pages *)

\* What the three steps that place pages have in common: old pages are freed, and n
\* pages, which are S, are taken and dirty.
Placing(old, n, f, S) ==
    /\ wpc \in {"spill", "list"} /\ Stage' \in Before /\ wpc' \notin {"idle", "commit"}
    /\ old \subseteq Used(file, Base) /\ n \in Nat \ {0}
    /\ f = Free(freelist, tx.txid, old)
    /\ S = Place(f, n) .. (Place(f, n) + n - 1)
    /\ ~MustGrow(f, n) /\ HasRoom(f, n) /\ (tx.grown => tx.hwm + n < datasz)
    /\ file' = file /\ reader' = reader /\ freelist' = ListAfter(f, n)
    /\ tx'.txid = tx.txid /\ tx'.hwm = HwmAfter(f, n)
    /\ DOMAIN tx'.dirty = DOMAIN tx.dirty \cup S
    /\ \A p \in DOMAIN tx'.dirty : tx'.dirty[p].kind # "zero"
    /\ Stage' \in {"body", "spill", "list"} => tx'.list = tx.list

\* The next pages are taken from the list or from behind the last, so that they
\* are neither in use, nor taken already, nor kept for a reader.
LEMMA PlacingKeeps ==
    ASSUME IInv, NEW old, NEW n, NEW f, NEW S, Placing(old, n, f, S)
    PROVE  /\ FreelistFits' /\ DirtyFits' /\ ReadersFit'
           /\ Listed' = Listed /\ Base' = Base /\ Own' = Own \cup old /\ Kept' = Kept
           /\ Place(f, n) \in S /\ S \subseteq 2 .. (tx'.hwm - 1) /\ S \subseteq Pgid
           /\ S \cap (Used(file, Base) \cup DOMAIN tx.dirty \cup Own \cup Kept) = {}
           /\ All(freelist') = (All(freelist) \cup old) \ S
           /\ \/ S \subseteq freelist.ids /\ tx'.hwm = tx.hwm
              \/ S = tx.hwm .. (tx'.hwm - 1) /\ tx'.hwm = tx.hwm + n
           /\ tx'.hwm \in Nat /\ tx.hwm <= tx'.hwm /\ tx'.hwm <= LastPage + 1 /\ tx'.hwm <= datasz
<1>. USE DEF Placing
<1>. DEFINE g == ListAfter(f, n)
<1>1. Stage = wpc /\ Stage \in Before /\ Stage \in {"spill", "list"}
  BY DEF Stage, Before
<1>2. /\ f = [ids |-> f.ids, pending |-> f.pending]
      /\ f.ids = freelist.ids
      /\ DOMAIN f.pending \subseteq Txid \ {0}
      /\ \A s, t \in DOMAIN f.pending : s # t => f.pending[s] \cap f.pending[t] = {}
      /\ f.ids \cap AllPending(f) = {}
      /\ UNION {f.pending[t] : t \in DOMAIN f.pending \ {tx.txid}} = Kept
      /\ PendingOf(f, tx.txid) = Own \cup old
      /\ \A t \in DOMAIN f.pending : t <= tx.txid
      /\ \A t \in DOMAIN f.pending : t <= Base.txid =>
            t \in DOMAIN freelist.pending /\ f.pending[t] = freelist.pending[t]
      /\ All(f) = All(freelist) \cup old
      /\ All(f) \subseteq 2 .. LastPage
  BY <1>1, FreeKeepsList
<1>3. /\ freelist.ids \subseteq Listed /\ Kept \subseteq Listed
      /\ DOMAIN tx.dirty \cap Used(file, Base) = {} /\ DOMAIN tx.dirty \cap freelist.ids = {}
      /\ freelist.ids \subseteq Listed \ Kept
  BY <1>1, PagesFacts DEF Reusable
<1>4. /\ Base.hwm \in Nat /\ Base.hwm > 2 /\ Base.hwm <= LastPage + 1
      /\ Listed = (2 .. (Base.hwm - 1)) \ Used(file, Base)
      /\ Used(file, Base) \subseteq 2 .. (Base.hwm - 1)
  BY BaseFacts DEF IInv
<1>5. /\ tx.hwm \in Nat /\ Base.hwm <= tx.hwm /\ tx.hwm <= LastPage + 1 /\ tx.hwm <= datasz
      /\ DOMAIN tx.dirty \subseteq (Listed \ Kept) \cup Base.hwm .. (tx.hwm - 1)
      /\ Base.hwm .. (tx.hwm - 1) \subseteq DOMAIN tx.dirty
      /\ Listed \ Kept \subseteq freelist.ids \cup DOMAIN tx.dirty
      /\ tx.list = Base.list
      /\ datasz \in Nat
  BY <1>1 DEF IInv, DirtyFits, MapFits, Base
<1>6. f.ids \subseteq Nat
  BY <1>2, <1>3, <1>4
<1>7. /\ Place(f, n) \in Nat /\ Place(f, n) \in S
      /\ g = [ids |-> g.ids, pending |-> f.pending]
      /\ \/ S \subseteq f.ids /\ g.ids = f.ids \ S /\ HwmAfter(f, n) = tx.hwm
         \/ S = tx.hwm .. (tx.hwm + n - 1) /\ g = f /\ HwmAfter(f, n) = tx.hwm + n
  BY <1>2, <1>5, <1>6, PlaceIsFree
<1>8. /\ \/ S \subseteq freelist.ids /\ tx'.hwm = tx.hwm
         \/ S = tx.hwm .. (tx'.hwm - 1) /\ tx'.hwm = tx.hwm + n
      /\ g.ids = freelist.ids \ S /\ g.pending = f.pending
      /\ g = [ids |-> g.ids, pending |-> g.pending]
  <2>3. g.pending = f.pending /\ g = [ids |-> g.ids, pending |-> g.pending]
    BY <1>7
  <2>1. CASE S \subseteq f.ids /\ g.ids = f.ids \ S /\ HwmAfter(f, n) = tx.hwm
    <3>1. S \subseteq freelist.ids /\ g.ids = freelist.ids \ S
      BY <1>2, <2>1
    <3>2. tx'.hwm = tx.hwm
      BY <2>1
    <3>. QED
      BY <2>3, <3>1, <3>2
  <2>2. CASE S = tx.hwm .. (tx.hwm + n - 1) /\ g = f /\ HwmAfter(f, n) = tx.hwm + n
    <3>1. ASSUME NEW x \in freelist.ids PROVE x \notin S
      <4>1. x \in 2 .. (Base.hwm - 1)
        BY <1>3, <1>4
      <4>2. S = tx.hwm .. (tx.hwm + n - 1)
        BY <2>2
      <4>3. \A y \in tx.hwm .. (tx.hwm + n - 1) : tx.hwm <= y
        BY <1>5
      <4>4. ~(tx.hwm <= x)
        BY <1>4, <1>5, <4>1
      <4>. QED
        BY <4>2, <4>3, <4>4
    <3>2. g.ids = freelist.ids \ S
      BY <1>2, <2>2, <3>1
    <3>3. tx'.hwm = tx.hwm + n
      BY <2>2
    <3>4. S = tx.hwm .. (tx'.hwm - 1)
      <4>1. tx'.hwm - 1 = tx.hwm + n - 1
        BY <1>5, <3>3
      <4>. QED
        BY <2>2, <4>1
    <3>. QED
      BY <2>3, <3>2, <3>3, <3>4
  <2>. QED
    BY <1>7, <2>1, <2>2
<1>9. tx'.hwm \in Nat /\ tx.hwm <= tx'.hwm /\ tx'.hwm <= LastPage + 1 /\ tx'.hwm <= datasz
  <2>1. tx'.hwm \in Nat /\ tx.hwm <= tx'.hwm
    BY <1>5, <1>8
  <2>2. tx'.hwm <= LastPage + 1
    BY DEF HasRoom
  <2>3. tx'.hwm <= datasz
    <3>1. CASE Runs(f, n) # {}
      BY <1>5, <3>1 DEF HwmAfter
    <3>2. CASE Runs(f, n) = {}
      <4>1. tx'.hwm = tx.hwm + n
        BY <3>2 DEF HwmAfter
      <4>2. tx.grown \/ ~(tx.hwm + n + 1 >= datasz)
        BY <3>2 DEF MustGrow
      <4>. QED
        BY <1>5, <4>1, <4>2
    <3>. QED
      BY <3>1, <3>2
  <2>. QED
    BY <2>1, <2>2, <2>3
<1>. HIDE DEF g
<1>10. AllPending(g) = AllPending(f) /\ AllPending(f) = Own \cup old \cup Kept
  <2>1. AllPending(g) = AllPending(f)
    BY <1>8 DEF AllPending
  <2>2. AllPending(f) = PendingOf(f, tx.txid) \cup UNION {f.pending[t] : t \in DOMAIN f.pending \ {tx.txid}}
    BY DEF AllPending, PendingOf
  <2>. QED
    BY <1>2, <2>1, <2>2
<1>11. Own \cup old \subseteq Used(file, Base)
  BY <1>1 DEF IInv, FreelistFits, Base
<1>12. S \cap (Used(file, Base) \cup DOMAIN tx.dirty \cup Own \cup Kept) = {}
  <2>1. CASE S \subseteq freelist.ids
    BY <1>3, <1>4, <1>11, <2>1
  <2>2. CASE S = tx.hwm .. (tx'.hwm - 1)
    <3>1. ASSUME NEW x \in 2 .. (tx.hwm - 1) PROVE x \notin S
      <4>1. \A y \in tx.hwm .. (tx'.hwm - 1) : tx.hwm <= y /\ y \in Int
        BY <1>5, <1>9
      <4>2. ~(tx.hwm <= x)
        BY <1>5
      <4>. QED
        BY <2>2, <4>1, <4>2
    <3>2. 2 .. (Base.hwm - 1) \subseteq 2 .. (tx.hwm - 1) /\ Base.hwm .. (tx.hwm - 1) \subseteq 2 .. (tx.hwm - 1)
      BY <1>4, <1>5
    <3>. QED
      BY <1>3, <1>4, <1>5, <1>11, <3>1, <3>2
  <2>. QED
    BY <1>8, <2>1, <2>2
<1>13. S \subseteq 2 .. (tx'.hwm - 1) /\ S \subseteq Pgid
  <2>1. S \subseteq 2 .. (tx'.hwm - 1)
    <3>1. CASE S \subseteq freelist.ids
      <4>1. 2 .. (Base.hwm - 1) \subseteq 2 .. (tx'.hwm - 1)
        BY <1>4, <1>5, <1>9
      <4>. QED
        BY <1>3, <1>4, <3>1, <4>1
    <3>2. CASE S = tx.hwm .. (tx'.hwm - 1)
      <4>1. tx.hwm .. (tx'.hwm - 1) \subseteq 2 .. (tx'.hwm - 1)
        BY <1>4, <1>5, <1>9
      <4>. QED
        BY <3>2, <4>1
    <3>. QED
      BY <1>8, <3>1, <3>2
  <2>. QED
    BY <1>9, <2>1, BoltAssumption DEF Pgid
<1>14. Listed' = Listed /\ Base' = Base /\ Newest(file)' = Base
       /\ Used(file, Newest(file))' = Used(file, Base)
  BY DEF Listed, Base, Used, Reachable, ListAt, KidsOf
<1>15. freelist' = g
  BY DEF g
<1>16. Own' = Own \cup old /\ Kept' = Kept
  <2>1. Own' = PendingOf(f, tx.txid)
    BY <1>8, <1>15 DEF Own, PendingOf
  <2>2. Kept' = UNION {f.pending[t] : t \in DOMAIN f.pending \ {tx.txid}}
    BY <1>8, <1>15 DEF Kept
  <2>. QED
    BY <1>2, <2>1, <2>2
<1>17. All(freelist') = (All(freelist) \cup old) \ S
  <2>1. All(g) = (freelist.ids \ S) \cup (Own \cup old \cup Kept)
    BY <1>8, <1>10 DEF All
  <2>2. All(freelist) \cup old = freelist.ids \cup (Own \cup old \cup Kept)
    BY <1>2, <1>10 DEF All
  <2>. QED
    BY <1>11, <1>12, <1>15, <2>1, <2>2
<1>18. FreelistFits'
  <2>1. g.ids \cap AllPending(g) = {} /\ g.ids \subseteq Listed
    BY <1>2, <1>3, <1>8, <1>10
  <2>2. /\ freelist' = [ids |-> freelist'.ids, pending |-> freelist'.pending]
        /\ DOMAIN freelist'.pending \subseteq Txid \ {0}
        /\ \A s, t \in DOMAIN freelist'.pending :
              s # t => freelist'.pending[s] \cap freelist'.pending[t] = {}
        /\ freelist'.ids \cap AllPending(freelist') = {}
        /\ freelist'.ids \subseteq Listed
        /\ \A t \in DOMAIN freelist'.pending : t <= tx'.txid
    BY <1>2, <1>8, <1>15, <2>1
  <2>. QED
    BY <1>3, <1>11, <1>14, <1>16, <2>2 DEF FreelistFits, AllPending
<1>19. DirtyFits'
  <2>1. DOMAIN tx'.dirty \subseteq (Listed \ Kept) \cup Base.hwm .. (tx'.hwm - 1)
    <3>1. Base.hwm .. (tx.hwm - 1) \subseteq Base.hwm .. (tx'.hwm - 1)
          /\ tx.hwm .. (tx'.hwm - 1) \subseteq Base.hwm .. (tx'.hwm - 1)
      BY <1>4, <1>5, <1>9
    <3>. QED
      BY <1>3, <1>5, <1>8, <3>1
  <2>2. DOMAIN tx'.dirty \cap freelist'.ids = {}
    BY <1>3, <1>8, <1>15
  <2>3. Base.hwm .. (tx'.hwm - 1) \subseteq DOMAIN tx'.dirty
    <3>1. Base.hwm .. (tx'.hwm - 1) \subseteq Base.hwm .. (tx.hwm - 1) \cup tx.hwm .. (tx'.hwm - 1)
      BY <1>4, <1>5, <1>9
    <3>2. tx.hwm .. (tx'.hwm - 1) \subseteq S
      <4>1. tx'.hwm = tx.hwm => tx.hwm .. (tx'.hwm - 1) = {}
        BY <1>5
      <4>. QED
        BY <1>8, <4>1
    <3>. QED
      BY <1>5, <3>1, <3>2
  <2>4. Listed \ Kept \subseteq freelist'.ids \cup DOMAIN tx'.dirty
    BY <1>5, <1>8, <1>15
  <2>5. Base.hwm <= tx'.hwm
    BY <1>4, <1>5, <1>9
  <2>. QED
    BY <1>5, <1>9, <1>14, <1>16, <2>1, <2>2, <2>3, <2>4, <2>5 DEF DirtyFits
<1>20. ReadersFit'
  <2>1. Reusable' = Reusable
    BY <1>14, <1>16 DEF Reusable
  <2>2. \A t \in DOMAIN freelist'.pending : t \in Int
    BY <1>2, <1>8, <1>15, BoltAssumption DEF Txid
  <2>3. \A t \in DOMAIN freelist'.pending : t <= Base.txid =>
           t \in DOMAIN freelist.pending /\ freelist'.pending[t] = freelist.pending[t]
    BY <1>2, <1>8, <1>15
  <2>. QED
    BY <2>1, <2>2, <2>3, ReadersStay
<1>. QED
  BY <1>7, <1>8, <1>9, <1>12, <1>13, <1>14, <1>16, <1>17, <1>18, <1>19, <1>20

\* Where a run starts depends on the ids of the list alone.
LEMMA SamePlace ==
    ASSUME NEW f, NEW g, NEW n, f.ids = g.ids
    PROVE  /\ Place(f, n) = Place(g, n) /\ HwmAfter(f, n) = HwmAfter(g, n)
           /\ MustGrow(f, n) = MustGrow(g, n) /\ HasRoom(f, n) = HasRoom(g, n)
BY DEF Place, Runs, HwmAfter, MustGrow, HasRoom

TxShape(x) ==
    x = [txid |-> x.txid, root |-> x.root, list |-> x.list, hwm |-> x.hwm, kids |-> x.kids,
         puts |-> x.puts, draft |-> x.draft, dirty |-> x.dirty, grown |-> x.grown,
         resume |-> x.resume]

\* What the steps that spill a node have in common.
Spilling(old, page, next, p) ==
    /\ wpc = "spill" /\ wpc' \in {"spill", "list"}
    /\ old \subseteq Reachable(file, Base) /\ page.kind # "zero"
    /\ p = Place(freelist, 1) /\ TxShape(next)
    /\ next.txid = tx.txid /\ next.list = tx.list /\ next.dirty = tx.dirty
    /\ next.draft = tx.draft /\ next.puts \subseteq tx.puts
    /\ Spill(old, page, next)
    /\ file' = file /\ disk' = disk /\ datasz' = datasz /\ reader' = reader
    /\ troubles' = troubles

\* A node that was in the tree gives up its page, and its new page is dirty.
LEMMA SpillFacts ==
    ASSUME IInv, NEW old, NEW page, NEW next, NEW p, Spilling(old, page, next, p)
    PROVE  /\ Sound(file)' /\ WriterTypes' /\ FreelistFits' /\ DirtyFits' /\ VersionFits'
           /\ DiskFits' /\ MapFits' /\ ReadersFit'
           /\ Base' = Base /\ Stage' = wpc' /\ Own' = Own \cup old
           /\ p \in 2 .. (tx'.hwm - 1) /\ p \in Pgid
           /\ p \notin Used(file, Base) \cup DOMAIN tx.dirty \cup Own
           /\ tx.hwm \in Nat /\ tx'.hwm \in Nat /\ tx.hwm <= tx'.hwm
           /\ tx'.txid = tx.txid /\ tx'.root = next.root /\ tx'.kids = next.kids
           /\ tx'.puts = next.puts /\ tx'.draft = tx.draft
           /\ DOMAIN tx'.dirty = DOMAIN tx.dirty \cup {p}
           /\ After'[p] = page /\ \A q \in Pgid \ {p} : After'[q] = After[q]
<1>. USE DEF Spilling
<1>. DEFINE f == Free(freelist, tx.txid, old)
            S == p .. (p + 1 - 1)
<1>4. freelist.ids = f.ids /\ freelist = [ids |-> freelist.ids, pending |-> freelist.pending]
  <2>1. freelist = [ids |-> freelist.ids, pending |-> freelist.pending]
    BY DEF IInv, FreelistFits
  <2>. QED
    BY <2>1, FreeAddsOwn
<1>5. p = Place(f, 1)
  BY <1>4, SamePlace
<1>1. /\ ~MustGrow(f, 1) /\ HasRoom(f, 1) /\ freelist' = ListAfter(f, 1)
      /\ tx' = [next EXCEPT !.dirty = Assign(@, p, page), !.hwm = HwmAfter(f, 1), !.grown = FALSE]
  BY <1>5 DEF Spill
<1>2. /\ tx'.txid = tx.txid /\ tx'.root = next.root /\ tx'.kids = next.kids
      /\ tx'.puts = next.puts /\ tx'.draft = tx.draft /\ tx'.list = tx.list
      /\ tx'.hwm = HwmAfter(f, 1) /\ tx'.grown = FALSE
      /\ tx'.dirty = Assign(tx.dirty, p, page)
      /\ tx' = [txid |-> tx'.txid, root |-> tx'.root, list |-> tx'.list, hwm |-> tx'.hwm,
                kids |-> tx'.kids, puts |-> tx'.puts, draft |-> tx'.draft, dirty |-> tx'.dirty,
                grown |-> tx'.grown, resume |-> tx'.resume]
  BY <1>1 DEF TxShape
<1>3. Stage = "spill" /\ Stage \in Before /\ Stage' = wpc' /\ Stage' \in Before
      /\ Stage' \in {"spill", "list"}
  BY DEF Stage, Before
<1>6. /\ DOMAIN tx'.dirty = DOMAIN tx.dirty \cup {p}
      /\ tx'.dirty[p] = page
      /\ \A q \in DOMAIN tx.dirty : q # p => tx'.dirty[q] = tx.dirty[q]
  BY <1>2 DEF Assign
<1>7. \A q \in DOMAIN tx'.dirty : tx'.dirty[q].kind # "zero"
  BY <1>3, <1>6 DEF IInv, DirtyFits
<1>8. tx.grown => tx.hwm + 1 < datasz
  BY <1>3 DEF IInv, MapFits, Asked
<1>9. old \subseteq Used(file, Base)
  BY DEF Used
<1>10. f = Free(freelist, tx.txid, old) /\ S = Place(f, 1) .. (Place(f, 1) + 1 - 1)
  BY <1>5
<1>. HIDE DEF f, S
<1>11. p \in Nat
  <2>1. f.ids \subseteq Nat /\ tx.hwm \in Nat
    <3>1. Base.hwm \in Nat /\ Listed \subseteq 2 .. (Base.hwm - 1)
      BY BaseFacts DEF IInv
    <3>2. freelist.ids \subseteq Listed
      BY PagesFacts
    <3>. QED
      BY <1>3, <1>4, <3>1, <3>2 DEF IInv, DirtyFits
  <2>2. f = [ids |-> f.ids, pending |-> f.pending]
    BY <1>4, <1>10, FreeAddsOwn
  <2>. QED
    BY <1>5, <2>1, <2>2, PlaceIsFree
<1>12. S = {p}
  BY <1>11 DEF S
<1>13. DOMAIN tx'.dirty = DOMAIN tx.dirty \cup S
  BY <1>6, <1>12
<1>14. wpc' \notin {"idle", "commit"} /\ wpc \in {"spill", "list"} /\ 1 \in Nat \ {0}
  OBVIOUS
<1>15. /\ FreelistFits' /\ DirtyFits' /\ ReadersFit'
       /\ Base' = Base /\ Own' = Own \cup old
       /\ p \in S /\ S \subseteq 2 .. (tx'.hwm - 1) /\ S \subseteq Pgid
       /\ S \cap (Used(file, Base) \cup DOMAIN tx.dirty \cup Own \cup Kept) = {}
       /\ tx'.hwm \in Nat /\ tx.hwm <= tx'.hwm /\ tx'.hwm <= LastPage + 1 /\ tx'.hwm <= datasz
  <2>1. Placing(old, 1, f, S)
    BY <1>1, <1>2, <1>3, <1>5, <1>7, <1>8, <1>9, <1>10, <1>13, <1>14 DEF Placing
  <2>. QED
    BY <1>5, <2>1, PlacingKeeps
<1>16. After'[p] = page /\ \A q \in Pgid \ {p} : After'[q] = After[q]
  <2>1. p \in Pgid
    BY <1>15
  <2>. QED
    BY <1>6, <2>1 DEF After
<1>17. WriterTypes'
  <2>1. TxRecord(tx) /\ tx.txid = Newest(file).txid + 1
    BY <1>3 DEF IInv, WriterTypes
  <2>2. TxRecord(tx')
    BY <1>2, <1>6, <1>12, <1>15, <2>1 DEF TxRecord
  <2>3. TxRecord(tx)'
    BY <2>2 DEF TxRecord
  <2>4. troubles' \in 0 .. MaxTroubles
    BY DEF IInv, WriterTypes
  <2>5. Newest(file)' = Newest(file)
    OBVIOUS
  <2>. QED
    BY <1>2, <1>3, <2>1, <2>3, <2>4, <2>5 DEF WriterTypes, Before
<1>18. VersionFits'
  BY <1>3 DEF VersionFits
<1>19. Sound(file)' /\ DiskFits'
  BY DiskStays
<1>20. MapFits'
  BY <1>2, <1>15 DEF IInv, MapFits
<1>21. tx.hwm \in Nat
  BY <1>3 DEF IInv, DirtyFits
<1>. QED
  BY <1>2, <1>3, <1>5, <1>6, <1>12, <1>15, <1>16, <1>17, <1>18, <1>19, <1>20, <1>21

LEMMA SpillLeafKeeps ==
    ASSUME IInv, SpillLeaf
    PROVE  IInv'
<1>. DEFINE k == Least(tx.puts)
            p == Place(freelist, 1)
            old == {tx.kids[j] : j \in {k} \cap DOMAIN tx.kids}
            next == [tx EXCEPT !.puts = @ \ {k}, !.kids = Assign(@, k, p)]
            page == Leaf(tx.txid)
<1>1. /\ wpc = "spill" /\ wpc' = "spill" /\ tx.puts # {}
      /\ Spill(old, page, next)
      /\ file' = file /\ disk' = disk /\ datasz' = datasz /\ reader' = reader
      /\ troubles' = troubles
  BY DEF SpillLeaf
<1>2. TxRecord(tx) /\ tx.puts \subseteq Keys /\ tx.txid \in Txid
  BY DEF IInv, WriterTypes, TxRecord
<1>3. k \in tx.puts
  BY <1>1, <1>2, LeastIsLeast, BoltAssumption
<1>. HIDE DEF k, p
<1>4. /\ TxShape(next)
      /\ next.txid = tx.txid /\ next.list = tx.list /\ next.dirty = tx.dirty
      /\ next.draft = tx.draft /\ next.root = tx.root
      /\ next.puts = tx.puts \ {k} /\ next.kids = Assign(tx.kids, k, p)
  <2>0. tx = [txid |-> tx.txid, root |-> tx.root, list |-> tx.list, hwm |-> tx.hwm,
              kids |-> tx.kids, puts |-> tx.puts, draft |-> tx.draft,
              dirty |-> tx.dirty, grown |-> tx.grown, resume |-> tx.resume]
    BY <1>2 DEF TxRecord
  <2>. DEFINE puts == tx.puts \ {k}
              kids == Assign(tx.kids, k, p)
  <2>4. next = [tx EXCEPT !.puts = puts, !.kids = kids]
    OBVIOUS
  <2>. HIDE DEF next, puts, kids
  <2>1. next = [txid |-> tx.txid, root |-> tx.root, list |-> tx.list, hwm |-> tx.hwm,
                kids |-> kids, puts |-> puts, draft |-> tx.draft,
                dirty |-> tx.dirty, grown |-> tx.grown, resume |-> tx.resume]
    BY <2>0, <2>4
  <2>. QED
    BY <2>1 DEF TxShape, puts, kids
<1>5. Stage = "spill"
  BY <1>1 DEF Stage
<1>6. /\ LeavesFit /\ tx.root = Base.root
      /\ DOMAIN tx.dirty \subseteq KidPages
      /\ \A j \in tx.puts \cap DOMAIN tx.kids : tx.kids[j] \notin DOMAIN tx.dirty
      /\ Own \cup {tx.root} \cup (KidPages \ DOMAIN tx.dirty) = Reachable(file, Base)
      /\ Own \cap ({tx.root} \cup KidPages) = {}
      /\ tx.draft = [j \in DOMAIN tx.kids \cup tx.puts |->
                        IF j \in tx.puts THEN tx.txid ELSE After[tx.kids[j]].by]
  BY <1>5 DEF IInv, NodesFit, Base
<1>7. old \subseteq KidPages \ DOMAIN tx.dirty
  BY <1>3, <1>6 DEF KidPages
<1>8. old \subseteq Reachable(file, Base) /\ page.kind # "zero" /\ page.kind = "leaf"
      /\ page.by = tx.txid
  BY <1>6, <1>7 DEF Leaf
<1>9. KidPages = {tx.kids[j] : j \in DOMAIN tx.kids}
  BY DEF KidPages
<1>. HIDE DEF next, page
<1>10. /\ Sound(file)' /\ WriterTypes' /\ FreelistFits' /\ DirtyFits' /\ VersionFits'
       /\ DiskFits' /\ MapFits' /\ ReadersFit'
       /\ Base' = Base /\ Stage' = wpc' /\ Own' = Own \cup old
       /\ p \in 2 .. (tx'.hwm - 1) /\ p \in Pgid
       /\ p \notin Used(file, Base) \cup DOMAIN tx.dirty \cup Own
       /\ tx.hwm \in Nat /\ tx'.hwm \in Nat /\ tx.hwm <= tx'.hwm
       /\ tx'.txid = tx.txid /\ tx'.root = tx.root /\ tx'.kids = Assign(tx.kids, k, p)
       /\ tx'.puts = tx.puts \ {k} /\ tx'.draft = tx.draft
       /\ DOMAIN tx'.dirty = DOMAIN tx.dirty \cup {p}
       /\ After'[p] = page /\ \A q \in Pgid \ {p} : After'[q] = After[q]
  <2>. HIDE DEF old
  <2>1. Spilling(old, page, next, p)
    BY <1>1, <1>4, <1>8 DEF Spilling, p
  <2>. QED
    BY <1>4, <2>1, SpillFacts
<1>11. /\ DOMAIN tx'.kids = DOMAIN tx.kids \cup {k} /\ tx'.kids[k] = p
       /\ \A j \in DOMAIN tx.kids : j # k => tx'.kids[j] = tx.kids[j]
  BY <1>10 DEF Assign
<1>12. p \notin KidPages \cup {tx.root}
  BY <1>6, <1>10 DEF Used
<1>13. \A j \in DOMAIN tx.kids : tx.kids[j] \in KidPages /\ tx.kids[j] \in Pgid
  <2>1. tx.hwm <= LastPage + 1
    BY <1>5 DEF IInv, DirtyFits, Before
  <2>. QED
    BY <1>6, <1>10, <2>1, BoltAssumption DEF KidPages, LeavesFit, Pgid
<1>14. After'[p] = page /\ \A j \in DOMAIN tx.kids : j # k => After'[tx'.kids[j]] = After[tx.kids[j]]
  BY <1>10, <1>11, <1>12, <1>13
<1>15. LeavesFit'
  <2>1. DOMAIN tx'.kids \subseteq Keys
    BY <1>2, <1>3, <1>6, <1>11 DEF LeavesFit
  <2>2. ASSUME NEW j \in DOMAIN tx'.kids
        PROVE  /\ tx'.kids[j] \in 2 .. (tx'.hwm - 1) /\ tx'.kids[j] # tx'.root
               /\ After'[tx'.kids[j]].kind = "leaf" /\ After'[tx'.kids[j]].by \in Txid
               /\ \A i \in DOMAIN tx'.kids : tx'.kids[i] = tx'.kids[j] => i = j
    <3>1. CASE j = k
      BY <1>2, <1>8, <1>10, <1>11, <1>12, <1>13, <1>14, <3>1
    <3>2. CASE j # k
      <4>1. /\ tx.kids[j] \in 2 .. (tx.hwm - 1) /\ tx.kids[j] # tx.root
            /\ After[tx.kids[j]].kind = "leaf" /\ After[tx.kids[j]].by \in Txid
            /\ \A i \in DOMAIN tx.kids : tx.kids[i] = tx.kids[j] => i = j
            /\ j \in DOMAIN tx.kids
        BY <1>6, <1>11, <3>2 DEF LeavesFit
      <4>2. tx.kids[j] \in 2 .. (tx'.hwm - 1)
        BY <1>10, <4>1
      <4>. QED
        BY <1>10, <1>11, <1>12, <1>13, <1>14, <3>2, <4>1, <4>2
    <3>. QED
      BY <3>1, <3>2
  <2>. QED
    BY <2>1, <2>2 DEF LeavesFit
<1>16. KidPages' = (KidPages \ old) \cup {p}
  <2>1. KidPages' = {tx'.kids[j] : j \in DOMAIN tx'.kids}
    BY DEF KidPages
  <2>2. \A j \in DOMAIN tx.kids : j # k => tx.kids[j] \notin old
    BY <1>6 DEF LeavesFit
  <2>3. ASSUME NEW x \in KidPages' PROVE x \in (KidPages \ old) \cup {p}
    BY <1>9, <1>11, <2>1, <2>2
  <2>4. ASSUME NEW x \in KidPages \ old PROVE x \in KidPages'
    <3>1. PICK j \in DOMAIN tx.kids : x = tx.kids[j]
      BY <1>9
    <3>2. j # k
      BY <3>1
    <3>. QED
      BY <1>11, <2>1, <3>1, <3>2
  <2>5. p \in KidPages'
    BY <1>11, <2>1
  <2>. QED
    BY <2>3, <2>4, <2>5
<1>17. NodesFit'
  <2>1. DOMAIN tx'.dirty \subseteq KidPages'
    BY <1>6, <1>7, <1>10, <1>16
  <2>2. \A j \in tx'.puts \cap DOMAIN tx'.kids : tx'.kids[j] \notin DOMAIN tx'.dirty
    BY <1>6, <1>10, <1>11, <1>12, <1>13
  <2>3. tx.root \notin old
    BY <1>6 DEF LeavesFit
  <2>. HIDE DEF old
  <2>4. Own' \cup {tx'.root} \cup (KidPages' \ DOMAIN tx'.dirty) = Reachable(file, Base)
    BY <1>6, <1>7, <1>10, <1>12, <1>16
  <2>5. Own' \cap ({tx'.root} \cup KidPages') = {}
    BY <1>6, <1>7, <1>10, <1>12, <1>16, <2>3
  <2>6. tx'.draft = [j \in DOMAIN tx'.kids \cup tx'.puts |->
                       IF j \in tx'.puts THEN tx'.txid ELSE After'[tx'.kids[j]].by]
    <3>1. DOMAIN tx'.kids \cup tx'.puts = DOMAIN tx.kids \cup tx.puts
      BY <1>3, <1>10, <1>11
    <3>2. \A j \in DOMAIN tx.kids \cup tx.puts :
             (IF j \in tx.puts THEN tx.txid ELSE After[tx.kids[j]].by)
             = IF j \in tx'.puts THEN tx'.txid ELSE After'[tx'.kids[j]].by
      BY <1>3, <1>8, <1>10, <1>11, <1>14
    <3>3. tx.draft = [j \in DOMAIN tx.kids \cup tx.puts |->
                         IF j \in tx'.puts THEN tx'.txid ELSE After'[tx'.kids[j]].by]
      BY <1>6, <3>2
    <3>. QED
      BY <1>10, <3>1, <3>3
  <2>7. Newest(file)' = Base /\ Reachable(file, Newest(file))' = Reachable(file, Base)
    BY <1>1 DEF Base, Reachable, KidsOf
  <2>8. tx'.root = Newest(file)'.root
    BY <1>6, <1>10, <2>7
  <2>9. Stage' = "spill"
    BY <1>1, <1>10
  <2>. QED
    BY <1>15, <2>1, <2>2, <2>4, <2>5, <2>6, <2>7, <2>8, <2>9 DEF NodesFit
<1>. QED
  BY <1>10, <1>17 DEF IInv

LEMMA SpillRootKeeps ==
    ASSUME IInv, SpillRoot
    PROVE  IInv'
<1>. DEFINE p == Place(freelist, 1)
            next == [tx EXCEPT !.root = p]
            page == Root(tx.kids)
<1>1. /\ wpc = "spill" /\ wpc' = "list" /\ tx.puts = {}
      /\ Spill({tx.root}, page, next)
      /\ file' = file /\ disk' = disk /\ datasz' = datasz /\ reader' = reader
      /\ troubles' = troubles
  BY DEF SpillRoot
<1>2. TxRecord(tx)
  BY DEF IInv, WriterTypes
<1>. HIDE DEF p
<1>4. /\ TxShape(next)
      /\ next.txid = tx.txid /\ next.list = tx.list /\ next.dirty = tx.dirty
      /\ next.draft = tx.draft /\ next.root = p
      /\ next.puts = tx.puts /\ next.kids = tx.kids
  BY <1>2 DEF TxRecord, TxShape
<1>5. Stage = "spill"
  BY <1>1 DEF Stage
<1>6. /\ LeavesFit /\ tx.root = Base.root
      /\ DOMAIN tx.dirty \subseteq KidPages
      /\ Own \cup {tx.root} \cup (KidPages \ DOMAIN tx.dirty) = Reachable(file, Base)
      /\ Own \cap ({tx.root} \cup KidPages) = {}
      /\ tx.draft = [j \in DOMAIN tx.kids \cup tx.puts |->
                        IF j \in tx.puts THEN tx.txid ELSE After[tx.kids[j]].by]
  BY <1>5 DEF IInv, NodesFit, Base
<1>7. tx.draft = [j \in DOMAIN tx.kids |-> After[tx.kids[j]].by]
  <2>1. DOMAIN tx.kids \cup tx.puts = DOMAIN tx.kids
    BY <1>1
  <2>2. \A j \in DOMAIN tx.kids :
           (IF j \in tx.puts THEN tx.txid ELSE After[tx.kids[j]].by) = After[tx.kids[j]].by
    BY <1>1
  <2>. QED
    BY <1>6, <2>1, <2>2
<1>8. {tx.root} \subseteq Reachable(file, Base) /\ page.kind # "zero"
  BY <1>6 DEF Root
<1>. HIDE DEF next, page
<1>10. /\ Sound(file)' /\ WriterTypes' /\ FreelistFits' /\ DirtyFits' /\ VersionFits'
       /\ DiskFits' /\ MapFits' /\ ReadersFit'
       /\ Base' = Base /\ Stage' = wpc' /\ Own' = Own \cup {tx.root}
       /\ p \in 2 .. (tx'.hwm - 1) /\ p \in Pgid
       /\ p \notin Used(file, Base) \cup DOMAIN tx.dirty \cup Own
       /\ tx.hwm \in Nat /\ tx'.hwm \in Nat /\ tx.hwm <= tx'.hwm
       /\ tx'.txid = tx.txid /\ tx'.root = p /\ tx'.kids = tx.kids
       /\ tx'.draft = tx.draft
       /\ DOMAIN tx'.dirty = DOMAIN tx.dirty \cup {p}
       /\ After'[p] = page /\ \A q \in Pgid \ {p} : After'[q] = After[q]
  <2>1. Spilling({tx.root}, page, next, p)
    BY <1>1, <1>4, <1>8 DEF Spilling, p
  <2>. QED
    BY <1>4, <2>1, SpillFacts
<1>12. p \notin KidPages \cup {tx.root}
  BY <1>6, <1>10 DEF Used
<1>13. \A j \in DOMAIN tx.kids : tx.kids[j] \in KidPages /\ tx.kids[j] \in Pgid
  <2>1. tx.hwm <= LastPage + 1
    BY <1>5 DEF IInv, DirtyFits, Before
  <2>. QED
    BY <1>6, <1>10, <2>1, BoltAssumption DEF KidPages, LeavesFit, Pgid
<1>14. After'[p] = page /\ \A j \in DOMAIN tx.kids : After'[tx'.kids[j]] = After[tx.kids[j]]
  BY <1>10, <1>12, <1>13
<1>15. LeavesFit'
  <2>2. ASSUME NEW j \in DOMAIN tx.kids
        PROVE  /\ tx.kids[j] \in 2 .. (tx'.hwm - 1) /\ tx.kids[j] # p
               /\ After'[tx.kids[j]].kind = "leaf" /\ After'[tx.kids[j]].by \in Txid
               /\ \A i \in DOMAIN tx.kids : tx.kids[i] = tx.kids[j] => i = j
    <3>1. /\ tx.kids[j] \in 2 .. (tx.hwm - 1)
          /\ After[tx.kids[j]].kind = "leaf" /\ After[tx.kids[j]].by \in Txid
          /\ \A i \in DOMAIN tx.kids : tx.kids[i] = tx.kids[j] => i = j
      BY <1>6 DEF LeavesFit
    <3>2. tx.kids[j] \in 2 .. (tx'.hwm - 1)
      BY <1>10, <3>1
    <3>. QED
      BY <1>10, <1>12, <1>13, <1>14, <3>1, <3>2
  <2>3. DOMAIN tx.kids \subseteq Keys
    BY <1>6 DEF LeavesFit
  <2>. QED
    BY <1>10, <2>2, <2>3 DEF LeavesFit
<1>16. KidPages' = KidPages
  BY <1>10 DEF KidPages
<1>17. NodesFit'
  <2>1. DOMAIN tx'.dirty \subseteq {tx'.root} \cup KidPages'
    BY <1>6, <1>10, <1>16
  <2>2. tx.root \notin KidPages \cup DOMAIN tx.dirty
    BY <1>6 DEF LeavesFit, KidPages
  <2>4. Own' \cup (({tx'.root} \cup KidPages') \ DOMAIN tx'.dirty) = Reachable(file, Base)
    BY <1>6, <1>10, <1>12, <1>16
  <2>5. Own' \cap ({tx'.root} \cup KidPages') = {}
    BY <1>6, <1>10, <1>12, <1>16, <2>2
  <2>6. tx'.draft = [j \in DOMAIN tx'.kids |-> After'[tx'.kids[j]].by]
    BY <1>7, <1>10, <1>14
  <2>7. Newest(file)' = Base /\ Reachable(file, Newest(file))' = Reachable(file, Base)
    BY <1>1 DEF Base, Reachable, KidsOf
  <2>8. After'[tx'.root] = Root(tx'.kids)
    BY <1>10, <1>14 DEF page
  <2>9. Stage' = "list" /\ tx'.root \in 2 .. (tx'.hwm - 1)
    BY <1>1, <1>10
  <2>. QED
    BY <1>15, <2>1, <2>4, <2>5, <2>6, <2>7, <2>8, <2>9 DEF NodesFit
<1>. QED
  BY <1>10, <1>17 DEF IInv

\* The new list goes to pages of its own and names all pages that the new version
\* does not use.
LEMMA SpillListKeeps ==
    ASSUME IInv, SpillList
    PROVE  IInv'
<1>. DEFINE old == ListAt(file, Base)
            f == FreedList(freelist)
            n == ListPages(Cardinality(All(f)))
            p == Place(f, n)
            g == ListAfter(f, n)
            S == p .. (p + n - 1)
            D == DOMAIN tx.dirty
            T == {tx.root} \cup KidPages
            dirty == [q \in D \cup p .. (p + n - 1) |->
                         IF q = p THEN List(All(g), n)
                         ELSE IF q \in p .. (p + n - 1) THEN Overflow ELSE tx.dirty[q]]
<1>1. /\ wpc = "list" /\ wpc' = "write" /\ ~MustGrow(f, n) /\ HasRoom(f, n)
      /\ freelist' = g
      /\ tx' = [tx EXCEPT !.dirty = dirty, !.list = p, !.hwm = HwmAfter(f, n), !.grown = FALSE]
      /\ file' = file /\ disk' = disk /\ datasz' = datasz /\ reader' = reader
      /\ troubles' = troubles
  BY DEF SpillList
<1>2. TxRecord(tx) /\ Stage = "list" /\ Stage' = "write" /\ Stage \in Before /\ Stage' \in Before
  BY <1>1 DEF IInv, WriterTypes, Stage, Before
<1>3. S = p .. (p + n - 1) /\ dirty = [q \in D \cup S |->
                         IF q = p THEN List(All(g), n)
                         ELSE IF q \in S THEN Overflow ELSE tx.dirty[q]]
      /\ p = Place(f, n) /\ g = ListAfter(f, n)
  OBVIOUS
<1>4. /\ LeavesFit
      /\ tx.root \in 2 .. (tx.hwm - 1) /\ After[tx.root] = Root(tx.kids)
      /\ D \subseteq T
      /\ Own \cup (T \ D) = Reachable(file, Base)
      /\ Own \cap T = {}
      /\ tx.draft = [k \in DOMAIN tx.kids |-> After[tx.kids[k]].by]
      /\ tx.list = Base.list
  BY <1>2 DEF IInv, NodesFit, DirtyFits, Base
<1>5. f = Free(freelist, tx.txid, old)
  <2>1. ListAt(file, tx) = ListAt(file, Base)
    BY <1>4 DEF ListAt
  <2>. QED
    BY <2>1 DEF FreedList
<1>6. /\ Base.hwm \in Nat /\ Base.hwm > 2 /\ Base.hwm <= LastPage + 1
      /\ Listed = (2 .. (Base.hwm - 1)) \ Used(file, Base)
      /\ Used(file, Base) \subseteq 2 .. (Base.hwm - 1)
      /\ Reachable(file, Base) \cup old = Used(file, Base)
      /\ Reachable(file, Base) \cap old = {}
      /\ Version(file, Base)
  BY BaseFacts DEF IInv
<1>. HIDE DEF old
<1>7. old \subseteq Used(file, Base)
  BY <1>6
<1>8. All(f) \subseteq 2 .. LastPage
  BY <1>2, <1>5, <1>7, FreeKeepsList
<1>. HIDE DEF f
<1>9. n \in Nat \ {0}
  <2>1. Cardinality(All(f)) \in Nat
    BY <1>8, IdsAreFew
  <2>. QED
    BY <2>1, ListPagesIsPositive
<1>10. tx.grown => tx.hwm + n < datasz
  BY <1>2 DEF IInv, MapFits, Asked, f
<1>. HIDE DEF n, p, g, S, dirty
<1>11. /\ tx'.txid = tx.txid /\ tx'.root = tx.root /\ tx'.kids = tx.kids
       /\ tx'.puts = tx.puts /\ tx'.draft = tx.draft /\ tx'.list = p
       /\ tx'.hwm = HwmAfter(f, n) /\ tx'.grown = FALSE /\ tx'.dirty = dirty
       /\ TxShape(tx')
  <2>1. tx' = [txid |-> tx.txid, root |-> tx.root, list |-> p, hwm |-> HwmAfter(f, n),
               kids |-> tx.kids, puts |-> tx.puts, draft |-> tx.draft, dirty |-> dirty,
               grown |-> FALSE, resume |-> tx.resume]
    BY <1>1, <1>2 DEF TxRecord
  <2>. QED
    BY <2>1 DEF TxShape
<1>12. /\ DOMAIN dirty = D \cup S
       /\ \A q \in DOMAIN dirty :
             dirty[q] = IF q = p THEN List(All(g), n)
                        ELSE IF q \in S THEN Overflow ELSE tx.dirty[q]
  BY <1>3
<1>13. \A q \in DOMAIN dirty : dirty[q].kind # "zero"
  <2>1. \A q \in D : tx.dirty[q].kind # "zero"
    BY <1>2 DEF IInv, DirtyFits
  <2>. QED
    BY <1>12, <2>1 DEF List, Overflow
<1>14. Placing(old, n, f, S)
  BY <1>1, <1>2, <1>3, <1>5, <1>7, <1>9, <1>10, <1>11, <1>12, <1>13 DEF Placing
<1>15. /\ FreelistFits' /\ DirtyFits' /\ ReadersFit'
       /\ Base' = Base /\ p \in S /\ S \subseteq 2 .. (tx'.hwm - 1) /\ S \subseteq Pgid
       /\ S \cap (Used(file, Base) \cup D \cup Own \cup Kept) = {}
       /\ All(freelist') = (All(freelist) \cup old) \ S
       /\ \/ S \subseteq freelist.ids /\ tx'.hwm = tx.hwm
          \/ S = tx.hwm .. (tx'.hwm - 1) /\ tx'.hwm = tx.hwm + n
       /\ tx'.hwm \in Nat /\ tx.hwm <= tx'.hwm /\ tx'.hwm <= LastPage + 1 /\ tx'.hwm <= datasz
  <2>1. /\ FreelistFits' /\ DirtyFits' /\ ReadersFit'
        /\ Base' = Base /\ Place(f, n) \in S /\ S \subseteq 2 .. (tx'.hwm - 1) /\ S \subseteq Pgid
    BY <1>14, PlacingKeeps
  <2>2. /\ S \cap (Used(file, Base) \cup DOMAIN tx.dirty \cup Own \cup Kept) = {}
        /\ All(freelist') = (All(freelist) \cup old) \ S
    BY <1>14, PlacingKeeps
  <2>3. /\ \/ S \subseteq freelist.ids /\ tx'.hwm = tx.hwm
           \/ S = tx.hwm .. (tx'.hwm - 1) /\ tx'.hwm = tx.hwm + n
        /\ tx'.hwm \in Nat /\ tx.hwm <= tx'.hwm /\ tx'.hwm <= LastPage + 1 /\ tx'.hwm <= datasz
    BY <1>14, PlacingKeeps
  <2>. QED
    BY <1>3, <2>1, <2>2, <2>3
<1>16. WriterTypes'
  <2>1. tx.txid = Newest(file).txid + 1 /\ D \subseteq Pgid
    BY <1>2 DEF IInv, WriterTypes, TxRecord
  <2>2. TxRecord(tx')
    BY <1>2, <1>11, <1>12, <1>15, <2>1 DEF TxRecord, TxShape
  <2>3. TxRecord(tx)'
    BY <2>2 DEF TxRecord
  <2>4. troubles' \in 0 .. MaxTroubles
    BY <1>1 DEF IInv, WriterTypes
  <2>5. Newest(file)' = Newest(file)
    BY <1>1
  <2>. QED
    BY <1>1, <1>2, <1>11, <2>1, <2>3, <2>4, <2>5 DEF WriterTypes, Before
<1>17. /\ DOMAIN After' = Pgid
       /\ After'[p] = List(All(freelist'), n)
       /\ \A q \in Pgid \ S : After'[q] = After[q]
       /\ \A q \in D \cup S : q \in Pgid => After'[q].kind # "zero"
  <2>1. After' = [q \in Pgid |-> IF q \in DOMAIN dirty THEN dirty[q] ELSE file[q]]
    BY <1>1, <1>11 DEF After
  <2>2. p \in Pgid /\ p \in DOMAIN dirty /\ dirty[p] = List(All(freelist'), n)
    BY <1>1, <1>12, <1>15
  <2>3. \A q \in Pgid \ S : After'[q] = After[q]
    BY <1>12, <1>15, <2>1 DEF After
  <2>. QED
    BY <1>12, <1>13, <2>1, <2>2, <2>3
<1>18. /\ tx.hwm \in Nat /\ Base.hwm <= tx.hwm
       /\ D \subseteq (Listed \ Kept) \cup Base.hwm .. (tx.hwm - 1)
       /\ Base.hwm .. (tx.hwm - 1) \subseteq D
       /\ Listed \ Kept \subseteq freelist.ids \cup D
       /\ freelist.ids \subseteq Listed /\ Kept \subseteq Listed
       /\ D \cap Used(file, Base) = {} /\ D \cap freelist.ids = {}
       /\ All(freelist) = freelist.ids \cup Own \cup Kept
  BY <1>2, PagesFacts, PendingIsOwnOrKept DEF IInv, DirtyFits, Base, All
<1>19. S \cap T = {} /\ T \subseteq 2 .. (tx.hwm - 1) /\ T \subseteq Pgid
  <2>1. T \subseteq D \cup Used(file, Base)
    BY <1>4, <1>6
  <2>2. T \subseteq 2 .. (tx.hwm - 1)
    BY <1>4 DEF LeavesFit, KidPages
  <2>3. 2 .. (tx.hwm - 1) \subseteq Pgid
    BY <1>15, <1>18, BoltAssumption DEF Pgid
  <2>. QED
    BY <1>15, <2>1, <2>2, <2>3
<1>20. After'[tx.root] = Root(tx.kids) /\ \A k \in DOMAIN tx.kids : After'[tx.kids[k]] = After[tx.kids[k]]
  <2>1. tx.root \in T /\ \A k \in DOMAIN tx.kids : tx.kids[k] \in T
    BY DEF KidPages
  <2>. QED
    BY <1>4, <1>17, <1>19, <2>1
<1>. DEFINE h == After'
            m == NewMeta'
<1>21. m = Meta(tx.txid, tx.root, p, tx'.hwm)
       /\ m.root = tx.root /\ m.list = p /\ m.hwm = tx'.hwm
  BY <1>11 DEF NewMeta, Meta
<1>22. h[m.root].kind = "root" /\ h[m.root].kids = tx.kids
  BY <1>20, <1>21 DEF Root
<1>. HIDE DEF h, m
<1>23. \A x \in 2 .. (tx.hwm - 1) : x \in 2 .. (tx'.hwm - 1)
  BY <1>15, <1>18
<1>24. Tree(h, m)
  <2>1. ASSUME NEW k \in DOMAIN tx.kids
        PROVE  /\ tx.kids[k] \in 2 .. (tx'.hwm - 1) /\ tx.kids[k] # tx.root
               /\ h[tx.kids[k]].kind = "leaf" /\ h[tx.kids[k]].by \in Txid
               /\ \A j \in DOMAIN tx.kids : tx.kids[j] = tx.kids[k] => j = k
    BY <1>4, <1>20, <1>23 DEF LeavesFit, h
  <2>2. DOMAIN tx.kids \subseteq Keys
    BY <1>4 DEF LeavesFit
  <2>3. tx.root \in 2 .. (tx'.hwm - 1)
    BY <1>4, <1>23
  <2>. QED
    BY <1>15, <1>21, <1>22, <2>1, <2>2, <2>3 DEF Tree
<1>25. Reachable(h, m) = T
  BY <1>21, <1>22 DEF Reachable, KidsOf, KidPages
<1>26. /\ h[m.list].kind = "list" /\ h[m.list].pages = n
       /\ h[m.list].ids = All(freelist')
  BY <1>17, <1>21 DEF List, h
<1>27. ListAt(h, m) = S
  BY <1>3, <1>21, <1>26 DEF ListAt
<1>28. p \in Nat /\ p \in 2 .. (tx'.hwm - 1) /\ p + n <= tx'.hwm
  <2>1. p \in 2 .. (tx'.hwm - 1)
    BY <1>15
  <2>2. p + n - 1 \in S
    BY <1>3, <1>9, <2>1
  <2>3. p + n - 1 \in 2 .. (tx'.hwm - 1)
    BY <1>15, <2>2
  <2>. QED
    BY <1>9, <1>15, <2>1, <2>3
<1>29. All(freelist') = (2 .. (tx'.hwm - 1)) \ (T \cup S)
  <2>1. ASSUME NEW x \in freelist.ids \cup Own \cup Kept \cup old
        PROVE  x \notin T /\ x \in 2 .. (tx.hwm - 1)
    <3>1. x \in 2 .. (Base.hwm - 1)
      BY <1>4, <1>6, <1>18
    <3>2. x \notin Base.hwm .. (tx.hwm - 1) /\ x \in 2 .. (tx.hwm - 1)
      BY <1>6, <1>18, <3>1
    <3>. QED
      BY <1>4, <1>6, <1>18, <3>2
  <2>2. ASSUME NEW x \in 2 .. (tx.hwm - 1), x \notin T
        PROVE  x \in freelist.ids \cup Own \cup Kept \cup old
    <3>1. x \notin D
      BY <1>4, <2>2
    <3>2. x \in 2 .. (Base.hwm - 1)
      <4>1. x \notin Base.hwm .. (tx.hwm - 1)
        BY <1>18, <3>1
      <4>. QED
        BY <1>6, <1>18, <4>1
    <3>3. CASE x \in Used(file, Base)
      BY <1>4, <1>6, <2>2, <3>3
    <3>4. CASE x \in Listed
      BY <1>18, <3>1, <3>4
    <3>. QED
      BY <1>6, <3>2, <3>3, <3>4
  <2>3. ASSUME NEW x \in 2 .. (tx'.hwm - 1), x \notin S
        PROVE  x \in 2 .. (tx.hwm - 1)
    <3>1. CASE tx'.hwm = tx.hwm
      BY <3>1
    <3>2. CASE S = tx.hwm .. (tx'.hwm - 1)
      BY <1>15, <1>18, <2>3, <3>2
    <3>. QED
      BY <1>15, <3>1, <3>2
  <2>. HIDE DEF T
  <2>. QED
    BY <1>15, <1>18, <1>23, <2>1, <2>2, <2>3
<1>30. ASSUME NEW q \in 0 .. (tx'.hwm - 1) PROVE h[q].kind # "zero"
  <2>1. q \in Pgid /\ q \in Nat
    BY <1>15, BoltAssumption DEF Pgid
  <2>2. CASE q \in D \cup S
    BY <1>17, <2>1, <2>2 DEF h
  <2>3. CASE q \notin D \cup S
    <3>1. q \in 0 .. (Base.hwm - 1)
      <4>1. q < tx.hwm
        BY <1>15, <1>18, <2>1, <2>3
      <4>2. q \notin Base.hwm .. (tx.hwm - 1)
        BY <1>18, <2>3
      <4>. QED
        BY <1>6, <1>18, <2>1, <4>1, <4>2
    <3>2. file[q].kind # "zero"
      BY <1>6, <3>1 DEF Version
    <3>3. h[q] = file[q]
      BY <1>17, <2>1, <2>3 DEF After, h
    <3>. QED
      BY <3>2, <3>3
  <2>. QED
    BY <2>2, <2>3
<1>31. Version(h, m)
  <2>1. Used(h, m) = T \cup S
    BY <1>25, <1>27 DEF Used
  <2>. HIDE DEF T
  <2>. QED
    BY <1>9, <1>19, <1>21, <1>24, <1>25, <1>26, <1>27, <1>28, <1>29, <1>30, <2>1 DEF Version
<1>32. tx.draft = Content(h, m)
  <2>1. Content(h, m) = [k \in DOMAIN tx.kids |-> h[tx.kids[k]].by]
    BY <1>22, <1>24, TreeFacts
  <2>. QED
    BY <1>4, <1>20, <2>1 DEF h
<1>33. VersionFits'
  <2>1. Version(After, NewMeta)'
    BY <1>31 DEF h, m, Version, Tree, Used, Reachable, ListAt, KidsOf
  <2>2. After'[tx'.list].ids = All(freelist)'
    <3>1. All(freelist)' = All(freelist')
      BY DEF All, AllPending
    <3>. QED
      BY <1>11, <1>21, <1>26, <3>1 DEF h
  <2>3. tx'.draft = Content(After, NewMeta)'
    BY <1>11, <1>32 DEF h, m, Content, KidsOf, ValueAt
  <2>. QED
    BY <1>1, <1>2, <2>1, <2>2, <2>3 DEF VersionFits
<1>34. NodesFit'
  BY <1>2 DEF NodesFit
<1>35. Sound(file)' /\ DiskFits'
  BY <1>1, DiskStays
<1>36. MapFits'
  BY <1>1, <1>2, <1>11, <1>15 DEF IInv, MapFits
<1>. QED
  BY <1>15, <1>16, <1>33, <1>34, <1>35, <1>36 DEF IInv

-----------------------------------------------------------------------------
(* Growing the map *)

LEMMA AskedIsPositive ==
    ASSUME IInv, Stage \in {"spill", "list"}
    PROVE  Asked \in Nat \ {0} /\ tx.hwm \in Nat
<1>1. Stage \in Before
  BY DEF Before
<1>2. tx.hwm \in Nat
  BY <1>1 DEF IInv, DirtyFits
<1>3. CASE Stage = "spill"
  BY <1>2, <1>3 DEF Asked
<1>4. CASE Stage = "list"
  <2>. DEFINE f == Free(freelist, tx.txid, ListAt(file, Base))
  <2>1. tx.list = Base.list
    BY <1>4 DEF IInv, DirtyFits, Base
  <2>2. f = FreedList(freelist)
    BY <2>1 DEF FreedList, ListAt
  <2>3. ListAt(file, Base) \subseteq Used(file, Base)
    BY DEF Used
  <2>4. All(f) \subseteq 2 .. LastPage
    BY <1>1, <2>3, FreeKeepsList
  <2>. HIDE DEF f
  <2>5. Cardinality(All(f)) \in Nat
    BY <2>4, IdsAreFew
  <2>6. Asked = ListPages(Cardinality(All(f)))
    BY <1>4, <2>2 DEF Asked
  <2>. QED
    BY <1>2, <2>5, <2>6, ListPagesIsPositive
<1>. QED
  BY <1>3, <1>4

\* A writer that waits for the map, or has it, is where it was.
Waiting ==
    /\ Stage \in {"spill", "list"} /\ Stage' = Stage
    /\ wpc \in {"spill", "list", "remap"} /\ wpc' \in {"spill", "list", "remap"}
    /\ wpc' = "remap" => tx'.resume \in {"spill", "list"}
    /\ TxShape(tx') /\ tx'.grown \in BOOLEAN
    /\ tx'.txid = tx.txid /\ tx'.root = tx.root /\ tx'.list = tx.list /\ tx'.hwm = tx.hwm
    /\ tx'.kids = tx.kids /\ tx'.puts = tx.puts /\ tx'.draft = tx.draft /\ tx'.dirty = tx.dirty
    /\ file' = file /\ disk' = disk /\ freelist' = freelist /\ reader' = reader
    /\ troubles' = troubles

LEMMA WaitingKeeps ==
    ASSUME IInv, Waiting, Asked' = Asked => MapFits'
    PROVE  IInv'
<1>. USE DEF Waiting
<1>1. /\ Newest(file)' = Newest(file) /\ Listed' = Listed /\ KidPages' = KidPages
      /\ Own' = Own /\ Kept' = Kept /\ After' = After /\ Base' = Base
      /\ Used(file, Newest(file))' = Used(file, Newest(file))
      /\ Reachable(file, Newest(file))' = Reachable(file, Newest(file))
  BY DEF Listed, KidPages, Own, Kept, After, Base, Used, Reachable, ListAt, KidsOf
<1>2. Asked' = Asked
  BY DEF Asked, FreedList, ListAt
<1>3. Stage \in Before /\ Stage' \notin {"write", "sync", "meta", "body"}
      /\ wpc \notin {"idle", "commit", "meta"} /\ wpc' \notin {"idle", "commit", "meta"}
  BY DEF Before
<1>4. WriterTypes'
  <2>1. TxRecord(tx')
    BY DEF IInv, WriterTypes, TxRecord, TxShape
  <2>2. TxRecord(tx)'
    BY <2>1 DEF TxRecord
  <2>3. tx.txid = Newest(file).txid + 1 /\ troubles \in 0 .. MaxTroubles
    BY <1>3 DEF IInv, WriterTypes
  <2>. QED
    BY <1>1, <1>3, <2>2, <2>3 DEF WriterTypes, Before
<1>5. FreelistFits'
  BY <1>1, <1>3 DEF IInv, FreelistFits, AllPending
<1>6. DirtyFits'
  BY <1>1, <1>3 DEF IInv, DirtyFits
<1>7. NodesFit'
  <2>1. Stage = "list" => LeavesFit'
    BY <1>1 DEF IInv, NodesFit, LeavesFit
  <2>2. Stage = "spill" => LeavesFit'
    BY <1>1 DEF IInv, NodesFit, LeavesFit
  <2>3. CASE Stage = "spill"
    BY <1>1, <1>3, <2>2, <2>3 DEF IInv, NodesFit
  <2>4. CASE Stage = "list"
    BY <1>1, <1>3, <2>1, <2>4 DEF IInv, NodesFit
  <2>. QED
    BY <2>3, <2>4
<1>8. VersionFits'
  BY <1>3 DEF VersionFits
<1>9. Sound(file)' /\ DiskFits'
  BY <1>3, DiskStays
<1>10. ReadersFit'
  <2>1. Reusable' = Reusable
    BY <1>1, <1>3 DEF Reusable
  <2>2. \A t \in DOMAIN freelist'.pending : t \in Int
    BY BoltAssumption DEF IInv, FreelistFits, Txid
  <2>. QED
    BY <1>3, <2>1, <2>2, ReadersStay
<1>. QED
  BY <1>2, <1>4, <1>5, <1>6, <1>7, <1>8, <1>9, <1>10 DEF IInv

LEMMA AskForMapKeeps ==
    ASSUME IInv, AskForMap
    PROVE  IInv'
<1>1. /\ wpc' = "remap" /\ tx' = [tx EXCEPT !.resume = wpc] /\ NeedsMap
      /\ file' = file /\ disk' = disk /\ freelist' = freelist /\ datasz' = datasz
      /\ reader' = reader /\ troubles' = troubles
  BY DEF AskForMap
<1>2. wpc \in {"spill", "list"} /\ Stage = wpc
  BY <1>1 DEF NeedsMap, Stage
<1>3. /\ TxShape(tx') /\ tx'.grown = tx.grown /\ tx'.resume = wpc
      /\ tx'.txid = tx.txid /\ tx'.root = tx.root /\ tx'.list = tx.list /\ tx'.hwm = tx.hwm
      /\ tx'.kids = tx.kids /\ tx'.puts = tx.puts /\ tx'.draft = tx.draft /\ tx'.dirty = tx.dirty
      /\ tx.grown \in BOOLEAN
  BY <1>1 DEF IInv, WriterTypes, TxRecord, TxShape
<1>4. Stage' = wpc
  BY <1>1, <1>3 DEF Stage
<1>5. Waiting
  BY <1>1, <1>2, <1>3, <1>4 DEF Waiting
<1>6. tx.hwm + Asked <= LastPage + 1 /\ ~tx.grown
  <2>1. \A f, n : MustGrow(f, n) /\ HasRoom(f, n) => tx.hwm + n <= LastPage + 1 /\ ~tx.grown
    BY DEF MustGrow, HasRoom, HwmAfter
  <2>2. CASE wpc = "spill"
    BY <1>1, <1>2, <2>1, <2>2 DEF NeedsMap, Asked
  <2>3. CASE wpc = "list"
    BY <1>1, <1>2, <2>1, <2>3 DEF NeedsMap, Asked
  <2>. QED
    BY <1>2, <2>2, <2>3
<1>7. ASSUME Asked' = Asked PROVE MapFits'
  <2>1. tx.hwm <= datasz
    BY <1>2 DEF IInv, MapFits, Before
  <2>. QED
    BY <1>1, <1>3, <1>4, <1>6, <1>7, <2>1 DEF IInv, MapFits
<1>. QED
  BY <1>5, <1>7, WaitingKeeps

LEMMA RemapKeeps ==
    ASSUME IInv, Remap
    PROVE  IInv'
<1>. DEFINE need == tx.hwm + Asked + 1
<1>1. /\ wpc = "remap" /\ wpc' = tx.resume /\ tx' = [tx EXCEPT !.grown = TRUE]
      /\ file' = file /\ disk' = disk /\ freelist' = freelist
      /\ reader' = reader /\ troubles' = troubles
  BY DEF Remap
<1>2. tx.resume \in {"spill", "list"} /\ Stage = tx.resume
  BY <1>1 DEF IInv, WriterTypes, Stage
<1>3. /\ TxShape(tx') /\ tx'.grown = TRUE
      /\ tx'.txid = tx.txid /\ tx'.root = tx.root /\ tx'.list = tx.list /\ tx'.hwm = tx.hwm
      /\ tx'.kids = tx.kids /\ tx'.puts = tx.puts /\ tx'.draft = tx.draft /\ tx'.dirty = tx.dirty
  BY <1>1 DEF IInv, WriterTypes, TxRecord, TxShape
<1>4. Stage' = Stage
  BY <1>1, <1>2 DEF Stage
<1>5. Waiting
  BY <1>1, <1>2, <1>3, <1>4 DEF Waiting
<1>6. Asked \in Nat \ {0} /\ tx.hwm \in Nat /\ tx.hwm + Asked <= LastPage + 1
  BY <1>1, <1>2, AskedIsPositive DEF IInv, MapFits
<1>7. datasz' = MapSize(IF FileSize(file) > need THEN FileSize(file) ELSE need)
  BY <1>2 DEF Remap, Asked
<1>8. /\ FileSize(file) \in 1 .. (LastPage + 1)
      /\ \A p \in Pgid : file[p].kind # "zero" => p < FileSize(file)
  <2>1. 0 \in Pgid /\ file[0].kind # "zero"
    BY BoltAssumption DEF IInv, Sound, Metas, MetaPages, Pgid
  <2>. QED
    BY <2>1, FileSizeCovers
<1>9. datasz' \in Nat /\ datasz' >= FileSize(file) /\ datasz' >= need
  <2>1. CASE FileSize(file) > need
    <3>1. FileSize(file) \in 0 .. (LastPage + 2) /\ datasz' = MapSize(FileSize(file))
      BY <1>7, <1>8, <2>1, BoltAssumption
    <3>2. datasz' \in Nat /\ datasz' >= FileSize(file)
      BY <3>1, MapSizeSuffices
    <3>. QED
      BY <1>6, <1>8, <2>1, <3>2
  <2>2. CASE ~(FileSize(file) > need)
    <3>1. need \in 0 .. (LastPage + 2) /\ datasz' = MapSize(need)
      BY <1>6, <1>7, <2>2, BoltAssumption
    <3>2. datasz' \in Nat /\ datasz' >= need
      BY <3>1, MapSizeSuffices
    <3>. QED
      BY <1>6, <1>8, <2>2, <3>2
  <2>. QED
    BY <2>1, <2>2
<1>10. ASSUME Asked' = Asked PROVE MapFits'
  <2>1. \A p \in Pgid : file[p].kind # "zero" => p < datasz'
    BY <1>8, <1>9, BoltAssumption DEF Pgid
  <2>2. tx.hwm <= datasz' /\ tx.hwm + Asked < datasz'
    BY <1>6, <1>9
  <2>3. wpc' # "remap"
    BY <1>1, <1>2
  <2>. QED
    BY <1>1, <1>3, <1>9, <1>10, <2>1, <2>2, <2>3 DEF MapFits
<1>. QED
  BY <1>5, <1>10, WaitingKeeps

-----------------------------------------------------------------------------
(* Writing the new version *)

\* The version that is in use stays while dirty pages are written.
LEMMA BaseStays ==
    ASSUME IInv, DOMAIN file' = Pgid,
           \A p \in Pgid : file'[p] = file[p] \/ (p \in DOMAIN tx.dirty /\ file'[p].kind # "zero")
    PROVE  /\ Sound(file)' /\ file'[0] = file[0] /\ file'[1] = file[1]
           /\ Newest(file)' = Base /\ Base' = Base /\ NewestAt(file)' = NewestAt(file)
           /\ Listed' = Listed
           /\ Used(file, Newest(file))' = Used(file, Base)
           /\ Reachable(file, Newest(file))' = Reachable(file, Base)
           /\ Content(file, Newest(file))' = Content(file, Base)
           /\ \A p \in Used(file, Base) : file'[p] = file[p]
           /\ \A p \in Pgid \ DOMAIN tx.dirty : file'[p] = file[p]
<1>1. DOMAIN tx.dirty \subseteq 2 .. LastPage /\ DOMAIN tx.dirty \cap Used(file, Base) = {}
  BY PagesFacts
<1>2. /\ Sound(file) /\ Base.hwm \in Nat /\ Base.hwm <= LastPage + 1
      /\ Used(file, Base) \subseteq 2 .. (Base.hwm - 1) /\ Version(file, Base)
  BY BaseFacts DEF IInv
<1>3. file'[0] = file[0] /\ file'[1] = file[1]
  BY <1>1, BoltAssumption DEF Pgid
<1>4. \A p \in Used(file, Base) : file'[p] = file[p]
  <2>1. Used(file, Base) \subseteq Pgid
    BY <1>2, BoltAssumption DEF Pgid
  <2>. QED
    BY <1>1, <2>1
<1>5. \A p \in 0 .. (Base.hwm - 1) : file'[p].kind # "zero"
  <2>1. \A p \in 0 .. (Base.hwm - 1) : p \in Pgid /\ file[p].kind # "zero"
    BY <1>2, BoltAssumption DEF Version, Pgid
  <2>. QED
    BY <2>1
<1>6. /\ Sound(file') /\ NewestAt(file') = NewestAt(file) /\ Newest(file') = Base
      /\ Used(file', Newest(file')) = Used(file, Base)
      /\ Reachable(file', Newest(file')) = Reachable(file, Base)
      /\ Content(file', Newest(file')) = Content(file, Base)
      /\ file'[Newest(file').list].ids = file[Base.list].ids
  BY <1>2, <1>3, <1>4, <1>5, SoundStays DEF Base
<1>7. Sound(file)'
  BY <1>6 DEF Sound, Metas, Version, Tree, Used, Reachable, ListAt, KidsOf, Newest, NewestAt
<1>8. /\ NewestAt(file)' = NewestAt(file') /\ Newest(file)' = Newest(file')
      /\ Base' = Newest(file') /\ Listed' = file'[Newest(file').list].ids
  BY DEF NewestAt, Newest, Base, Listed
<1>9. Listed = file[Base.list].ids
  BY DEF Listed, Base
<1>10. /\ Used(file, Newest(file))' = Used(file', Newest(file'))
       /\ Reachable(file, Newest(file))' = Reachable(file', Newest(file'))
       /\ Content(file, Newest(file))' = Content(file', Newest(file'))
  BY DEF Used, Reachable, ListAt, KidsOf, Content, ValueAt, Newest, NewestAt
<1>. QED
  BY <1>3, <1>4, <1>6, <1>7, <1>8, <1>9, <1>10

\* The pages that a transaction has taken are mapped.
LEMMA DirtyIsMapped ==
    ASSUME IInv, Stage \in Before
    PROVE  \A p \in DOMAIN tx.dirty : p < datasz /\ tx.dirty[p].kind # "zero"
<1>1. /\ tx.hwm \in Nat /\ Newest(file).hwm <= tx.hwm
      /\ DOMAIN tx.dirty \subseteq (Listed \ Kept) \cup Newest(file).hwm .. (tx.hwm - 1)
      /\ tx.hwm <= datasz /\ datasz \in Nat
      /\ \A p \in DOMAIN tx.dirty : tx.dirty[p].kind # "zero"
  BY DEF IInv, DirtyFits, MapFits
<1>2. Listed \subseteq 2 .. (Newest(file).hwm - 1) /\ Newest(file).hwm \in Nat
  BY BaseFacts DEF IInv, Base
<1>3. ASSUME NEW p \in DOMAIN tx.dirty PROVE p < datasz
  <2>1. p \in 2 .. (Newest(file).hwm - 1) \/ p \in Newest(file).hwm .. (tx.hwm - 1)
    BY <1>1, <1>2
  <2>. QED
    BY <1>1, <1>2, <2>1
<1>. QED
  BY <1>1, <1>3

LEMMA WriteDirtyKeeps ==
    ASSUME IInv, WriteDirty
    PROVE  IInv'
<1>1. /\ wpc = "write" /\ wpc' = "sync" /\ disk' = disk /\ freelist' = freelist
      /\ datasz' = datasz /\ reader' = reader /\ tx' = tx /\ troubles' = troubles
      /\ file' = [p \in Pgid |-> IF p \in DOMAIN tx.dirty THEN tx.dirty[p] ELSE file[p]]
  BY DEF WriteDirty, Write
<1>2. Stage = "write" /\ Stage \in Before /\ Stage' = "sync" /\ Stage' \in Before
  BY <1>1 DEF Stage, Before
<1>3. \A p \in DOMAIN tx.dirty : p < datasz /\ tx.dirty[p].kind # "zero"
  BY <1>2, DirtyIsMapped
<1>4. /\ DOMAIN file' = Pgid
      /\ \A p \in Pgid : file'[p] = file[p] \/ (p \in DOMAIN tx.dirty /\ file'[p].kind # "zero")
  <2>1. DOMAIN file' = Pgid
    BY <1>1
  <2>2. \A p \in Pgid : file'[p] = IF p \in DOMAIN tx.dirty THEN tx.dirty[p] ELSE file[p]
    BY <1>1
  <2>3. ASSUME NEW p \in Pgid
        PROVE  file'[p] = file[p] \/ (p \in DOMAIN tx.dirty /\ file'[p].kind # "zero")
    <3>1. CASE p \in DOMAIN tx.dirty
      <4>1. file'[p] = tx.dirty[p] /\ tx.dirty[p].kind # "zero"
        BY <1>3, <2>2, <3>1
      <4>. QED
        BY <3>1, <4>1
    <3>2. CASE p \notin DOMAIN tx.dirty
      <4>1. file'[p] = file[p]
        BY <2>2, <3>2
      <4>. QED
        BY <4>1
    <3>. QED
      BY <3>1, <3>2
  <2>. QED
    BY <2>1, <2>3
<1>5. /\ Sound(file)' /\ file'[0] = file[0] /\ file'[1] = file[1]
      /\ Newest(file)' = Base /\ Base' = Base /\ NewestAt(file)' = NewestAt(file)
      /\ Listed' = Listed
      /\ Used(file, Newest(file))' = Used(file, Base)
      /\ Reachable(file, Newest(file))' = Reachable(file, Base)
      /\ \A p \in Used(file, Base) : file'[p] = file[p]
      /\ \A p \in Pgid \ DOMAIN tx.dirty : file'[p] = file[p]
  BY <1>4, BaseStays
<1>6. After' = After
  <2>1. \A p \in Pgid : (IF p \in DOMAIN tx.dirty THEN tx.dirty[p] ELSE file'[p])
                        = IF p \in DOMAIN tx.dirty THEN tx.dirty[p] ELSE file[p]
    BY <1>5
  <2>. QED
    BY <1>1, <2>1 DEF After
<1>7. Own' = Own /\ Kept' = Kept /\ NewMeta' = NewMeta /\ Reusable' = Reusable
  <2>1. Own' = Own /\ Kept' = Kept /\ NewMeta' = NewMeta
    BY <1>1 DEF Own, Kept, NewMeta
  <2>. QED
    BY <1>1, <1>5, <2>1 DEF Reusable
<1>8. WriterTypes'
  BY <1>1, <1>2, <1>5 DEF IInv, WriterTypes, TxRecord, Before, Base
<1>9. FreelistFits'
  BY <1>1, <1>2, <1>5, <1>7 DEF IInv, FreelistFits, AllPending, Base
<1>10. DirtyFits'
  BY <1>1, <1>2, <1>5, <1>7 DEF IInv, DirtyFits, Base
<1>11. NodesFit'
  BY <1>2 DEF NodesFit
<1>12. VersionFits'
  <2>1. /\ Version(After, NewMeta) /\ After[tx.list].ids = All(freelist)
        /\ tx.draft = Content(After, NewMeta)
    BY <1>2 DEF IInv, VersionFits
  <2>2. Version(After, NewMeta)' /\ Content(After, NewMeta)' = Content(After, NewMeta)
    <3>1. Version(After', NewMeta') /\ Content(After', NewMeta') = Content(After, NewMeta)
      BY <1>6, <1>7, <2>1
    <3>2. Version(After, NewMeta)'
      BY <3>1 DEF Version, Tree, Used, Reachable, ListAt, KidsOf
    <3>3. Content(After, NewMeta)' = Content(After', NewMeta')
      BY DEF Content, KidsOf, ValueAt
    <3>. QED
      BY <3>1, <3>2, <3>3
  <2>3. All(freelist)' = All(freelist)
    BY <1>1 DEF All, AllPending
  <2>4. \A p \in DOMAIN tx.dirty : file'[p] = tx.dirty[p]
    <3>1. DOMAIN tx.dirty \subseteq Pgid
      BY DEF IInv, WriterTypes, TxRecord
    <3>. QED
      BY <1>1, <3>1
  <2>. QED
    BY <1>1, <1>2, <1>6, <2>1, <2>2, <2>3, <2>4 DEF VersionFits
<1>13. DiskFits'
  <2>1. /\ disk[0] = file[0] /\ disk[1] = file[1] /\ DOMAIN disk = Pgid
        /\ \A p \in Used(file, Base) : disk[p] = file[p]
        /\ \A p \in 0 .. (Base.hwm - 1) : disk[p].kind # "zero"
    BY <1>1 DEF IInv, DiskFits, Base
  <2>. QED
    BY <1>1, <1>5, <2>1 DEF DiskFits
<1>14. MapFits'
  <2>1. \A p \in Pgid : file'[p].kind # "zero" => p < datasz
    BY <1>1, <1>3, <1>5 DEF IInv, MapFits
  <2>2. tx.hwm <= datasz /\ datasz \in Nat
    BY <1>2 DEF IInv, MapFits
  <2>. QED
    BY <1>1, <1>2, <2>1, <2>2 DEF MapFits
<1>15. ReadersFit'
  <2>1. \A t \in DOMAIN freelist'.pending : t \in Int
    BY <1>1, BoltAssumption DEF IInv, FreelistFits, Txid
  <2>. QED
    BY <1>1, <1>5, <1>7, <2>1, ReadersStay
<1>. QED
  BY <1>5, <1>8, <1>9, <1>10, <1>11, <1>12, <1>13, <1>14, <1>15 DEF IInv

LEMMA SyncDirtyKeeps ==
    ASSUME IInv, SyncDirty
    PROVE  IInv'
<1>1. /\ wpc = "sync" /\ wpc' = "meta" /\ disk' = file /\ file' = file /\ freelist' = freelist
      /\ datasz' = datasz /\ reader' = reader /\ troubles' = troubles
      /\ tx' = [tx EXCEPT !.dirty = << >>]
  BY DEF SyncDirty
<1>2. Stage = "sync" /\ Stage \in Before /\ Stage' = "meta" /\ Stage' \in Before
  BY <1>1 DEF Stage, Before
<1>3. /\ tx'.txid = tx.txid /\ tx'.root = tx.root /\ tx'.list = tx.list /\ tx'.hwm = tx.hwm
      /\ tx'.kids = tx.kids /\ tx'.puts = tx.puts /\ tx'.draft = tx.draft
      /\ tx'.grown = tx.grown /\ tx'.resume = tx.resume /\ tx'.dirty = << >>
      /\ TxShape(tx')
  BY <1>1 DEF IInv, WriterTypes, TxRecord, TxShape
<1>4. DOMAIN tx'.dirty = {}
  <2>1. DOMAIN << >> = {}
    OBVIOUS
  <2>. QED
    BY <1>3, <2>1
<1>5. After' = After
  <2>1. \A p \in DOMAIN tx.dirty : file[p] = tx.dirty[p]
    BY <1>2 DEF IInv, VersionFits
  <2>2. \A p \in Pgid : (IF p \in DOMAIN tx'.dirty THEN tx'.dirty[p] ELSE file'[p])
                        = IF p \in DOMAIN tx.dirty THEN tx.dirty[p] ELSE file[p]
    BY <1>1, <1>4, <2>1
  <2>. QED
    BY <2>2 DEF After
<1>6. /\ Newest(file)' = Newest(file) /\ Listed' = Listed /\ Base' = Base
      /\ Own' = Own /\ Kept' = Kept /\ NewMeta' = NewMeta
      /\ Used(file, Newest(file))' = Used(file, Newest(file))
  BY <1>1, <1>3 DEF Listed, Own, Kept, NewMeta, Base, Used, Reachable, ListAt, KidsOf
<1>7. Reusable' = Reusable
  BY <1>1, <1>6 DEF Reusable
<1>8. WriterTypes'
  <2>1. TxRecord(tx')
    BY <1>3, <1>4 DEF IInv, WriterTypes, TxRecord, TxShape
  <2>2. TxRecord(tx)'
    BY <2>1 DEF TxRecord
  <2>3. tx.txid = Newest(file).txid + 1 /\ troubles \in 0 .. MaxTroubles
    BY <1>2 DEF IInv, WriterTypes
  <2>. QED
    BY <1>1, <1>2, <1>3, <1>6, <2>2, <2>3 DEF WriterTypes, Before
<1>9. FreelistFits'
  BY <1>1, <1>2, <1>3, <1>6 DEF IInv, FreelistFits, AllPending
<1>10. DirtyFits'
  <2>1. tx.hwm \in Nat /\ Newest(file).hwm <= tx.hwm /\ tx.hwm <= LastPage + 1
    BY <1>2 DEF IInv, DirtyFits
  <2>. QED
    BY <1>1, <1>2, <1>3, <1>4, <1>6, <2>1 DEF DirtyFits
<1>11. NodesFit'
  BY <1>2 DEF NodesFit
<1>12. VersionFits'
  <2>1. /\ Version(After, NewMeta) /\ After[tx.list].ids = All(freelist)
        /\ tx.draft = Content(After, NewMeta)
    BY <1>2 DEF IInv, VersionFits
  <2>2. Version(After, NewMeta)' /\ Content(After, NewMeta)' = Content(After, NewMeta)
    <3>1. Version(After', NewMeta') /\ Content(After', NewMeta') = Content(After, NewMeta)
      BY <1>5, <1>6, <2>1
    <3>2. Version(After, NewMeta)'
      BY <3>1 DEF Version, Tree, Used, Reachable, ListAt, KidsOf
    <3>3. Content(After, NewMeta)' = Content(After', NewMeta')
      BY DEF Content, KidsOf, ValueAt
    <3>. QED
      BY <3>1, <3>2, <3>3
  <2>3. All(freelist)' = All(freelist)
    BY <1>1 DEF All, AllPending
  <2>. QED
    BY <1>1, <1>2, <1>3, <1>4, <1>5, <2>1, <2>2, <2>3 DEF VersionFits
<1>13. Sound(file)' /\ DiskFits'
  <2>1. Sound(file) /\ DOMAIN file = Pgid
    BY DEF IInv, Sound
  <2>2. Sound(file)'
    BY <1>1, <2>1
  <2>3. \A p \in 0 .. (Newest(file).hwm - 1) : file[p].kind # "zero"
    BY <2>1 DEF Sound, Version
  <2>. QED
    BY <1>1, <1>6, <2>1, <2>2, <2>3 DEF DiskFits
<1>14. MapFits'
  <2>. QED
    BY <1>1, <1>2, <1>3 DEF IInv, MapFits
<1>15. ReadersFit'
  <2>1. \A t \in DOMAIN freelist'.pending : t \in Int
    BY <1>1, BoltAssumption DEF IInv, FreelistFits, Txid
  <2>. QED
    BY <1>1, <1>6, <1>7, <2>1, ReadersStay
<1>. QED
  BY <1>8, <1>9, <1>10, <1>11, <1>12, <1>13, <1>14, <1>15 DEF IInv

\* The new version is the one that is found when its meta page is written.
LEMMA WriteMetaKeeps ==
    ASSUME IInv, WriteMeta
    PROVE  IInv'
<1>. DEFINE i == MetaPage(tx.txid)
            m == NewMeta
            h == file'
<1>1. /\ wpc = "meta" /\ wpc' = "commit" /\ disk' = disk /\ freelist' = freelist
      /\ datasz' = datasz /\ reader' = reader /\ tx' = tx /\ troubles' = troubles
      /\ file' = [file EXCEPT ![i] = m]
  BY DEF WriteMeta, NewMeta
<1>2. Stage = "meta" /\ Stage \in Before /\ Stage' = "commit" /\ Stage' \notin Before
  BY <1>1 DEF Stage, Before
<1>3. /\ tx.txid \in Txid /\ tx.txid = Base.txid + 1 /\ TxRecord(tx)
      /\ Version(After, m) /\ After[tx.list].ids = All(freelist) /\ tx.draft = Content(After, m)
      /\ DOMAIN tx.dirty = {} /\ \A p \in Pgid : disk[p] = file[p]
      /\ tx.hwm \in Nat /\ Base.hwm <= tx.hwm /\ tx.hwm <= LastPage + 1 /\ tx.hwm <= datasz
  BY <1>1, <1>2 DEF IInv, WriterTypes, VersionFits, TxRecord, DiskFits, DirtyFits, MapFits, Base
<1>4. /\ Base \in MetaPages /\ Base.hwm \in Nat /\ Base.txid \in Nat
      /\ NewestAt(file) \in {0, 1} /\ NewestAt(file) = Base.txid % 2
      /\ Base = file[NewestAt(file)] /\ DOMAIN file = Pgid /\ Base.hwm <= LastPage + 1
      /\ file[0] \in MetaPages /\ file[1] \in MetaPages
  BY BaseFacts DEF IInv, Sound, Metas
<1>5. m = Meta(tx.txid, tx.root, tx.list, tx.hwm)
      /\ m.txid = tx.txid /\ m.hwm = tx.hwm /\ m.list = tx.list /\ m.kind = "meta"
  BY DEF NewMeta, Meta
<1>6. m \in MetaPages
  <2>1. m.root \in Nat /\ m.list \in Nat
    <3>1. m.hwm \in Nat
      BY <1>3, <1>5
    <3>2. m.root \in 2 .. (m.hwm - 1) /\ m.list \in 2 .. (m.hwm - 1)
      BY <1>3 DEF Version, Tree
    <3>. QED
      BY <3>1, <3>2
  <2>2. m = [kind |-> "meta", txid |-> tx.txid, root |-> tx.root, list |-> tx.list, hwm |-> tx.hwm]
        /\ m.root = tx.root
    BY <1>5 DEF Meta
  <2>. QED
    BY <1>3, <1>5, <2>1, <2>2 DEF MetaPages
<1>7. i \in {0, 1} /\ i # NewestAt(file) /\ i = tx.txid % 2
  BY <1>3, <1>4 DEF MetaPage
<1>. HIDE DEF i, m, h
<1>8. /\ h[i] = m /\ DOMAIN h = Pgid
      /\ \A p \in Pgid \ {i} : h[p] = file[p]
      /\ h[NewestAt(file)] = Base
  <2>1. 0 \in Pgid /\ 1 \in Pgid
    BY BoltAssumption DEF Pgid
  <2>. QED
    BY <1>1, <1>4, <1>7, <2>1 DEF h
<1>9. Metas(h) /\ NewestAt(h) = i /\ Newest(h) = m
  <2>1. CASE i = 0
    <3>1. NewestAt(file) = 1 /\ h[0] = m /\ h[1] = Base /\ Base.txid % 2 = 1
      BY <1>4, <1>7, <1>8, <2>1
    <3>2. NewestAt(h) = 0
      BY <1>3, <1>4, <1>5, <3>1 DEF NewestAt
    <3>. QED
      BY <1>3, <1>4, <1>5, <1>6, <1>7, <2>1, <3>1, <3>2 DEF Metas, Newest
  <2>2. CASE i = 1
    <3>1. NewestAt(file) = 0 /\ h[1] = m /\ h[0] = Base /\ Base.txid % 2 = 0
      BY <1>4, <1>7, <1>8, <2>2
    <3>2. NewestAt(h) = 1
      BY <1>3, <1>4, <1>5, <3>1 DEF NewestAt
    <3>. QED
      BY <1>3, <1>4, <1>5, <1>6, <1>7, <2>2, <3>1, <3>2 DEF Metas, Newest
  <2>. QED
    BY <1>7, <2>1, <2>2
<1>10. \A p \in Pgid : After[p] = file[p]
  BY <1>3 DEF After
<1>11. /\ Used(After, m) \subseteq 2 .. (m.hwm - 1) /\ 2 .. (m.hwm - 1) \subseteq Pgid
       /\ m.hwm \in Nat /\ m.hwm > 2
  <2>1. m.hwm \in Nat
    BY <1>3, <1>5
  <2>2. Used(After, m) \subseteq 2 .. (m.hwm - 1) /\ m.root \in 2 .. (m.hwm - 1)
    BY <1>3, <2>1, VersionFacts DEF Tree
  <2>. QED
    BY <1>3, <1>5, <2>1, <2>2, BoltAssumption DEF Pgid
<1>12. \A p \in Used(After, m) : h[p] = After[p]
  BY <1>7, <1>8, <1>10, <1>11
<1>13. \A p \in 0 .. (m.hwm - 1) : h[p].kind # "zero"
  <2>1. \A p \in 0 .. (m.hwm - 1) : p \in Pgid /\ After[p].kind # "zero"
    BY <1>3, <1>5, BoltAssumption DEF Version, Pgid
  <2>. QED
    BY <1>5, <1>8, <1>10, <2>1
<1>14. /\ Version(h, m) /\ Used(h, m) = Used(After, m) /\ Content(h, m) = Content(After, m)
       /\ h[m.list].ids = After[m.list].ids
  BY <1>3, <1>11, <1>12, <1>13, VersionStays
<1>15. Sound(h)
  BY <1>8, <1>9, <1>14 DEF Sound
<1>16. Sound(file)' /\ Newest(file)' = m /\ Listed' = h[m.list].ids
       /\ Content(file, Newest(file))' = Content(h, m) /\ NewestAt(file)' = i
  <2>1. Sound(file)'
    BY <1>15 DEF h, Sound, Metas, Version, Tree, Used, Reachable, ListAt, KidsOf, Newest, NewestAt
  <2>2. Newest(file)' = Newest(file') /\ NewestAt(file)' = NewestAt(file')
    BY DEF Newest, NewestAt
  <2>3. Listed' = h[m.list].ids
    BY <1>9, <2>2 DEF Listed, h
  <2>4. Content(file, Newest(file))' = Content(h, m)
    BY <1>9, <2>2 DEF Content, KidsOf, ValueAt, h
  <2>. QED
    BY <1>9, <2>1, <2>2, <2>3, <2>4 DEF h
<1>17. Listed' = All(freelist) /\ All(freelist)' = All(freelist) /\ AllPending(freelist)' = AllPending(freelist)
  BY <1>1, <1>3, <1>5, <1>14, <1>16 DEF All, AllPending
<1>18. WriterTypes'
  <2>1. TxRecord(tx)'
    BY <1>1, <1>3 DEF TxRecord
  <2>2. troubles' \in 0 .. MaxTroubles
    BY <1>1 DEF IInv, WriterTypes
  <2>. QED
    BY <1>1, <1>2, <1>5, <1>16, <2>1, <2>2 DEF WriterTypes
<1>19. FreelistFits'
  <2>1. \A t \in DOMAIN freelist.pending : t <= tx.txid
    BY <1>2 DEF IInv, FreelistFits
  <2>. QED
    BY <1>1, <1>2, <1>5, <1>16, <1>17, <2>1 DEF IInv, FreelistFits
<1>20. DirtyFits'
  BY <1>1, <1>2, <1>3 DEF DirtyFits, Before
<1>21. NodesFit'
  BY <1>2 DEF NodesFit
<1>22. VersionFits'
  <2>1. tx'.draft = Content(file, Newest(file))'
    BY <1>1, <1>3, <1>14, <1>16
  <2>. QED
    BY <1>1, <1>2, <2>1 DEF VersionFits
<1>23. DiskFits'
  <2>1. DOMAIN disk = Pgid
    BY DEF IInv, DiskFits
  <2>2. Sound(disk)
    <3>1. \A p \in 0 .. (Base.hwm - 1) : p \in Pgid /\ disk[p].kind # "zero"
      BY <1>1, <1>4, BoltAssumption, SMTT(20) DEF IInv, DiskFits, Pgid, Base
    <3>2. Sound(file) /\ disk[0] = file[0] /\ disk[1] = file[1]
          /\ \A p \in Used(file, Base) : disk[p] = file[p]
      BY <1>1 DEF IInv, DiskFits, Base
    <3>. QED
      BY <2>1, <3>1, <3>2, SoundStays DEF Base
  <2>3. Sound(disk)'
    <3>1. Sound(disk')
      BY <1>1, <2>2
    <3>. QED
      BY <3>1 DEF Sound, Metas, Version, Tree, Used, Reachable, ListAt, KidsOf, Newest, NewestAt
  <2>4. \A p \in Pgid \ {MetaPage(tx'.txid)} : disk'[p] = file'[p]
    BY <1>1, <1>3, <1>8 DEF i, h
  <2>. QED
    BY <1>1, <2>1, <2>3, <2>4 DEF DiskFits
<1>24. MapFits'
  <2>1. ASSUME NEW p \in Pgid, file'[p].kind # "zero" PROVE p < datasz
    <3>1. CASE p = i
      BY <1>3, <1>5, <1>7, <1>11, <3>1 DEF IInv, MapFits
    <3>2. CASE p # i
      <4>1. file'[p] = file[p]
        BY <1>8, <3>2 DEF h
      <4>. QED
        BY <2>1, <4>1 DEF IInv, MapFits
    <3>. QED
      BY <3>1, <3>2
  <2>. QED
    BY <1>1, <1>2, <2>1 DEF IInv, MapFits, Before
<1>25. ReadersFit'
  <2>1. reader' \in [Readers -> ReaderAt]
    BY <1>1 DEF IInv, ReadersFit
  <2>2. ASSUME NEW r \in Readers, HoldsMap(r)
        PROVE  Safe(VersionOf(r))'
    <3>1. reader[r] \in ReaderAt /\ Safe(VersionOf(r))
          /\ (reader[r].pc = "copy" => reader[r].at = NewestAt(file))
      BY <1>1, <2>2 DEF IInv, ReadersFit
    <3>. PICK v : v = VersionOf(r)
      OBVIOUS
    <3>2. v \in MetaPages
      BY <1>4, <3>1 DEF VersionOf, ReaderAt
    <3>3. VersionOf(r)' = v
      BY <1>1, <1>4, <1>8, <3>1 DEF VersionOf, h
    <3>4. Tree(file, v) /\ v.txid <= Base.txid /\ v.hwm <= Base.hwm
          /\ Reachable(file, v) \cap Reusable = {}
          /\ \A t \in DOMAIN freelist.pending :
                t <= v.txid => Reachable(file, v) \cap freelist.pending[t] = {}
      BY <3>1 DEF Safe, Base
    <3>5. \A p \in Reachable(file, v) : h[p] = file[p]
      <4>1. Reachable(file, v) \subseteq 2 .. (v.hwm - 1)
        BY <3>4, TreeFacts
      <4>2. 2 .. (v.hwm - 1) \subseteq Pgid
        <5>1. v.hwm \in Nat /\ v.hwm <= Base.hwm
          BY <3>2, <3>4 DEF MetaPages
        <5>. QED
          BY <1>4, <5>1, BoltAssumption DEF Pgid
      <4>. QED
        BY <1>7, <1>8, <4>1, <4>2
    <3>6. Tree(h, v) /\ Reachable(h, v) = Reachable(file, v)
      BY <3>4, <3>5, TreeStays
    <3>7. Reusable' = freelist.ids /\ freelist.ids \subseteq Reusable
      BY <1>1, PagesFacts DEF Reusable
    <3>8. v.txid <= m.txid /\ v.hwm <= m.hwm
      BY <1>3, <1>4, <1>5, <3>2, <3>4, BoltAssumption, SMTT(20) DEF MetaPages, Txid
    <3>9. \A x : x = VersionOf(r)' /\ Safe(x)' => Safe(VersionOf(r))'
      BY DEF Safe
    <3>10. Safe(v)'
      <4>1. Reachable(file', v) \cap Reusable' = {}
        BY <3>4, <3>6, <3>7 DEF h
      <4>. QED
        BY <1>1, <1>16, <3>4, <3>6, <3>8, <4>1 DEF Safe, h
    <3>. QED
      BY <3>3, <3>9, <3>10
  <2>3. \A r \in Readers : HoldsMap(r)' = HoldsMap(r)
    BY <1>1 DEF HoldsMap
  <2>. QED
    BY <1>1, <2>1, <2>2, <2>3 DEF ReadersFit
<1>. QED
  BY <1>16, <1>18, <1>19, <1>20, <1>21, <1>22, <1>23, <1>24, <1>25 DEF IInv

\* No transaction is open.
LEMMA NoTxFits ==
    /\ TxRecord(NoTx) /\ DOMAIN NoTx.dirty = {} /\ NoTx.txid = 0
<1>1. DOMAIN << >> = {}
  OBVIOUS
<1>2. << >> \in Promise!Versions
  <2>1. << >> \in [{} -> Txid] /\ {} \in SUBSET Keys
    OBVIOUS
  <2>. QED
    BY <2>1 DEF Promise!Versions
<1>. QED
  BY <1>1, <1>2, BoltAssumption DEF NoTx, TxRecord, Txid

\* The transaction ends, and what the list of the newest version has is free, or
\* pending for older ones.
Ending ==
    /\ wpc \in Before \cup {"remap", "commit"} /\ wpc' = "idle" /\ tx' = NoTx
    /\ reader' = reader /\ datasz' = datasz /\ troubles' \in 0 .. MaxTroubles
    /\ DOMAIN file' = Pgid
    /\ \A p \in Pgid : file'[p] = file[p] \/ (p \in DOMAIN tx.dirty /\ file'[p].kind # "zero")
    /\ freelist'.ids \cup AllPending(freelist') = Listed
    /\ freelist'.ids \subseteq Reusable
    /\ \A t \in DOMAIN freelist'.pending :
          t \in DOMAIN freelist.pending /\ freelist'.pending[t] = freelist.pending[t]

LEMMA EndingKeeps ==
    ASSUME IInv, Ending, DiskFits', FreelistFits',
           freelist'.ids \cap AllPending(freelist') = {}
    PROVE  IInv'
<1>. USE DEF Ending
<1>1. /\ Sound(file)' /\ file'[0] = file[0] /\ file'[1] = file[1]
      /\ Newest(file)' = Base /\ Listed' = Listed
      /\ \A p \in Pgid \ DOMAIN tx.dirty : file'[p] = file[p]
  BY BaseStays
<1>2. Stage' = "idle"
  BY DEF Stage
<1>3. WriterTypes'
  <2>1. TxRecord(tx)'
    BY NoTxFits DEF TxRecord
  <2>. QED
    BY <1>2, <2>1 DEF WriterTypes, Before
<1>4. DirtyFits' /\ NodesFit' /\ VersionFits'
  BY <1>2 DEF DirtyFits, NodesFit, VersionFits, Before
<1>5. MapFits'
  <2>1. Stage \in Before => \A p \in DOMAIN tx.dirty : p < datasz
    BY DirtyIsMapped
  <2>2. Stage \in Before \/ DOMAIN tx.dirty = {}
    BY DEF IInv, DirtyFits, WriterTypes, Stage, Before
  <2>3. \A p \in Pgid : file'[p].kind # "zero" => p < datasz
    BY <1>1, <2>1, <2>2 DEF IInv, MapFits
  <2>. QED
    BY <1>2, <2>3 DEF IInv, MapFits, Before
<1>6. Reusable' \subseteq Reusable
  <2>1. DOMAIN freelist'.pending \subseteq DOMAIN freelist.pending
    OBVIOUS
  <2>2. 0 \notin DOMAIN freelist'.pending
    BY <2>1 DEF IInv, FreelistFits
  <2>3. Kept' = AllPending(freelist')
    BY <2>2, NoTxFits DEF Kept, AllPending
  <2>4. Reusable' = Listed \ AllPending(freelist')
    BY <1>1, <2>3 DEF Reusable
  <2>. QED
    BY <2>4
<1>7. ReadersFit'
  <2>1. \A t \in DOMAIN freelist'.pending : t \in Int
    BY BoltAssumption DEF IInv, FreelistFits, Txid
  <2>. QED
    BY <1>1, <1>6, <2>1, ReadersStay
<1>. QED
  BY <1>1, <1>3, <1>4, <1>5, <1>7 DEF IInv

LEMMA SyncMetaKeeps ==
    ASSUME IInv, SyncMeta
    PROVE  IInv'
<1>1. /\ wpc = "commit" /\ wpc' = "idle" /\ disk' = file /\ file' = file /\ freelist' = freelist
      /\ datasz' = datasz /\ reader' = reader /\ troubles' = troubles /\ tx' = NoTx
  BY DEF SyncMeta
<1>2. /\ All(freelist) = Listed /\ FreelistFits /\ DOMAIN file = Pgid /\ Sound(file)
      /\ troubles \in 0 .. MaxTroubles
  BY <1>1 DEF IInv, FreelistFits, Sound, WriterTypes
<1>3. Newest(file)' = Newest(file) /\ Listed' = Listed /\ All(freelist') = All(freelist)
      /\ AllPending(freelist') = AllPending(freelist)
      /\ Used(file, Newest(file))' = Used(file, Newest(file))
  BY <1>1 DEF Listed, All, AllPending, Used, Reachable, ListAt, KidsOf
<1>4. Stage' = "idle"
  BY <1>1 DEF Stage
<1>5. FreelistFits'
  BY <1>1, <1>2, <1>3, <1>4 DEF FreelistFits, Before, All, AllPending
<1>6. DiskFits'
  <2>1. \A p \in 0 .. (Newest(file).hwm - 1) : file[p].kind # "zero"
    BY <1>2 DEF Sound, Version
  <2>. QED
    BY <1>1, <1>2, <1>3, <2>1 DEF DiskFits
<1>7. freelist'.ids \subseteq Reusable
  BY <1>1 DEF Reusable
<1>8. freelist'.ids \cup AllPending(freelist') = Listed
  BY <1>1, <1>2, <1>3 DEF All
<1>9. Ending
  BY <1>1, <1>2, <1>7, <1>8 DEF Ending
<1>10. freelist'.ids \cap AllPending(freelist') = {}
  BY <1>1, <1>2, <1>3 DEF FreelistFits
<1>. QED
  BY <1>5, <1>6, <1>9, <1>10, EndingKeeps

-----------------------------------------------------------------------------
(* Failures *)

\* A rollback gives back what the transaction took and freed.
LEMMA AbandonKeeps ==
    ASSUME Regular, IInv, Stage \in Before, Abandon, troubles' \in 0 .. MaxTroubles,
           DOMAIN file' = Pgid,
           \A p \in Pgid : file'[p] = file[p] \/ (p \in DOMAIN tx.dirty /\ file'[p].kind # "zero")
    PROVE  IInv'
<1>. DEFINE b == Rollback(freelist, tx.txid)
<1>1. /\ wpc' = "idle" /\ tx' = NoTx /\ disk' = disk /\ datasz' = datasz /\ reader' = reader
      /\ freelist' = Reload(b, Listed)
  BY DEF Abandon, Rolledback, Listed
<1>2. /\ freelist = [ids |-> freelist.ids, pending |-> freelist.pending]
      /\ DOMAIN freelist.pending \subseteq Txid \ {0}
      /\ \A s, t \in DOMAIN freelist.pending :
            s # t => freelist.pending[s] \cap freelist.pending[t] = {}
      /\ \A t \in DOMAIN freelist.pending : t <= tx.txid
      /\ tx.txid = Base.txid + 1 /\ Base.txid \in Nat
      /\ Kept \subseteq Listed
      /\ wpc # "commit" /\ wpc # "idle" /\ wpc \in Before \cup {"remap"}
  <2>1. wpc \in Before \cup {"remap"}
    BY DEF IInv, WriterTypes, Stage, Before
  <2>. QED
    BY <2>1, BaseFacts DEF IInv, FreelistFits, WriterTypes, Base, Before
<1>3. Listed \subseteq 2 .. LastPage
  BY BaseFacts DEF IInv
<1>4. /\ b = [ids |-> b.ids, pending |-> b.pending]
      /\ DOMAIN b.pending = DOMAIN freelist.pending \ {tx.txid}
      /\ \A t \in DOMAIN b.pending : b.pending[t] = freelist.pending[t]
  <2>1. b = [ids |-> freelist.ids,
             pending |-> [t \in DOMAIN freelist.pending \ {tx.txid} |-> freelist.pending[t]]]
    BY <1>2 DEF Rollback
  <2>. QED
    BY <2>1
<1>. HIDE DEF b
<1>5. AllPending(b) = Kept
  BY <1>4 DEF AllPending, Kept
<1>6. ReadList(Listed) = Listed
  BY <1>3, ReadListReadsAll
<1>7. /\ freelist' = [ids |-> freelist'.ids, pending |-> freelist'.pending]
      /\ freelist'.ids = Listed \ Kept /\ freelist'.pending = b.pending
  BY <1>1, <1>4, <1>5, <1>6 DEF Reload
<1>8. AllPending(freelist') = Kept
  BY <1>5, <1>7 DEF AllPending
<1>9. /\ Newest(file)' = Base /\ Listed' = Listed
      /\ file'[0] = file[0] /\ file'[1] = file[1]
      /\ Used(file, Newest(file))' = Used(file, Base)
      /\ \A p \in Used(file, Base) : file'[p] = file[p]
  BY BaseStays
<1>10. Stage' = "idle"
  BY <1>1 DEF Stage
<1>11. FreelistFits'
  <2>1. All(freelist)' = Listed
    BY <1>2, <1>7, <1>8 DEF All, AllPending
  <2>2. AllPending(freelist)' = Kept
    BY <1>8 DEF AllPending
  <2>3. \A t \in DOMAIN freelist'.pending : t <= Base.txid
    <3>1. \A t \in DOMAIN freelist'.pending : t \in Nat /\ t <= tx.txid /\ t # tx.txid
      BY <1>2, <1>4, <1>7, BoltAssumption DEF Txid
    <3>. QED
      BY <1>2, <3>1
  <2>4. \A s, t \in DOMAIN freelist'.pending :
           s # t => freelist'.pending[s] \cap freelist'.pending[t] = {}
    BY <1>2, <1>4, <1>7
  <2>5. freelist'.ids \cap Kept = {} /\ DOMAIN freelist'.pending \subseteq Txid \ {0}
    BY <1>2, <1>4, <1>7
  <2>. QED
    BY <1>1, <1>7, <1>9, <1>10, <2>1, <2>2, <2>3, <2>4, <2>5 DEF FreelistFits, Before
<1>12. DiskFits'
  <2>1. /\ disk[0] = file[0] /\ disk[1] = file[1] /\ DOMAIN disk = Pgid
        /\ \A p \in Used(file, Base) : disk[p] = file[p]
        /\ \A p \in 0 .. (Base.hwm - 1) : disk[p].kind # "zero"
    BY <1>2 DEF IInv, DiskFits, Base
  <2>. QED
    BY <1>1, <1>9, <2>1 DEF DiskFits
<1>13. Ending
  <2>1. freelist'.ids \subseteq Reusable
    BY <1>2, <1>7 DEF Reusable
  <2>2. freelist'.ids \cup AllPending(freelist') = Listed
    BY <1>2, <1>7, <1>8
  <2>3. \A t \in DOMAIN freelist'.pending :
           t \in DOMAIN freelist.pending /\ freelist'.pending[t] = freelist.pending[t]
    BY <1>4, <1>7
  <2>. QED
    BY <1>1, <1>2, <2>1, <2>2, <2>3 DEF Ending
<1>14. freelist'.ids \cap AllPending(freelist') = {}
  BY <1>7, <1>8
<1>. QED
  BY <1>11, <1>12, <1>13, <1>14, EndingKeeps

LEMMA BodyFailsKeeps ==
    ASSUME Regular, IInv, BodyFails
    PROVE  IInv'
<1>1. wpc = "body" /\ Abandon /\ file' = file /\ troubles' = troubles
  BY DEF BodyFails
<1>2. Stage \in Before
  BY <1>1 DEF Stage, Before
<1>3. DOMAIN file' = Pgid /\ \A p \in Pgid : file'[p] = file[p]
  BY <1>1 DEF IInv, Sound
<1>4. troubles' \in 0 .. MaxTroubles
  BY <1>1 DEF IInv, WriterTypes
<1>. QED
  BY <1>1, <1>2, <1>3, <1>4, AbandonKeeps

LEMMA CallFailsKeeps ==
    ASSUME Regular, IInv, CallFails
    PROVE  IInv'
<1>1. /\ Abandon /\ troubles < MaxTroubles /\ troubles' = troubles + 1
      /\ \/ wpc \in {"remap", "sync", "meta"} /\ file' = file
         \/ wpc = "write" /\ \E last \in DOMAIN tx.dirty : Write({p \in DOMAIN tx.dirty : p < last})
  BY DEF CallFails, Regular
<1>2. Stage \in Before
  BY <1>1 DEF IInv, WriterTypes, Stage, Before
<1>3. troubles' \in 0 .. MaxTroubles
  BY <1>1, BoltAssumption DEF IInv, WriterTypes
<1>4. /\ DOMAIN file' = Pgid
      /\ \A p \in Pgid : file'[p] = file[p] \/ (p \in DOMAIN tx.dirty /\ file'[p].kind # "zero")
  <2>1. CASE file' = file
    BY <2>1 DEF IInv, Sound
  <2>2. ASSUME NEW last \in DOMAIN tx.dirty, Write({p \in DOMAIN tx.dirty : p < last})
        PROVE  <1>4!:
    <3>. DEFINE W == {p \in DOMAIN tx.dirty : p < last}
    <3>1. file' = [p \in Pgid |-> IF p \in W THEN tx.dirty[p] ELSE file[p]]
      BY <2>2 DEF Write
    <3>2. DOMAIN file' = Pgid /\ W \subseteq DOMAIN tx.dirty
      BY <3>1
    <3>. HIDE DEF W
    <3>3. ASSUME NEW p \in Pgid
          PROVE  file'[p] = file[p] \/ (p \in DOMAIN tx.dirty /\ file'[p].kind # "zero")
      <4>1. CASE p \in W
        <5>1. file'[p] = tx.dirty[p] /\ p \in DOMAIN tx.dirty
          BY <3>1, <3>2, <4>1
        <5>2. tx.dirty[p].kind # "zero"
          BY <1>2, <5>1, DirtyIsMapped
        <5>. QED
          BY <5>1, <5>2
      <4>2. CASE p \notin W
        BY <3>1, <4>2
      <4>. QED
        BY <4>1, <4>2
    <3>. QED
      BY <3>2, <3>3
  <2>. QED
    BY <1>1, <2>1, <2>2
<1>. QED
  BY <1>1, <1>2, <1>3, <1>4, AbandonKeeps

-----------------------------------------------------------------------------
(* Opening the file *)

\* A file that was just opened: nothing is pending, nobody reads or writes.
Opened ==
    /\ Sound(file) /\ disk = file
    /\ freelist = [ids |-> Listed, pending |-> << >>]
    /\ datasz \in Nat /\ \A p \in Pgid : file[p].kind # "zero" => p < datasz
    /\ reader = [r \in Readers |-> [pc |-> "idle", at |-> 0, meta |-> NoMeta]]
    /\ wpc = "idle" /\ tx = NoTx /\ troubles \in 0 .. MaxTroubles

LEMMA OpenedFits == Opened => IInv
<1>. SUFFICES ASSUME Opened PROVE IInv
  OBVIOUS
<1>. USE DEF Opened
<1>1. Stage = "idle" /\ Stage \notin Before
  BY DEF Stage, Before
<1>2. WriterTypes
  BY <1>1, NoTxFits DEF WriterTypes
<1>3. FreelistFits
  <2>1. freelist.ids = Listed /\ freelist.pending = << >> /\ DOMAIN << >> = {}
    OBVIOUS
  <2>2. DOMAIN freelist.pending = {}
    BY <2>1
  <2>3. AllPending(freelist) = {}
    BY <2>2 DEF AllPending
  <2>. QED
    BY <1>1, <2>1, <2>2, <2>3 DEF FreelistFits, All
<1>4. DirtyFits /\ NodesFit /\ VersionFits
  BY <1>1 DEF DirtyFits, NodesFit, VersionFits, Before
<1>5. DiskFits
  <2>1. DOMAIN file = Pgid /\ \A p \in 0 .. (Newest(file).hwm - 1) : file[p].kind # "zero"
    BY DEF Sound, Version
  <2>. QED
    BY <2>1 DEF DiskFits
<1>6. MapFits
  BY <1>1 DEF MapFits
<1>7. ReadersFit
  <2>1. NoMeta \in MetaPages
    BY BoltAssumption DEF NoMeta, Meta, MetaPages, Txid
  <2>2. reader \in [Readers -> ReaderAt] /\ \A r \in Readers : reader[r].pc = "idle"
    BY <2>1 DEF ReaderAt
  <2>. QED
    BY <2>2 DEF ReadersFit, HoldsMap
<1>. QED
  BY <1>2, <1>3, <1>4, <1>5, <1>6, <1>7 DEF IInv

LEMMA InitKeeps == Init => IInv
<1>. SUFFICES ASSUME Init PROVE Opened
  BY OpenedFits
<1>1. 0 \in Pgid /\ 1 \in Pgid /\ 2 \in Pgid /\ 3 \in Pgid
  BY BoltAssumption DEF Pgid
<1>2. /\ file = NewFile /\ disk = NewFile /\ DOMAIN file = Pgid
      /\ file[0] = Meta(0, 3, 2, 4) /\ file[1] = Meta(1, 3, 2, 4)
      /\ file[2] = List({}, 1) /\ file[3] = Root(<< >>)
      /\ \A p \in Pgid : p \notin {0, 1, 2, 3} => file[p] = Zero
  BY <1>1 DEF Init, NewFile
<1>3. /\ file[0] \in MetaPages /\ file[0].txid = 0
      /\ file[1] \in MetaPages /\ file[1].txid = 1
  BY <1>2, BoltAssumption DEF Meta, MetaPages, Txid
<1>4. Metas(file) /\ NewestAt(file) = 1 /\ Newest(file) = file[1]
  BY <1>3 DEF Metas, NewestAt, Newest
<1>. DEFINE m == Newest(file)
<1>5. m.root = 3 /\ m.list = 2 /\ m.hwm = 4
  BY <1>2, <1>4 DEF Meta
<1>6. /\ file[3].kind = "root" /\ file[3].kids = << >> /\ DOMAIN << >> = {}
      /\ file[2].kind = "list" /\ file[2].ids = {} /\ file[2].pages = 1
  <2>1. DOMAIN << >> = {}
    OBVIOUS
  <2>. QED
    BY <1>2, <2>1 DEF Root, List
<1>. HIDE DEF m
<1>7. Tree(file, m)
  <2>1. DOMAIN file[m.root].kids = {}
    BY <1>5, <1>6
  <2>2. m.root \in 2 .. (m.hwm - 1) /\ m.hwm <= LastPage + 1
    BY <1>5, BoltAssumption
  <2>. QED
    BY <1>5, <1>6, <2>1, <2>2 DEF Tree
<1>8. Reachable(file, m) = {3}
  <2>1. KidsOf(file, m) = << >>
    BY <1>5, <1>6 DEF KidsOf
  <2>2. DOMAIN KidsOf(file, m) = {}
    BY <1>6, <2>1
  <2>. QED
    BY <1>5, <2>2 DEF Reachable
<1>9. ListAt(file, m) = {2}
  <2>1. ListAt(file, m) = 2 .. (2 + 1 - 1)
    BY <1>5, <1>6 DEF ListAt
  <2>. QED
    BY <2>1
<1>10. Version(file, m)
  <2>1. Used(file, m) = {2, 3}
    BY <1>8, <1>9 DEF Used
  <2>2. \A x \in 2 .. (m.hwm - 1) : x \in {2, 3}
    BY <1>5
  <2>3. file[m.list].ids = (2 .. (m.hwm - 1)) \ Used(file, m)
    BY <1>5, <1>6, <2>1, <2>2
  <2>4. \A p \in 0 .. (m.hwm - 1) : file[p].kind # "zero"
    <3>1. \A p \in 0 .. (m.hwm - 1) : p \in {0, 1, 2, 3}
      BY <1>5
    <3>2. file[0].kind = "meta" /\ file[1].kind = "meta"
      BY <1>3 DEF MetaPages
    <3>. QED
      BY <1>6, <3>1, <3>2
  <2>5. m.list \in 2 .. (m.hwm - 1) /\ m.list + file[m.list].pages <= m.hwm
        /\ file[m.list].pages \in Nat \ {0} /\ file[m.list].kind = "list"
    BY <1>5, <1>6
  <2>6. ListAt(file, m) \cap Reachable(file, m) = {}
    BY <1>8, <1>9
  <2>. QED
    BY <1>7, <2>3, <2>4, <2>5, <2>6 DEF Version
<1>11. Sound(file)
  BY <1>2, <1>4, <1>10 DEF Sound, m
<1>12. freelist = [ids |-> Listed, pending |-> << >>]
  <2>1. Listed = {}
    BY <1>5, <1>6 DEF Listed, m
  <2>. QED
    BY <2>1 DEF Init, EmptyFreelist
<1>13. datasz \in Nat /\ datasz >= 4
  <2>1. 4 \in 0 .. (LastPage + 2)
    BY BoltAssumption
  <2>. QED
    BY <2>1, MapSizeSuffices DEF Init
<1>14. \A p \in Pgid : file[p].kind # "zero" => p < datasz
  <2>1. \A p \in Pgid : file[p].kind # "zero" => p \in {0, 1, 2, 3}
    BY <1>2 DEF Zero
  <2>. QED
    BY <1>13, <2>1
<1>. QED
  BY <1>2, <1>11, <1>12, <1>13, <1>14, BoltAssumption DEF Opened, Init

\* Whatever a crash leaves of the pages that were not synced, the file holds the
\* newest version, or the one on disk if the last sync was under way.
LEMMA CrashFinds ==
    ASSUME IInv, NEW h, DOMAIN h = Pgid, \A p \in Pgid : h[p] = file[p] \/ h[p] = disk[p]
    PROVE  /\ Sound(h)
           /\ \/ Content(h, Newest(h)) = Published
              \/ wpc = "commit" /\ Content(h, Newest(h)) = Content(disk, Newest(disk))
<1>1. CASE wpc # "commit"
  <2>1. /\ disk[0] = file[0] /\ disk[1] = file[1]
        /\ \A p \in Used(file, Base) : disk[p] = file[p]
        /\ \A p \in 0 .. (Base.hwm - 1) : disk[p].kind # "zero"
    BY <1>1 DEF IInv, DiskFits, Base
  <2>2. /\ Base.hwm \in Nat /\ Base.hwm <= LastPage + 1 /\ Version(file, Base)
        /\ Used(file, Base) \subseteq 2 .. (Base.hwm - 1)
    BY BaseFacts DEF IInv
  <2>3. \A p \in 0 .. (Base.hwm - 1) : p \in Pgid
    BY <2>2, BoltAssumption DEF Pgid
  <2>4. 0 \in Pgid /\ 1 \in Pgid /\ Used(file, Base) \subseteq Pgid
    BY <2>2, BoltAssumption DEF Pgid
  <2>5. \A p \in 0 .. (Base.hwm - 1) : h[p].kind # "zero"
    BY <2>1, <2>2, <2>3 DEF Version
  <2>6. h[0] = file[0] /\ h[1] = file[1] /\ \A p \in Used(file, Base) : h[p] = file[p]
    BY <2>1, <2>4
  <2>. QED
    BY <2>5, <2>6, SoundStays DEF IInv, Base, Published
<1>2. CASE wpc = "commit"
  <2>. DEFINE i == MetaPage(tx.txid)
  <2>1. Sound(disk) /\ \A p \in Pgid \ {i} : disk[p] = file[p]
    BY <1>2 DEF IInv, DiskFits
  <2>2. ASSUME NEW g, Sound(g), \A p \in Pgid : h[p] = g[p]
        PROVE  Sound(h) /\ Content(h, Newest(h)) = Content(g, Newest(g))
    <3>1. /\ Newest(g).hwm \in Nat /\ Newest(g).hwm <= LastPage + 1 /\ Version(g, Newest(g))
          /\ Used(g, Newest(g)) \subseteq 2 .. (Newest(g).hwm - 1)
      BY <2>2, NewestIsOneOfTwo, VersionFacts DEF Sound, MetaPages
    <3>2. \A p \in 0 .. (Newest(g).hwm - 1) : p \in Pgid
      BY <3>1, BoltAssumption DEF Pgid
    <3>3. 0 \in Pgid /\ 1 \in Pgid /\ Used(g, Newest(g)) \subseteq Pgid
      BY <3>1, BoltAssumption DEF Pgid
    <3>4. \A p \in 0 .. (Newest(g).hwm - 1) : h[p].kind # "zero"
      BY <2>2, <3>1, <3>2 DEF Version
    <3>. QED
      BY <2>2, <3>3, <3>4, SoundStays
  <2>3. CASE \A p \in Pgid : h[p] = file[p]
    BY <2>2, <2>3 DEF IInv, Published
  <2>4. CASE ~\A p \in Pgid : h[p] = file[p]
    <3>1. \A p \in Pgid : h[p] = disk[p]
      BY <2>1, <2>4
    <3>. QED
      BY <1>2, <2>1, <2>2, <3>1
  <2>. QED
    BY <2>3, <2>4
<1>. QED
  BY <1>1, <1>2

LEMMA CrashKeeps ==
    ASSUME Regular, IInv, Crash
    PROVE  IInv'
<1>1. PICK lost \in SUBSET {p \in Pgid : file[p] # disk[p]} :
         /\ file' = [p \in Pgid |-> IF p \in lost THEN disk[p] ELSE file[p]]
         /\ disk' = file'
         /\ datasz' = MapSize(FileSize(file'))
         /\ freelist' = Read(file'[Newest(file').list].ids)
  BY DEF Crash
<1>2. /\ reader' = [r \in Readers |-> [pc |-> "idle", at |-> 0, meta |-> NoMeta]]
      /\ wpc' = "idle" /\ tx' = NoTx /\ troubles' = troubles + 1 /\ troubles < MaxTroubles
  BY DEF Crash
<1>3. troubles' \in 0 .. MaxTroubles
  BY <1>2, BoltAssumption DEF IInv, WriterTypes
<1>. DEFINE h == file'
<1>4. DOMAIN h = Pgid /\ \A p \in Pgid : h[p] = file[p] \/ h[p] = disk[p]
  BY <1>1
<1>. HIDE DEF h
<1>5. Sound(h)
  BY <1>4, CrashFinds
<1>6. Sound(file)' /\ Listed' = h[Newest(h).list].ids
  BY <1>5 DEF h, Sound, Metas, Version, Tree, Used, Reachable, ListAt, KidsOf, Newest, NewestAt, Listed
<1>7. h[Newest(h).list].ids \subseteq 2 .. LastPage
  BY <1>5, NewestIsOneOfTwo, VersionFacts DEF Sound, MetaPages
<1>8. freelist' = [ids |-> Listed', pending |-> << >>]
  <2>1. ReadList(h[Newest(h).list].ids) = h[Newest(h).list].ids
    BY <1>7, ReadListReadsAll
  <2>2. freelist' = Read(h[Newest(h).list].ids)
    BY <1>1 DEF h
  <2>. QED
    BY <1>6, <2>1, <2>2 DEF Read, EmptyFreelist
<1>9. datasz' \in Nat /\ \A p \in Pgid : h[p].kind # "zero" => p < datasz'
  <2>1. 0 \in Pgid /\ h[0].kind # "zero"
    BY <1>5, BoltAssumption DEF Sound, Metas, MetaPages, Pgid
  <2>2. /\ FileSize(h) \in 1 .. (LastPage + 1)
        /\ \A p \in Pgid : h[p].kind # "zero" => p < FileSize(h)
    BY <2>1, FileSizeCovers
  <2>3. FileSize(h) \in 0 .. (LastPage + 2)
    BY <2>2, BoltAssumption
  <2>4. datasz' = MapSize(FileSize(h))
    BY <1>1 DEF h
  <2>5. datasz' \in Nat /\ datasz' >= FileSize(h)
    BY <2>3, <2>4, MapSizeSuffices
  <2>. QED
    BY <2>2, <2>5, BoltAssumption DEF Pgid
<1>10. Opened'
  BY <1>1, <1>2, <1>3, <1>6, <1>8, <1>9 DEF Opened, h
<1>. QED
  BY <1>10, OpenedFits, PTL

-----------------------------------------------------------------------------
(* The invariant holds *)

LEMMA StutterKeeps ==
    ASSUME IInv, UNCHANGED vars
    PROVE  IInv'
<1>1. /\ Listed' = Listed /\ Stage' = Stage /\ KidPages' = KidPages /\ NewMeta' = NewMeta
      /\ After' = After /\ Own' = Own /\ Kept' = Kept /\ Reusable' = Reusable /\ Asked' = Asked
  BY DEF vars, Listed, Stage, KidPages, NewMeta, After, Own, Kept, Reusable, Asked, FreedList
<1>2. /\ Sound(file)' /\ WriterTypes' /\ FreelistFits' /\ DirtyFits' /\ NodesFit' /\ VersionFits'
      /\ DiskFits' /\ MapFits'
  BY <1>1 DEF vars, IInv, WriterTypes, FreelistFits, DirtyFits, NodesFit, VersionFits,
              DiskFits, MapFits, LeavesFit
<1>3. ReadersFit'
  <2>1. \A m : Safe(m) => Safe(m)'
    BY <1>1 DEF Safe, vars
  <2>2. ASSUME NEW r \in Readers
        PROVE  /\ reader'[r].pc = "copy" => reader'[r].at = NewestAt(file)' \/ wpc' \in {"idle", "commit"}
               /\ HoldsMap(r)' => Safe(VersionOf(r))'
    <3>1. reader[r].pc = "copy" => reader[r].at = NewestAt(file) \/ wpc \in {"idle", "commit"}
      BY DEF IInv, ReadersFit
    <3>2. HoldsMap(r)' => Safe(VersionOf(r)) /\ VersionOf(r)' = VersionOf(r)
      BY DEF IInv, ReadersFit, HoldsMap, VersionOf, vars
    <3>3. \A m : m = VersionOf(r)' /\ Safe(m)' => Safe(VersionOf(r))'
      BY DEF Safe
    <3>. QED
      BY <2>1, <3>1, <3>2, <3>3 DEF vars
  <2>. QED
    BY <2>2 DEF vars, IInv, ReadersFit
<1>. QED
  BY <1>2, <1>3 DEF IInv

LEMMA NextKeeps ==
    ASSUME Regular, IInv, [Next]_vars
    PROVE  IInv'
<1>1. CASE BeginRW
  BY <1>1, BeginRWKeeps
<1>2. CASE \E c \in Changes : Body(c.puts, c.dels)
  BY <1>2, BodyKeeps
<1>3. CASE SpillLeaf
  BY <1>3, SpillLeafKeeps
<1>4. CASE SpillRoot
  BY <1>4, SpillRootKeeps
<1>5. CASE SpillList
  BY <1>5, SpillListKeeps
<1>6. CASE AskForMap
  BY <1>6, AskForMapKeeps
<1>7. CASE Remap
  BY <1>7, RemapKeeps
<1>8. CASE WriteDirty
  BY <1>8, WriteDirtyKeeps
<1>9. CASE SyncDirty
  BY <1>9, SyncDirtyKeeps
<1>10. CASE WriteMeta
  BY <1>10, WriteMetaKeeps
<1>11. CASE SyncMeta
  BY <1>11, SyncMetaKeeps
<1>12. CASE BodyFails
  BY <1>12, BodyFailsKeeps
<1>13. CASE CallFails
  BY <1>13, CallFailsKeeps
<1>14. CASE Crash
  BY <1>14, CrashKeeps
<1>15. CASE \E r \in Readers : LockMeta(r) \/ ViewRuns(r) \/ RemoveTx(r)
  BY <1>15, ReaderStepKeeps
<1>16. CASE UNCHANGED vars
  BY <1>16, StutterKeeps
<1>. QED
  BY <1>1, <1>2, <1>3, <1>4, <1>5, <1>6, <1>7, <1>8, <1>9, <1>10, <1>11, <1>12, <1>13, <1>14,
     <1>15, <1>16 DEF Next, Writing, Committing

LEMMA Invariance ==
    ASSUME Regular
    PROVE  Spec => []IInv
<1>1. Init => IInv
  BY InitKeeps
<1>2. IInv /\ [Next]_vars => IInv'
  BY NextKeeps
<1>. QED
  BY <1>1, <1>2, PTL DEF Spec

LEMMA TypesFollow == IInv => BoltTypeOK
<1>. SUFFICES ASSUME IInv PROVE BoltTypeOK
  OBVIOUS
<1>1. \A f \in {file, disk} : f[0].kind = "meta" /\ f[1].kind = "meta"
  <2>1. \A f : Sound(f) => f[0].kind = "meta" /\ f[1].kind = "meta"
    BY DEF Sound, Metas, MetaPages
  <2>2. Sound(disk) \/ (disk[0] = file[0] /\ disk[1] = file[1])
    BY DEF IInv, DiskFits
  <2>. QED
    BY <2>1, <2>2 DEF IInv
<1>2. freelist.ids \subseteq 2 .. LastPage /\ AllPending(freelist) \subseteq 2 .. LastPage
  BY PagesFacts DEF All
<1>3. 2 .. LastPage \subseteq Pgid \ {0, 1}
  BY BoltAssumption DEF Pgid
<1>4. \A t \in DOMAIN freelist.pending : freelist.pending[t] \subseteq 2 .. LastPage
  BY <1>2, PendingOne
<1>5. \A r \in Readers :
          /\ reader[r].pc \in {"idle", "map", "copy", "read", "remove"}
          /\ reader[r].at \in {0, 1}
          /\ reader[r].meta.txid \in Txid
  BY DEF IInv, ReadersFit, ReaderAt, MetaPages
<1>6. DOMAIN freelist.pending \subseteq Txid /\ datasz \in Nat
  BY DEF IInv, FreelistFits, MapFits
<1>7. /\ wpc \in {"idle", "body", "spill", "list", "remap", "write", "sync", "meta", "commit"}
      /\ tx.txid \in Txid /\ tx.puts \subseteq Keys /\ DOMAIN tx.dirty \subseteq Pgid
      /\ troubles \in 0 .. MaxTroubles
  BY DEF IInv, WriterTypes, TxRecord, Before
<1>. QED
  BY <1>1, <1>2, <1>3, <1>4, <1>5, <1>6, <1>7 DEF BoltTypeOK

\* Types: the first two pages are meta pages, the list never holds them, readers
\* and the writer are at a step of theirs.
THEOREM TypeCorrect ==
    ASSUME Regular
    PROVE  Spec => []BoltTypeOK
BY Invariance, TypesFollow, PTL

LEMMA PartitionFollows == IInv => PagesPartitioned
<1>. SUFFICES ASSUME IInv PROVE PagesPartitioned
  OBVIOUS
<1>1. FreedOnce
  BY DEF IInv, FreelistFits, FreedOnce
<1>2. ASSUME wpc = "idle" PROVE Partitioned(Newest(file))
  <2>1. All(freelist) = Listed
    BY <1>2 DEF IInv, FreelistFits
  <2>2. /\ Listed = (2 .. (Base.hwm - 1)) \ Used(file, Base)
        /\ Used(file, Base) \subseteq 2 .. (Base.hwm - 1)
        /\ Reachable(file, Base) \cup ListAt(file, Base) = Used(file, Base)
        /\ Reachable(file, Base) \cap ListAt(file, Base) = {}
    BY BaseFacts DEF IInv
  <2>3. Partitioned(Base)
    BY <2>1, <2>2 DEF Partitioned
  <2>. QED
    BY <2>3 DEF Base
<1>. QED
  BY <1>1, <1>2 DEF PagesPartitioned

\* Tx.check: no page is freed twice, and between write transactions each page below
\* the high water mark is either used by the newest version or on the list
\* (tx.go:326-395), also after a rollback or a crash.
THEOREM EveryPageHasOneOwner ==
    ASSUME Regular
    PROVE  Spec => []PagesPartitioned
BY Invariance, PartitionFollows, PTL

LEMMA NothingReclaimed == IInv => NothingInUseIsReclaimed
<1>. SUFFICES ASSUME IInv, NEW r \in Readers, HoldsMap(r), r \in Txs
              PROVE  Reachable(file, reader[r].meta) \cap (freelist.ids \cup DOMAIN tx.dirty) = {}
  BY DEF NothingInUseIsReclaimed, InUse
<1>1. reader[r].pc = "read"
  BY DEF HoldsMap, Txs
<1>2. Safe(reader[r].meta) /\ reader[r].meta \in MetaPages
  BY <1>1 DEF IInv, ReadersFit, ReaderAt, VersionOf
<1>3. Reachable(file, reader[r].meta) \cap freelist.ids = {}
  BY <1>2, PagesFacts DEF Safe
<1>4. Reachable(file, reader[r].meta) \cap DOMAIN tx.dirty = {}
  BY <1>2, PagesFacts
<1>. QED
  BY <1>3, <1>4

\* What a reader looks at is neither free nor given to the writer until its
\* transaction ends (tx.go:20-22, db.go:482-491).
THEOREM ReadersKeepTheirPages ==
    ASSUME Regular
    PROVE  Spec => []NothingInUseIsReclaimed
BY Invariance, NothingReclaimed, PTL

LEMMA MappedFollows == IInv => UsedIsMapped
<1>. SUFFICES ASSUME IInv, NEW p \in Pgid, p < Newest(file).hwm PROVE p < datasz
  BY DEF UsedIsMapped
<1>1. Version(file, Base) /\ Base.hwm \in Nat /\ p \in 0 .. (Base.hwm - 1)
  BY BaseFacts, BoltAssumption DEF IInv, Base, Pgid
<1>2. file[p].kind # "zero"
  BY <1>1 DEF Version
<1>. QED
  BY <1>2 DEF IInv, MapFits

\* Every page that the newest version uses is mapped: allocate grows the map before
\* it places a page behind the last (db.go:632-656).
THEOREM UsedPagesAreMapped ==
    ASSUME Regular
    PROVE  Spec => []UsedIsMapped
BY Invariance, MappedFollows, PTL

-----------------------------------------------------------------------------
(* The transactions implement the promise *)

Acked == IF wpc = "commit" THEN Content(disk, Newest(disk)) ELSE Published
Draft == IF wpc = "idle" THEN Published ELSE tx.draft
Views == [r \in Readers |-> View(r)]

promised == <<Published, Acked, Draft, Views>>

\* An unpublished version that was not lost is the version that is acknowledged.
LEMMA AckedIsPublished ==
    ASSUME wpc # "commit"
    PROVE  Acked = Published
BY DEF Acked

\* What a reader sees stays when the pages it looks at do.
LEMMA ViewsStay ==
    ASSUME IInv, reader' = reader,
           \A p \in (2 .. LastPage) \ DOMAIN tx.dirty : file'[p] = file[p],
           \A r \in Readers : reader[r].pc = "copy" => file'[reader[r].at] = file[reader[r].at]
    PROVE  Views' = Views
<1>1. ASSUME NEW r \in Readers PROVE View(r)' = View(r)
  <2>1. CASE ~HoldsMap(r)
    BY <2>1 DEF View, HoldsMap
  <2>2. CASE HoldsMap(r)
    <3>. PICK m : m = VersionOf(r)
      OBVIOUS
    <3>1. Safe(m) /\ reader[r] \in ReaderAt
      BY <2>2 DEF IInv, ReadersFit
    <3>2. /\ file[0] \in MetaPages /\ file[1] \in MetaPages /\ Base.hwm \in Nat
          /\ Base.hwm <= LastPage + 1
      BY BaseFacts DEF IInv, Sound, Metas
    <3>3. m \in MetaPages
      BY <3>1, <3>2 DEF VersionOf, ReaderAt
    <3>4. Tree(file, m) /\ m.hwm <= Base.hwm /\ m.hwm \in Nat
      BY <3>1, <3>3 DEF Safe, Base, MetaPages
    <3>5. Reachable(file, m) \subseteq (2 .. LastPage) \ DOMAIN tx.dirty
      <4>1. Reachable(file, m) \subseteq 2 .. (m.hwm - 1)
        BY <3>4, TreeFacts
      <4>2. 2 .. (m.hwm - 1) \subseteq 2 .. LastPage
        BY <3>2, <3>4, BoltAssumption
      <4>. QED
        BY <3>1, <3>3, <4>1, <4>2, PagesFacts
    <3>6. Content(file', m) = Content(file, m)
      BY <3>4, <3>5, TreeStays
    <3>7. View(r) = Content(file, m)
      BY <2>2 DEF View, HoldsMap, VersionOf
    <3>8. VersionOf(r)' = m /\ HoldsMap(r)'
      BY <2>2 DEF VersionOf, HoldsMap
    <3>9. View(r)' = Content(file', m)
      <4>1. CASE reader[r].pc = "copy"
        <5>1. View(r)' = Content(file, file[reader[r].at])'
          BY <4>1 DEF View
        <5>2. Content(file, file[reader[r].at])' = Content(file', file'[reader[r].at])
          BY DEF Content, KidsOf, ValueAt
        <5>3. file'[reader[r].at] = m
          BY <3>8, <4>1 DEF VersionOf
        <5>. QED
          BY <5>1, <5>2, <5>3
      <4>2. CASE reader[r].pc = "read"
        <5>1. View(r)' = Content(file, reader[r].meta)'
          BY <4>2 DEF View
        <5>2. Content(file, reader[r].meta)' = Content(file', reader[r].meta)
          BY DEF Content, KidsOf, ValueAt
        <5>3. reader[r].meta = m
          BY <4>2 DEF VersionOf
        <5>. QED
          BY <5>1, <5>2, <5>3
      <4>. QED
        BY <2>2, <4>1, <4>2 DEF HoldsMap
    <3>. QED
      BY <3>6, <3>7, <3>9
  <2>. QED
    BY <2>1, <2>2
<1>. QED
  BY <1>1 DEF Views

\* Steps that leave the file alone.
LEMMA PublishedStays ==
    ASSUME file' = file
    PROVE  Published' = Published
BY DEF Published, Content, KidsOf, ValueAt

LEMMA ViewsUnchanged ==
    ASSUME IInv, file' = file, reader' = reader
    PROVE  Views' = Views
BY ViewsStay

\* A step of a reader is one of the promise, or none.
LEMMA ReaderStepSimulates ==
    ASSUME IInv, NEW r \in Readers, LockMeta(r) \/ ViewRuns(r) \/ RemoveTx(r)
    PROVE  \/ UNCHANGED promised
           \/ Promise!BeginView(r) \/ Promise!EndView(r)
<1>1. file' = file /\ disk' = disk /\ wpc' = wpc /\ tx' = tx
  BY DEF LockMeta, ViewRuns, LockMap, CopyMeta, UnlockMap, RemoveTx
<1>2. Published' = Published
  BY <1>1, PublishedStays
<1>3. Acked' = Acked /\ Draft' = Draft
  <2>1. Content(disk, Newest(disk))' = Content(disk, Newest(disk))
    BY <1>1 DEF Content, KidsOf, ValueAt
  <2>. QED
    BY <1>1, <1>2, <2>1 DEF Acked, Draft
<1>4. reader \in [Readers -> ReaderAt]
  BY DEF IInv, ReadersFit
<1>5. ASSUME NEW q \in Readers \ {r} PROVE View(q)' = View(q)
  <2>1. reader'[q] = reader[q]
    BY <1>4 DEF LockMeta, ViewRuns, LockMap, CopyMeta, UnlockMap, RemoveTx
  <2>. QED
    BY <1>1, <2>1 DEF View, Content, KidsOf, ValueAt
<1>6. Views' = [Views EXCEPT ![r] = View(r)']
  BY <1>5 DEF Views
<1>7. ASSUME View(r)' = View(r) PROVE UNCHANGED promised
  <2>1. Views' = Views
    BY <1>5, <1>7 DEF Views
  <2>. QED
    BY <1>2, <1>3, <2>1 DEF promised
<1>8. CASE LockMeta(r)
  <2>1. reader[r].pc = "idle" /\ reader'[r].pc = "map"
    BY <1>4, <1>8 DEF LockMeta, ReaderAt
  <2>. QED
    BY <1>7, <2>1 DEF View
<1>9. CASE LockMap(r)
  <2>1. reader[r].pc = "map" /\ reader'[r].pc = "copy" /\ reader'[r].at = NewestAt(file)
    BY <1>4, <1>9 DEF LockMap, ReaderAt
  <2>2. View(r) = << 0 >>
    BY <2>1 DEF View
  <2>3. View(r)' = Content(file, file[reader[r].at])'
    BY <2>1 DEF View
  <2>4. View(r)' = Published
    <3>1. Content(file, file[reader[r].at])' = Content(file', file'[reader'[r].at])
      BY DEF Content, KidsOf, ValueAt
    <3>2. file'[reader'[r].at] = Newest(file)
      BY <1>1, <2>1 DEF Newest
    <3>. QED
      BY <1>1, <2>3, <3>1, <3>2 DEF Published
  <2>5. Promise!BeginView(r)
    BY <1>2, <1>3, <1>6, <2>2, <2>4 DEF Promise!BeginView, Views, Acked, Draft
  <2>. QED
    BY <2>5
<1>10. CASE CopyMeta(r)
  <2>1. /\ reader[r].pc = "copy" /\ reader'[r].pc = "read"
        /\ reader'[r].meta = file[reader[r].at]
    BY <1>4, <1>10 DEF CopyMeta, ReaderAt
  <2>2. View(r) = Content(file, file[reader[r].at])
    BY <2>1 DEF View
  <2>3. View(r)' = Content(file', reader'[r].meta)
    <3>1. View(r)' = Content(file, reader[r].meta)'
      BY <2>1 DEF View
    <3>2. Content(file, reader[r].meta)' = Content(file', reader'[r].meta)
      BY DEF Content, KidsOf, ValueAt
    <3>. QED
      BY <3>1, <3>2
  <2>. QED
    BY <1>1, <1>7, <2>1, <2>2, <2>3
<1>11. CASE UnlockMap(r)
  <2>1. reader'[r].pc = "remove"
    BY <1>4, <1>11 DEF UnlockMap, ReaderAt
  <2>2. View(r)' = << 0 >>
    BY <2>1 DEF View
  <2>3. Promise!EndView(r)
    BY <1>2, <1>3, <1>6, <2>2 DEF Promise!EndView, Views, Acked, Draft
  <2>. QED
    BY <2>3
<1>12. CASE RemoveTx(r)
  <2>1. reader[r].pc = "remove" /\ reader'[r].pc = "idle"
    BY <1>4, <1>12 DEF RemoveTx, ReaderAt
  <2>. QED
    BY <1>7, <2>1 DEF View
<1>. QED
  BY <1>8, <1>9, <1>10, <1>11, <1>12 DEF ViewRuns

\* The steps in which the writer prepares and writes its pages are not seen.
LEMMA QuietStepSimulates ==
    ASSUME IInv, \/ BeginRW \/ SpillLeaf \/ SpillRoot \/ SpillList \/ AskForMap \/ Remap
                 \/ WriteDirty \/ SyncDirty
    PROVE  UNCHANGED promised
<1>1. wpc # "commit" /\ wpc' # "commit" /\ reader' = reader
  BY DEF IInv, WriterTypes, BeginRW, SpillLeaf, SpillRoot, SpillList, AskForMap, NeedsMap,
         Remap, WriteDirty, SyncDirty
<1>2. Published' = Published /\ Views' = Views
  <2>1. CASE file' = file
    BY <1>1, <2>1, PublishedStays, ViewsUnchanged
  <2>2. CASE WriteDirty
    <3>1. Stage \in Before
      BY <2>2 DEF WriteDirty, Stage, Before
    <3>2. file' = [p \in Pgid |-> IF p \in DOMAIN tx.dirty THEN tx.dirty[p] ELSE file[p]]
      BY <2>2 DEF WriteDirty, Write
    <3>3. DOMAIN file' = Pgid
      BY <3>2
    <3>4. ASSUME NEW p \in Pgid
          PROVE  file'[p] = file[p] \/ (p \in DOMAIN tx.dirty /\ file'[p].kind # "zero")
      <4>1. CASE p \in DOMAIN tx.dirty
        <5>1. file'[p] = tx.dirty[p] /\ tx.dirty[p].kind # "zero"
          BY <3>1, <3>2, <4>1, DirtyIsMapped
        <5>. QED
          BY <4>1, <5>1
      <4>2. CASE p \notin DOMAIN tx.dirty
        BY <3>2, <4>2
      <4>. QED
        BY <4>1, <4>2
    <3>5. /\ file'[0] = file[0] /\ file'[1] = file[1]
          /\ Content(file, Newest(file))' = Content(file, Base)
          /\ \A p \in Pgid \ DOMAIN tx.dirty : file'[p] = file[p]
      BY <3>3, <3>4, BaseStays
    <3>6. Published' = Published
      BY <3>5 DEF Published, Base
    <3>7. \A p \in (2 .. LastPage) \ DOMAIN tx.dirty : file'[p] = file[p]
      <4>1. 2 .. LastPage \subseteq Pgid
        BY BoltAssumption DEF Pgid
      <4>. QED
        BY <3>5, <4>1
    <3>8. \A r \in Readers : reader[r].at \in {0, 1}
      BY DEF IInv, ReadersFit, ReaderAt
    <3>. QED
      BY <1>1, <3>5, <3>6, <3>7, <3>8, ViewsStay
  <2>. QED
    BY <2>1, <2>2 DEF BeginRW, SpillLeaf, SpillRoot, SpillList, AskForMap, Remap, SyncDirty
<1>3. Acked' = Acked
  <2>1. Acked = Published /\ Acked' = Published'
    BY <1>1 DEF Acked
  <2>. QED
    BY <1>2, <2>1
<1>4. Draft' = Draft
  <2>1. CASE BeginRW
    <3>1. wpc = "idle" /\ wpc' = "body" /\ tx'.draft = Content(file, Newest(file))
      BY <2>1 DEF BeginRW, NoTx
    <3>. QED
      BY <3>1 DEF Draft, Published
  <2>2. CASE ~BeginRW
    <3>1. TxRecord(tx)
      BY DEF IInv, WriterTypes
    <3>2. wpc # "idle" /\ wpc' # "idle"
      BY <2>2 DEF IInv, WriterTypes, SpillLeaf, SpillRoot, SpillList, AskForMap, NeedsMap,
             Remap, WriteDirty, SyncDirty
    <3>3. tx'.draft = tx.draft
      <4>1. CASE SpillLeaf
        BY <3>1, <4>1 DEF SpillLeaf, Spill, TxRecord
      <4>2. CASE SpillRoot
        BY <3>1, <4>2 DEF SpillRoot, Spill, TxRecord
      <4>3. CASE SpillList
        BY <3>1, <4>3 DEF SpillList, TxRecord
      <4>4. CASE AskForMap \/ Remap \/ SyncDirty \/ WriteDirty
        BY <3>1, <4>4 DEF AskForMap, Remap, SyncDirty, WriteDirty, TxRecord
      <4>. QED
        BY <2>2, <4>1, <4>2, <4>3, <4>4
    <3>. QED
      BY <3>2, <3>3 DEF Draft
  <2>. QED
    BY <2>1, <2>2
<1>. QED
  BY <1>2, <1>3, <1>4 DEF promised

\* What the function of the transaction does, the commit, and what fails.
LEMMA WriterStepSimulates ==
    ASSUME IInv, IInv', Regular,
           \/ \E c \in Changes : Body(c.puts, c.dels)
           \/ WriteMeta \/ SyncMeta \/ BodyFails \/ CallFails \/ Crash
    PROVE  Promise!Change \/ Promise!Publish \/ Promise!Acknowledge \/ Promise!Forget
           \/ Promise!Crash
<1>1. CASE \E c \in Changes : Body(c.puts, c.dels)
  <2>1. wpc = "body" /\ wpc' = "spill" /\ file' = file /\ reader' = reader
    BY <1>1 DEF Body
  <2>2. Published' = Published /\ Views' = Views /\ Acked' = Published' /\ Acked = Published
    BY <2>1, PublishedStays, ViewsUnchanged DEF Acked
  <2>3. Draft' \in Promise!Versions
    <3>1. TxRecord(tx)'
      BY DEF IInv, WriterTypes
    <3>2. tx'.draft \in Promise!Versions
      BY <3>1 DEF TxRecord
    <3>. QED
      BY <2>1, <3>2 DEF Draft
  <2>4. Promise!Change
    BY <2>2, <2>3 DEF Promise!Change, Acked, Draft, Views
  <2>. QED
    BY <2>4
<1>2. CASE WriteMeta
  <2>1. /\ wpc = "meta" /\ wpc' = "commit" /\ disk' = disk /\ reader' = reader /\ tx' = tx
        /\ file' = [file EXCEPT ![MetaPage(tx.txid)] = NewMeta]
    BY <1>2 DEF WriteMeta, NewMeta
  <2>2. tx'.draft = Published'
    BY <2>1 DEF IInv, VersionFits, Published
  <2>3. Draft = tx.draft /\ Draft' = tx.draft /\ Published' = tx.draft
    BY <2>1, <2>2 DEF Draft
  <2>4. Acked' = Published /\ Acked = Published
    <3>1. DOMAIN disk = Pgid /\ \A p \in Pgid : disk[p] = file[p]
      BY <2>1 DEF IInv, DiskFits
    <3>2. Content(disk, Newest(disk)) = Published
      BY <2>1, <3>1, CrashFinds
    <3>3. Content(disk, Newest(disk))' = Content(disk, Newest(disk))
      BY <2>1 DEF Content, KidsOf, ValueAt
    <3>. QED
      BY <2>1, <3>2, <3>3 DEF Acked
  <2>5. MetaPage(tx.txid) \in {0, 1} /\ MetaPage(tx.txid) # NewestAt(file)
    <3>1. tx.txid = Base.txid + 1
      BY <2>1 DEF IInv, WriterTypes, Stage, Before, Base
    <3>2. Base.txid \in Nat /\ NewestAt(file) = Base.txid % 2
      BY BaseFacts DEF IInv
    <3>. QED
      BY <3>1, <3>2 DEF MetaPage
  <2>6. Views' = Views
    <3>1. \A p \in Pgid \ {MetaPage(tx.txid)} : file'[p] = file[p]
      BY <2>1 DEF IInv, Sound
    <3>2. \A p \in (2 .. LastPage) \ DOMAIN tx.dirty : file'[p] = file[p]
      <4>1. 2 .. LastPage \subseteq Pgid
        BY BoltAssumption DEF Pgid
      <4>. QED
        BY <2>5, <3>1, <4>1
    <3>3. \A r \in Readers : reader[r].pc = "copy" => file'[reader[r].at] = file[reader[r].at]
      <4>1. \A r \in Readers : reader[r].pc = "copy" => reader[r].at = NewestAt(file)
        BY <2>1 DEF IInv, ReadersFit
      <4>2. NewestAt(file) \in Pgid
        BY BaseFacts, BoltAssumption DEF IInv, Pgid
      <4>. QED
        BY <2>5, <3>1, <4>1, <4>2
    <3>. QED
      BY <2>1, <3>2, <3>3, ViewsStay
  <2>7. Promise!Publish
    BY <2>3, <2>4, <2>6 DEF Promise!Publish, Acked, Draft, Views
  <2>. QED
    BY <2>7
<1>3. CASE SyncMeta
  <2>1. wpc = "commit" /\ wpc' = "idle" /\ file' = file /\ reader' = reader
    BY <1>3 DEF SyncMeta
  <2>2. Published' = Published /\ Views' = Views
    BY <2>1, PublishedStays, ViewsUnchanged
  <2>3. Draft = Published
    BY <2>1 DEF IInv, VersionFits, Draft, Published
  <2>4. Draft' = Published' /\ Acked' = Published'
    BY <2>1 DEF Draft, Acked
  <2>5. Promise!Acknowledge
    BY <2>2, <2>3, <2>4 DEF Promise!Acknowledge, Acked, Draft, Views
  <2>. QED
    BY <2>5
<1>4. CASE BodyFails \/ CallFails
  <2>1. wpc # "commit" /\ wpc' = "idle" /\ reader' = reader
    BY <1>4 DEF BodyFails, CallFails, Abandon, Regular
  <2>2. Published' = Published /\ Views' = Views
    <3>1. CASE file' = file
      BY <2>1, <3>1, PublishedStays, ViewsUnchanged
    <3>2. ASSUME wpc = "write", NEW last \in DOMAIN tx.dirty,
                 Write({p \in DOMAIN tx.dirty : p < last})
          PROVE  <2>2!:
      <4>. DEFINE W == {p \in DOMAIN tx.dirty : p < last}
      <4>1. file' = [p \in Pgid |-> IF p \in W THEN tx.dirty[p] ELSE file[p]]
        BY <3>2 DEF Write
      <4>2. DOMAIN file' = Pgid /\ W \subseteq DOMAIN tx.dirty
        BY <4>1
      <4>. HIDE DEF W
      <4>3. Stage \in Before
        BY <3>2 DEF Stage, Before
      <4>4. ASSUME NEW p \in Pgid
            PROVE  file'[p] = file[p] \/ (p \in DOMAIN tx.dirty /\ file'[p].kind # "zero")
        <5>1. CASE p \in W
          <6>1. file'[p] = tx.dirty[p] /\ p \in DOMAIN tx.dirty
            BY <4>1, <4>2, <5>1
          <6>2. tx.dirty[p].kind # "zero"
            BY <4>3, <6>1, DirtyIsMapped
          <6>. QED
            BY <6>1, <6>2
        <5>2. CASE p \notin W
          BY <4>1, <5>2
        <5>. QED
          BY <5>1, <5>2
      <4>5. /\ file'[0] = file[0] /\ file'[1] = file[1]
            /\ Content(file, Newest(file))' = Content(file, Base)
            /\ \A p \in Pgid \ DOMAIN tx.dirty : file'[p] = file[p]
        BY <4>2, <4>4, BaseStays
      <4>6. Published' = Published
        BY <4>5 DEF Published, Base
      <4>7. \A p \in (2 .. LastPage) \ DOMAIN tx.dirty : file'[p] = file[p]
        <5>1. 2 .. LastPage \subseteq Pgid
          BY BoltAssumption DEF Pgid
        <5>. QED
          BY <4>5, <5>1
      <4>8. \A r \in Readers : reader[r].at \in {0, 1}
        BY DEF IInv, ReadersFit, ReaderAt
      <4>. QED
        BY <2>1, <4>5, <4>6, <4>7, <4>8, ViewsStay
    <3>. QED
      BY <1>4, <3>1, <3>2 DEF BodyFails, CallFails, Regular
  <2>3. Acked' = Published' /\ Acked = Published /\ Draft' = Published'
    BY <2>1 DEF Acked, Draft
  <2>4. Promise!Forget
    BY <2>2, <2>3 DEF Promise!Forget, Acked, Draft, Views
  <2>. QED
    BY <2>4
<1>5. CASE Crash
  <2>1. /\ wpc' = "idle"
        /\ reader' = [r \in Readers |-> [pc |-> "idle", at |-> 0, meta |-> NoMeta]]
    BY <1>5 DEF Crash
  <2>2. DOMAIN file' = Pgid /\ \A p \in Pgid : file'[p] = file[p] \/ file'[p] = disk[p]
    BY <1>5 DEF Crash
  <2>3. Content(file', Newest(file')) \in {Published, Acked}
    <3>. DEFINE h == file'
    <3>1. DOMAIN h = Pgid /\ \A p \in Pgid : h[p] = file[p] \/ h[p] = disk[p]
      BY <2>2
    <3>. HIDE DEF h
    <3>2. \/ Content(h, Newest(h)) = Published
          \/ wpc = "commit" /\ Content(h, Newest(h)) = Content(disk, Newest(disk))
      BY <3>1, CrashFinds
    <3>. QED
      BY <3>2 DEF Acked, h
  <2>4. Published' = Content(file', Newest(file'))
    BY DEF Published, Content, KidsOf, ValueAt, Newest, NewestAt
  <2>5. Acked' = Published' /\ Draft' = Published'
    BY <2>1 DEF Acked, Draft
  <2>6. Views' = [r \in Readers |-> << 0 >>]
    <3>1. \A r \in Readers : View(r)' = << 0 >>
      BY <2>1 DEF View
    <3>. QED
      BY <3>1 DEF Views
  <2>7. Promise!Crash
    BY <2>3, <2>4, <2>5, <2>6 DEF Promise!Crash, Acked, Draft, Views
  <2>. QED
    BY <2>7
<1>. QED
  BY <1>1, <1>2, <1>3, <1>4, <1>5

LEMMA InitSimulates == Init => Promise!Init
<1>. SUFFICES ASSUME Init PROVE Promise!Init
  OBVIOUS
<1>1. 1 \in Pgid /\ 0 \in Pgid /\ 3 \in Pgid
  BY BoltAssumption DEF Pgid
<1>2. file[0] = Meta(0, 3, 2, 4) /\ file[1] = Meta(1, 3, 2, 4) /\ file[3] = Root(<< >>)
  BY <1>1 DEF Init, NewFile
<1>3. NewestAt(file) = 1 /\ Newest(file).root = 3
  BY <1>2 DEF NewestAt, Newest, Meta
<1>4. KidsOf(file, Newest(file)) = << >>
  BY <1>2, <1>3 DEF KidsOf, Root
<1>5. DOMAIN KidsOf(file, Newest(file)) = {}
  BY <1>4
<1>6. Published = << >>
  BY <1>5 DEF Published, Content
<1>7. Acked = << >> /\ Draft = << >>
  BY <1>6 DEF Init, Acked, Draft
<1>8. Views = [r \in Readers |-> << 0 >>]
  BY DEF Init, Views, View
<1>. QED
  BY <1>6, <1>7, <1>8 DEF Promise!Init, Acked, Draft, Views

\* What the message store counts on: versions are published in one step and as the
\* transaction made them, a reader sees the version it began with until it ends, and
\* a crash keeps what was acknowledged (db.go:397-531, tx.go:138-239).
THEOREM TransactionsKeepThePromise ==
    ASSUME Regular
    PROVE  Spec => KeepsSnapshots
<1>1. Init => Promise!Init
  BY InitSimulates
<1>2. IInv /\ IInv' /\ [Next]_vars => [Promise!Next]_(Promise!abstract)
  <2>. SUFFICES ASSUME IInv, IInv', [Next]_vars
                PROVE  [Promise!Next]_(Promise!abstract)
    OBVIOUS
  <2>1. UNCHANGED promised => UNCHANGED Promise!abstract
    BY DEF promised, Promise!abstract, Acked, Draft, Views
  <2>2. CASE \E r \in Readers : LockMeta(r) \/ ViewRuns(r) \/ RemoveTx(r)
    BY <2>1, <2>2, ReaderStepSimulates DEF Promise!Next
  <2>3. CASE \/ BeginRW \/ SpillLeaf \/ SpillRoot \/ SpillList \/ AskForMap \/ Remap
             \/ WriteDirty \/ SyncDirty
    BY <2>1, <2>3, QuietStepSimulates
  <2>4. CASE \/ \E c \in Changes : Body(c.puts, c.dels)
             \/ WriteMeta \/ SyncMeta \/ BodyFails \/ CallFails \/ Crash
    BY <2>4, WriterStepSimulates DEF Promise!Next
  <2>5. CASE UNCHANGED vars
    <3>1. Published' = Published /\ Views' = Views
      BY <2>5, PublishedStays, ViewsUnchanged DEF vars
    <3>2. Content(disk, Newest(disk))' = Content(disk, Newest(disk))
      BY <2>5 DEF vars, Content, KidsOf, ValueAt
    <3>3. UNCHANGED promised
      BY <2>5, <3>1, <3>2 DEF vars, promised, Acked, Draft
    <3>. QED
      BY <2>1, <3>3
  <2>. QED
    BY <2>2, <2>3, <2>4, <2>5 DEF Next, Writing, Committing
<1>. QED
  BY <1>1, <1>2, Invariance, PTL DEF Spec, KeepsSnapshots, Promise!Spec
=============================================================================
