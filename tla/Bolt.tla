-------------------------------- MODULE Bolt --------------------------------
(***************************************************************************)
(* Transactions of boltdb (boltdb/bolt db.go, tx.go, freelist.go): one     *)
(* writer and several readers of a file of pages that is mapped into       *)
(* memory.  A writer never changes a page in use: it puts the new version  *)
(* on pages of the free list, or behind the last page, and then writes one *)
(* of the two meta pages.  The database is a root page with one leaf page  *)
(* per key, and a value is the id of the transaction that wrote it; the    *)
(* shape a tree really takes is in BoltTree.                               *)
(*                                                                         *)
(* What is written reaches file, which every transaction sees through the  *)
(* map; only what was synced is sure to be on disk after a crash.          *)
(***************************************************************************)
EXTENDS Freelist

CONSTANTS
    Readers, Keys,
    Changes,        \* what a transaction may do: the keys it puts and deletes
    MapSizes,       \* the sizes of maps: 32KB doubled to 1GB, then by 1GB
    LastPage,       \* bound on the pages of the file
    MaxTxid,        \* bound on the transactions that write
    MaxTroubles,    \* bound on crashes and on calls of the system that fail
    SyncMetaFails   \* whether the last call of a commit may be one of them

VARIABLES
    file,        \* the pages as pwrite and the map show them
    disk,        \* the pages as the last fdatasync left them
    freelist,    \* DB.freelist
    datasz,      \* the pages that are mapped
    reader,      \* per reader: where it is, and its copy of the meta page
    wpc,         \* where the writer is
    tx,          \* its transaction
    troubles

ASSUME BoltAssumption ==
    /\ Keys \subseteq Nat
    /\ \A c \in Changes : c.puts \subseteq Keys /\ c.dels \subseteq Keys \ c.puts
    /\ LastPage \in Nat /\ LastPage > 3 /\ MaxTxid \in Nat \ {0} /\ MaxTroubles \in Nat
    /\ MapSizes \subseteq Nat /\ \E size \in MapSizes : size > LastPage + 1
    /\ SyncMetaFails \in BOOLEAN

vars == <<file, disk, freelist, datasz, reader, wpc, tx, troubles>>

Pgid == 0 .. LastPage

-----------------------------------------------------------------------------
\* Pages.  A list that takes several pages has its ids on the first.
Zero     == [kind |-> "zero"]
Overflow == [kind |-> "overflow"]
Meta(txid, root, list, hwm) ==
    [kind |-> "meta", txid |-> txid, root |-> root, list |-> list, hwm |-> hwm]
Leaf(txid)     == [kind |-> "leaf", by |-> txid]
Root(kids)     == [kind |-> "root", kids |-> kids]
List(ids, n)   == [kind |-> "list", ids |-> ids, pages |-> n]

\* init: two meta pages, an empty list and an empty root page.
NewFile ==
    [p \in Pgid |-> CASE p = 0 -> Meta(0, 3, 2, 4)
                      [] p = 1 -> Meta(1, 3, 2, 4)
                      [] p = 2 -> List({}, 1)
                      [] p = 3 -> Root(<< >>)
                      [] OTHER -> Zero]

NewestAt(f) == IF f[0].txid > f[1].txid THEN 0 ELSE 1
Newest(f) == f[NewestAt(f)]

KidsOf(f, m) == IF f[m.root].kind = "root" THEN f[m.root].kids ELSE << >>

\* What a transaction that began with meta page m finds in file f.
ValueAt(f, p) == IF f[p].kind = "leaf" THEN f[p].by ELSE 0
Content(f, m) == [k \in DOMAIN KidsOf(f, m) |-> ValueAt(f, KidsOf(f, m)[k])]

\* Mutant: the overflow pages are taken to lie before the first.
ListBefore(f, m) == IF f[m.list].kind = "list" THEN (m.list - f[m.list].pages) .. (m.list - 1) ELSE {}

\* The pages of that version.
ListAt(f, m) == IF f[m.list].kind = "list" THEN m.list .. (m.list + f[m.list].pages - 1) ELSE {}
Reachable(f, m) == {m.root} \cup {KidsOf(f, m)[k] : k \in DOMAIN KidsOf(f, m)}

FileSize(f) == Greatest({p \in Pgid : f[p] # Zero}) + 1

\* mmapSize: the map has the smallest size that is enough.
MapSize(pages) == Least({size \in MapSizes : size >= pages})

-----------------------------------------------------------------------------
\* Who holds the map's read lock, the meta lock, and who is in DB.txs.
HoldsMap(r)  == reader[r].pc \in {"copy", "read"}
HoldsMeta(r) == reader[r].pc \in {"map", "copy"}
Txs          == {r \in Readers : reader[r].pc \in {"read", "remove"}}

NoMeta == Meta(0, 0, 0, 0)
NoTx == [txid |-> 0, root |-> 0, list |-> 0, hwm |-> 0, kids |-> << >>,
         puts |-> {}, draft |-> << >>, dirty |-> << >>, grown |-> FALSE,
         resume |-> ""]

Init ==
    /\ file = NewFile
    /\ disk = NewFile
    /\ freelist = EmptyFreelist
    /\ datasz = MapSize(4)
    /\ reader = [r \in Readers |-> [pc |-> "idle", at |-> 0, meta |-> NoMeta]]
    /\ wpc = "idle"
    /\ tx = NoTx
    /\ troubles = 0

-----------------------------------------------------------------------------
\* Readers.  beginTx takes the meta lock before the map's lock.
LockMeta(r) ==
    /\ reader[r].pc = "idle"
    /\ \A q \in Readers : ~HoldsMeta(q)
    /\ reader' = [reader EXCEPT ![r].pc = "map"]
    /\ UNCHANGED <<file, disk, freelist, datasz, wpc, tx, troubles>>

\* Mutant: a reader gets the map though the writer waits for it.
LockMapAtOnce(r) ==
    /\ reader[r].pc = "map"
    /\ reader' = [reader EXCEPT ![r] = [pc |-> "copy", at |-> NewestAt(file), meta |-> NoMeta]]
    /\ UNCHANGED <<file, disk, freelist, datasz, wpc, tx, troubles>>

\* A writer that waits for the map's lock keeps new readers out.  Tx.init then
\* compares the two meta pages, which the writer does not lock, and copies one.
LockMap(r) ==
    /\ reader[r].pc = "map"
    /\ wpc # "remap"
    /\ reader' = [reader EXCEPT ![r] = [pc |-> "copy", at |-> NewestAt(file), meta |-> NoMeta]]
    /\ UNCHANGED <<file, disk, freelist, datasz, wpc, tx, troubles>>

CopyMeta(r) ==
    /\ reader[r].pc = "copy"
    /\ reader' = [reader EXCEPT ![r] = [pc |-> "read", at |-> 0, meta |-> file[reader[r].at]]]
    /\ UNCHANGED <<file, disk, freelist, datasz, wpc, tx, troubles>>

\* removeTx gives up the map before it asks for the meta lock.
UnlockMap(r) ==
    /\ reader[r].pc = "read"
    /\ reader' = [reader EXCEPT ![r].pc = "remove"]
    /\ UNCHANGED <<file, disk, freelist, datasz, wpc, tx, troubles>>

RemoveTx(r) ==
    /\ reader[r].pc = "remove"
    /\ \A q \in Readers : ~HoldsMeta(q)
    /\ reader' = [reader EXCEPT ![r] = [pc |-> "idle", at |-> 0, meta |-> NoMeta]]
    /\ UNCHANGED <<file, disk, freelist, datasz, wpc, tx, troubles>>

-----------------------------------------------------------------------------
\* Mutant: the readers are not looked at.
ReleasedAll(f) == Release(f, MaxTxid)

\* What transactions older than every reader freed.
Released(f) ==
    IF Txs = {} THEN Release(f, MaxTxid)
    ELSE Release(f, Least({reader[r].meta.txid : r \in Txs}) - 1)

\* The writer.  beginRWTx copies the newest meta page and releases pages.
BeginRW ==
    /\ wpc = "idle"
    /\ \A q \in Readers : ~HoldsMeta(q)
    /\ LET m == Newest(file)
       IN  /\ m.txid < MaxTxid
           /\ tx' = [NoTx EXCEPT !.txid = m.txid + 1, !.root = m.root, !.list = m.list,
                                 !.hwm = m.hwm, !.kids = KidsOf(file, m),
                                 !.draft = Content(file, m)]
    /\ freelist' = Released(freelist)
    /\ wpc' = "body"
    /\ UNCHANGED <<file, disk, datasz, reader, troubles>>

\* The function of the transaction puts and deletes keys in its own nodes.
\* Commit starts with rebalance, which frees the leaves that are left empty.
Body(puts, dels) ==
    /\ wpc = "body"
    /\ dels \subseteq DOMAIN tx.kids
    /\ freelist' = Free(freelist, tx.txid, {tx.kids[k] : k \in dels})
    /\ tx' = [tx EXCEPT !.puts = puts,
                        !.kids = [k \in DOMAIN @ \ dels |-> @[k]],
                        !.draft = [k \in puts \cup (DOMAIN @ \ dels) |->
                                      IF k \in puts THEN tx.txid ELSE @[k]]]
    /\ wpc' = "spill"
    /\ UNCHANGED <<file, disk, datasz, reader, troubles>>

\* DB.allocate: a run of the free list, else pages behind the last, for which
\* the map may have to grow first.
\* Mutant: the map grows a page too late.
MustGrowLate(f, n) == Runs(f, n) = {} /\ ~tx.grown /\ tx.hwm + n > datasz + 1

MustGrow(f, n) == Runs(f, n) = {} /\ ~tx.grown /\ tx.hwm + n + 1 >= datasz
Place(f, n) == IF Runs(f, n) # {} THEN Least(Runs(f, n)) ELSE tx.hwm
ListAfter(f, n) == IF Runs(f, n) # {} THEN Allocate(f, n) ELSE f
HwmAfter(f, n) == IF Runs(f, n) # {} THEN tx.hwm ELSE tx.hwm + n

\* Bound: the file has room for what is placed.
HasRoom(f, n) == HwmAfter(f, n) <= LastPage + 1

\* A node gives up its old page and is written to a new one.
Spill(old, page, next) ==
    LET f == Free(freelist, tx.txid, old)
    IN  /\ ~MustGrow(f, 1) /\ HasRoom(f, 1)
        /\ freelist' = ListAfter(f, 1)
        /\ tx' = [next EXCEPT !.dirty = Assign(@, Place(f, 1), page),
                              !.hwm = HwmAfter(f, 1), !.grown = FALSE]

SpillLeaf ==
    /\ wpc = "spill"
    /\ tx.puts # {}
    /\ LET k   == Least(tx.puts)
           old == {tx.kids[j] : j \in {k} \cap DOMAIN tx.kids}
       IN  Spill(old, Leaf(tx.txid),
                 [tx EXCEPT !.puts = @ \ {k},
                            !.kids = Assign(@, k, Place(freelist, 1))])
    /\ UNCHANGED <<file, disk, datasz, reader, wpc, troubles>>

SpillRoot ==
    /\ wpc = "spill"
    /\ tx.puts = {}
    /\ Spill({tx.root}, Root(tx.kids), [tx EXCEPT !.root = Place(freelist, 1)])
    /\ wpc' = "list"
    /\ UNCHANGED <<file, disk, datasz, reader, troubles>>

\* Mutant: the old pages of the list stay in use.
FreedListNot(f) == f

FreedList(f) == Free(f, tx.txid, ListAt(file, tx))

\* The list goes to new pages, as many as all its ids need now, and holds the
\* pages that are still pending, too.
SpillList ==
    /\ wpc = "list"
    /\ LET f == FreedList(freelist)
           n == ListPages(Cardinality(All(f)))
           p == Place(f, n)
           g == ListAfter(f, n)
       IN  /\ ~MustGrow(f, n) /\ HasRoom(f, n)
           /\ freelist' = g
           /\ tx' = [tx EXCEPT !.dirty = [q \in DOMAIN @ \cup p .. (p + n - 1) |->
                                            IF q = p THEN List(All(g), n)
                                            ELSE IF q \in p .. (p + n - 1) THEN Overflow ELSE @[q]],
                               !.list = p, !.hwm = HwmAfter(f, n), !.grown = FALSE]
    /\ wpc' = "write"
    /\ UNCHANGED <<file, disk, datasz, reader, troubles>>

\* The writer calls Lock on the map, and waits there for the readers to end.
NeedsMap ==
    \/ wpc = "spill" /\ MustGrow(freelist, 1) /\ HasRoom(freelist, 1)
    \/ /\ wpc = "list"
       /\ LET f == FreedList(freelist)
              n == ListPages(Cardinality(All(f)))
          IN  MustGrow(f, n) /\ HasRoom(f, n)

AskForMap ==
    /\ NeedsMap
    /\ wpc' = "remap"
    /\ tx' = [tx EXCEPT !.resume = wpc]
    /\ UNCHANGED <<file, disk, freelist, datasz, reader, troubles>>

Remap ==
    /\ wpc = "remap"
    /\ \A r \in Readers : ~HoldsMap(r)
    /\ LET n    == IF tx.resume = "spill" THEN 1
                   ELSE ListPages(Cardinality(All(FreedList(freelist))))
           need == tx.hwm + n + 1
       IN  datasz' = MapSize(IF FileSize(file) > need THEN FileSize(file) ELSE need)
    /\ wpc' = tx.resume
    /\ tx' = [tx EXCEPT !.grown = TRUE]
    /\ UNCHANGED <<file, disk, freelist, reader, troubles>>

\* Tx.write: the new pages in order, then fdatasync.
Write(pages) == file' = [p \in Pgid |-> IF p \in pages THEN tx.dirty[p] ELSE file[p]]

WriteDirty ==
    /\ wpc = "write"
    /\ Write(DOMAIN tx.dirty)
    /\ wpc' = "sync"
    /\ UNCHANGED <<disk, freelist, datasz, reader, tx, troubles>>

SyncDirty ==
    /\ wpc = "sync"
    /\ disk' = file
    /\ wpc' = "meta"
    /\ tx' = [tx EXCEPT !.dirty = << >>]
    /\ UNCHANGED <<file, freelist, datasz, reader, troubles>>

\* Mutant: the page of the version that is in use.
MetaPageInUse(txid) == (txid + 1) % 2

MetaPage(txid) == txid % 2

\* writeMeta: the page that holds the older version is replaced.
WriteMeta ==
    /\ wpc = "meta"
    /\ file' = [file EXCEPT ![MetaPage(tx.txid)] = Meta(tx.txid, tx.root, tx.list, tx.hwm)]
    /\ wpc' = "commit"
    /\ UNCHANGED <<disk, freelist, datasz, reader, tx, troubles>>

SyncMeta ==
    /\ wpc = "commit"
    /\ disk' = file
    /\ wpc' = "idle"
    /\ tx' = NoTx
    /\ UNCHANGED <<file, freelist, datasz, reader, troubles>>

\* Tx.rollback: the list is read again from the newest version in the file.
Rolledback == Reload(Rollback(freelist, tx.txid), file[Newest(file).list].ids)

Abandon ==
    /\ freelist' = Rolledback
    /\ wpc' = "idle"
    /\ tx' = NoTx
    /\ UNCHANGED <<disk, datasz, reader>>

\* The function of the transaction returned an error.
BodyFails ==
    /\ wpc = "body"
    /\ Abandon
    /\ UNCHANGED <<file, troubles>>

\* A call of the system fails: the size of the file cannot be had, or the disk
\* does not take a page or a sync.  Some of the pages may have been written.
CallFails ==
    /\ troubles < MaxTroubles
    /\ troubles' = troubles + 1
    /\ \/ wpc \in {"remap", "sync", "meta"} /\ UNCHANGED file
       \/ wpc = "commit" /\ SyncMetaFails /\ UNCHANGED file
       \/ /\ wpc = "write"
          /\ \E last \in DOMAIN tx.dirty : Write({p \in DOMAIN tx.dirty : p < last})
    /\ Abandon

\* Each page that was not synced is on disk or not; Open reads the newest
\* version and its list.
Crash ==
    /\ troubles < MaxTroubles
    /\ troubles' = troubles + 1
    /\ \E lost \in SUBSET {p \in Pgid : file[p] # disk[p]} :
          LET f == [p \in Pgid |-> IF p \in lost THEN disk[p] ELSE file[p]]
          IN  /\ file' = f
              /\ disk' = f
              /\ datasz' = MapSize(FileSize(f))
              /\ freelist' = Read(f[Newest(f).list].ids)
    /\ reader' = [r \in Readers |-> [pc |-> "idle", at |-> 0, meta |-> NoMeta]]
    /\ wpc' = "idle"
    /\ tx' = NoTx

ViewRuns(r) == LockMap(r) \/ CopyMeta(r) \/ UnlockMap(r)

Committing ==
    \/ SpillLeaf \/ SpillRoot \/ SpillList \/ AskForMap \/ Remap
    \/ WriteDirty \/ SyncDirty \/ WriteMeta \/ SyncMeta

Writing ==
    \/ Committing
    \/ BodyFails
    \/ \E c \in Changes : Body(c.puts, c.dels)

Next ==
    \/ BeginRW \/ Writing \/ CallFails \/ Crash
    \/ \E r \in Readers : LockMeta(r) \/ ViewRuns(r) \/ RemoveTx(r)

Spec == Init /\ [][Next]_vars

\* A function that reads or writes returns, and the locks are handed on.
Fairness == WF_vars(Writing) /\ \A r \in Readers : WF_vars(ViewRuns(r))

FairSpec == Spec /\ Fairness
=============================================================================
