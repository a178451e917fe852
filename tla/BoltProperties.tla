--------------------------- MODULE BoltProperties ---------------------------
(***************************************************************************)
(* What must be true of the transactions of boltdb.                        *)
(***************************************************************************)
EXTENDS Bolt

Txid == 0 .. MaxTxid

\* Type: the file is pages of the known kinds, two meta pages first; the list
\* never holds them; readers and the writer are at one of their steps.
BoltTypeOK ==
    /\ \A f \in {file, disk} : f[0].kind = "meta" /\ f[1].kind = "meta"
    /\ freelist.ids \subseteq Pgid \ {0, 1}
    /\ DOMAIN freelist.pending \subseteq Txid
    /\ \A t \in DOMAIN freelist.pending : freelist.pending[t] \subseteq Pgid \ {0, 1}
    /\ datasz \in Nat
    /\ \A r \in Readers :
          /\ reader[r].pc \in {"idle", "map", "copy", "read", "remove"}
          /\ reader[r].at \in {0, 1}
          /\ reader[r].meta.txid \in Txid
    /\ wpc \in {"idle", "body", "spill", "list", "remap", "write", "sync", "meta", "commit"}
    /\ tx.txid \in Txid /\ tx.puts \subseteq Keys /\ DOMAIN tx.dirty \subseteq Pgid
    /\ troubles \in 0 .. MaxTroubles

\* Between two write transactions every page below the high water mark is
\* either reached from the newest version or on the list, and never both
\* (Tx.check, tx.go:326-395).
Partitioned(m) ==
    /\ (ListAt(file, m) \cup Reachable(file, m)) \cap All(freelist) = {}
    /\ ListAt(file, m) \cap Reachable(file, m) = {}
    /\ ListAt(file, m) \cup Reachable(file, m) \cup All(freelist) = 2 .. (m.hwm - 1)

\* No page is on the list twice: one that is pending for a transaction is not
\* free already, nor pending for another (free panics on it, freelist.go:116).
FreedOnce ==
    /\ freelist.ids \cap AllPending(freelist) = {}
    /\ \A s, t \in DOMAIN freelist.pending :
          s # t => freelist.pending[s] \cap freelist.pending[t] = {}

\* Every page has one owner, also after a rollback or a crash.
PagesPartitioned == FreedOnce /\ (wpc = "idle" => Partitioned(Newest(file)))

\* The pages of a version that a reader looks at are not reclaimed until its
\* transaction ends: they are neither free nor given to the writer
\* (tx.go:20-22, db.go:482-491).
InUse == UNION {Reachable(file, reader[r].meta) : r \in {q \in Readers : HoldsMap(q) /\ q \in Txs}}
NothingInUseIsReclaimed == InUse \cap (freelist.ids \cup DOMAIN tx.dirty) = {}

\* Every page that is used is mapped.
UsedIsMapped == \A p \in Pgid : file[p] # Zero /\ p < Newest(file).hwm => p < datasz

\* What the store counts on (Snapshots): a version is published in one step and
\* is what the transaction made, readers see the version they began with, a
\* crash keeps what was acknowledged.
View(r) == CASE reader[r].pc = "copy" -> Content(file, file[reader[r].at])
             [] reader[r].pc = "read" -> Content(file, reader[r].meta)
             [] OTHER -> << 0 >>

Published == Content(file, Newest(file))

Promise == INSTANCE Snapshots WITH
    Values <- Txid, NoView <- << 0 >>, db <- Published,
    acked <- IF wpc = "commit" THEN Content(disk, Newest(disk)) ELSE Published,
    draft <- IF wpc = "idle" THEN Published ELSE tx.draft,
    views <- [r \in Readers |-> View(r)]

KeepsSnapshots == Promise!Spec

\* A write transaction that has begun ends: readers leave the map it waits for
\* (db.go:418-427, and removeTx, which gives up the map before it takes the
\* meta lock).
WriterFinishes == wpc # "idle" ~> wpc = "idle"
=============================================================================
