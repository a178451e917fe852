------------------------------- MODULE Store -------------------------------
(***************************************************************************)
(* The message store, store/bolt.go: one top-level bucket per connection,  *)
(* holding the messages by id and four index buckets of ids.  Only         *)
(* operators: a database is a value, an update is one transaction of       *)
(* boltdb (serialised, all or nothing), and the modules that own the       *)
(* database say who calls what.                                            *)
(***************************************************************************)
EXTENDS Queue

CONSTANTS
    Conns,             \* uuids of connections
    Texts, NoText      \* what a message says (address and text), and the empty text

ASSUME StoreAssumption ==
    /\ "" \notin Conns
    /\ NoText \notin Texts /\ Texts # {}

Priorities == {"H", "L"}
Statuses == {"Q", "S", "H"}
BoxNames == {"outbox", "sent", "inbox", "handled"}

\* A message as it is saved, and what Msg.init leaves.
Msg == [id : Id \ {0}, conn : Conns, text : Texts, priority : Priorities, status : Statuses]
BlankMsg == [id |-> 0, conn |-> "", text |-> NoText, priority |-> "", status |-> ""]

\* A bucket: bolt's sequence counter, the messages under their ids, the boxes.
NewBucket == [seq |-> 0, msgs |-> << >>, box |-> [b \in BoxNames |-> {}]]

\* A database maps the connections that have been saved to their buckets.
HasBucket(db, conn) == conn \in DOMAIN db

\* Bucket.Put: the map f with x under key k.
Put(f, k, x) == [y \in DOMAIN f \cup {k} |-> IF y = k THEN x ELSE f[y]]

\* saveConnection makes the buckets that are missing and writes the
\* configuration; deleteConnection removes both.
SaveConnection(db, conn) == IF HasBucket(db, conn) THEN db ELSE Put(db, conn, NewBucket)
DeleteConnection(db, conn) == [c \in DOMAIN db \ {conn} |-> db[c]]

-----------------------------------------------------------------------------
\* MsgFromJson and MsgFromText: a queued message without an id.
NewMsg(conn, text, priority) ==
    [id |-> 0, conn |-> conn, text |-> text, priority |-> priority, status |-> "Q"]

\* Mutant: a message gets a new id whenever it is saved.
AssignIdAlways(bucket, m) ==
    [m EXCEPT !.id = bucket.seq + 1
                     + (IF m.priority = "L" THEN LowPriorityMask ELSE 0)]

\* The next sequence number of the bucket, with the mask bit for low priority;
\* a message that has an id keeps it.
AssignId(bucket, m) ==
    IF m.id # 0 THEN m
    ELSE [m EXCEPT !.id = bucket.seq + 1
                          + (IF m.priority = "L" THEN LowPriorityMask ELSE 0)]

\* Mutant: the sequence is not advanced.
CommittedWithoutSequence(bucket, m, addBox, deleteBox) ==
    LET saved == AssignId(bucket, m)
    IN  [seq  |-> bucket.seq,
         msgs |-> Put(bucket.msgs, saved.id, saved),
         box  |-> [b \in BoxNames |->
                     IF b = addBox THEN bucket.box[b] \cup {saved.id}
                     ELSE IF b = deleteBox THEN bucket.box[b] \ {saved.id}
                     ELSE bucket.box[b]]]

\* The transaction of saveMsgToBucket for a connection that has its bucket.
Committed(bucket, m, addBox, deleteBox) ==
    LET saved == AssignId(bucket, m)
    IN  [seq  |-> IF m.id = 0 THEN bucket.seq + 1 ELSE bucket.seq,
         msgs |-> Put(bucket.msgs, saved.id, saved),
         box  |-> [b \in BoxNames |->
                     IF b = addBox THEN bucket.box[b] \cup {saved.id}
                     ELSE IF b = deleteBox THEN bucket.box[b] \ {saved.id}
                     ELSE bucket.box[b]]]

\* Mutant: the buckets are made when they are missing (ensureMsgBucket).
SaveOutcomesEnsuring(db, m, addBox, deleteBox) ==
    LET base == SaveConnection(db, m.conn)
    IN  {[db    |-> [base EXCEPT ![m.conn] = Committed(@, m, addBox, deleteBox)],
          msg   |-> AssignId(base[m.conn], m), err |-> FALSE, fault |-> FALSE]}

\* What saveMsgToBucket may do: fail because the connection has no bucket,
\* commit, or fail in the database, which rolls the transaction back but leaves
\* the id it assigned in the message.
SaveOutcomes(db, m, addBox, deleteBox) ==
    IF ~HasBucket(db, m.conn)
    THEN {[db |-> db, msg |-> m, err |-> TRUE, fault |-> FALSE]}
    ELSE LET bucket == db[m.conn]
             saved  == AssignId(bucket, m)
         IN  {[db    |-> [db EXCEPT ![m.conn] = Committed(bucket, m, addBox, deleteBox)],
               msg   |-> saved, err |-> FALSE, fault |-> FALSE],
              [db |-> db, msg |-> saved, err |-> TRUE, fault |-> TRUE]}

WriteToOutbox(db, m) == SaveOutcomes(db, m, "outbox", "")
WriteToInbox(db, m)  == SaveOutcomes(db, m, "inbox", "")
\* Mutants: the box that is not updated, or is another one.
MarkSentKeeping(db, m)   == SaveOutcomes(db, [m EXCEPT !.status = "S"], "sent", "")
MarkSentUnfiled(db, m)   == SaveOutcomes(db, [m EXCEPT !.status = "S"], "", "outbox")
MarkHandledAsSent(db, m) == SaveOutcomes(db, [m EXCEPT !.status = "H"], "sent", "inbox")

MarkSent(db, m)      == SaveOutcomes(db, [m EXCEPT !.status = "S"], "sent", "outbox")
MarkHandled(db, m)   == SaveOutcomes(db, [m EXCEPT !.status = "H"], "handled", "inbox")

\* getMsg: a message that cannot be read comes back blank, with an error.
MsgFromId(db, conn, id) ==
    IF HasBucket(db, conn) /\ id \in DOMAIN db[conn].msgs
    THEN db[conn].msgs[id]
    ELSE BlankMsg

\* getMsgBucketKeys, by which a restarted program finds its backlog.
BoxIds(db, conn, box) == db[conn].box[box]

=============================================================================
