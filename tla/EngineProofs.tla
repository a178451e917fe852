---------------------------- MODULE EngineProofs ----------------------------
(***************************************************************************)
(* Module Engine, proved for every number of senders, receivers, requests, *)
(* messages, crashes, failed transactions and deletions: the types, and    *)
(* what a connection keeps of each message.                                *)
(***************************************************************************)
EXTENDS EngineProperties, DispatcherProofs

-----------------------------------------------------------------------------
(* The message store *)

\* The ids that n messages may have drawn: the n-th number, with the mask or without.
Drawn(n) == (1 .. n) \cup {LowPriorityMask + k : k \in 1 .. n}

Outgoing(b) == b.box["outbox"] \cup b.box["sent"]
Filed(b) == Outgoing(b) \cup b.box["inbox"] \cup b.box["handled"]

BoxesFit(b) ==
    /\ b.box \in [BoxNames -> SUBSET Drawn(b.seq)]
    /\ b.box["outbox"] \cap b.box["sent"] = {}
    /\ Outgoing(b) \cap b.box["inbox"] = {}
    /\ b.box["inbox"] \cap b.box["handled"] = {}

\* Every message is under its id and in some box, an outgoing one in a box of its
\* own; and what goes out is what a request said.
MessagesFit(b) ==
    /\ DOMAIN b.msgs = Filed(b)
    /\ \A id \in DOMAIN b.msgs : b.msgs[id] \in HeldMsg /\ b.msgs[id].id = id
    /\ \A id \in Outgoing(b) : b.msgs[id].text \in Requests

BucketFits(b) == b.seq \in 0 .. MaxSeq /\ BoxesFit(b) /\ MessagesFit(b)

DbFits(d) == DOMAIN d \subseteq {Conn} /\ (HasBucket(d, Conn) => BucketFits(d[Conn]))

SameBuckets(d, e) == \A c : HasBucket(d, c) <=> HasBucket(e, c)

\* A step of the store forgets no message and changes what none says, and an
\* outgoing one stays one.
KeepsMessages(d, e) ==
    HasBucket(e, Conn) =>
        /\ HasBucket(d, Conn)
        /\ \A id \in Filed(d[Conn]) : /\ id \in Filed(e[Conn])
                                      /\ e[Conn].msgs[id].text = d[Conn].msgs[id].text
        /\ Outgoing(d[Conn]) \subseteq Outgoing(e[Conn])

LEMMA NewIdIsFresh ==
    ASSUME NEW n \in Nat, n < MaxSeq, NEW id \in {n + 1, n + 1 + LowPriorityMask}
    PROVE  /\ id \in Drawn(n + 1) /\ id \notin Drawn(n) /\ id \in MsgIds /\ id # 0
           /\ Drawn(n) \subseteq Drawn(n + 1) /\ n + 1 \in 0 .. MaxSeq
<1>1. /\ MaxSeq \in Nat /\ MaxSeq < LowPriorityMask /\ LowPriorityMask \in Nat
  BY EngineAssumption, MaskAssumption
<1>2. n + 1 \in 1 .. MaxSeq /\ n + 1 \in 1 .. n + 1
  BY <1>1
<1>3. id \in Drawn(n + 1)
  BY <1>1, <1>2 DEF Drawn
<1>4. id \notin Drawn(n)
  <2>1. ASSUME id \in 1 .. n PROVE FALSE
    BY <1>1, <2>1
  <2>2. ASSUME NEW k \in 1 .. n, id = LowPriorityMask + k PROVE FALSE
    BY <1>1, <2>2
  <2>. QED
    BY <2>1, <2>2 DEF Drawn
<1>5. id \in MsgIds
  BY <1>1, <1>2 DEF MsgIds
<1>6. Drawn(n) \subseteq Drawn(n + 1)
  <2>1. 1 .. n \subseteq 1 .. n + 1
    BY <1>1
  <2>. QED
    BY <2>1 DEF Drawn
<1>7. id # 0 /\ n + 1 \in 0 .. MaxSeq
  BY <1>1
<1>. QED
  BY <1>3, <1>4, <1>5, <1>6, <1>7

LEMMA SequenceAdvances ==
    \A n \in 0 .. MaxSeq :
        n \in Nat /\ n + 1 + 0 = n + 1 /\ (n < MaxSeq => n + 1 < LowPriorityMask)
<1>1. MaxSeq \in Nat /\ MaxSeq < LowPriorityMask /\ LowPriorityMask \in Nat
  BY EngineAssumption, MaskAssumption
<1>. QED
  BY <1>1

LEMMA DrawnAreIds ==
    ASSUME NEW n \in 0 .. MaxSeq
    PROVE  Drawn(n) \subseteq MsgIds /\ 0 \notin Drawn(n)
<1>1. MaxSeq \in Nat /\ LowPriorityMask \in Nat
  BY EngineAssumption, MaskAssumption
<1>2. 1 .. n \subseteq 1 .. MaxSeq /\ 0 \notin 1 .. n
  BY <1>1
<1>3. \A k \in 1 .. n : LowPriorityMask + k # 0
  BY <1>1
<1>. QED
  BY <1>2, <1>3 DEF Drawn, MsgIds

LEMMA IdsAreNumbers == MsgIds \subseteq Id /\ 0 \notin MsgIds
<1>1. MaxSeq \in Nat /\ LowPriorityMask \in Nat
  BY EngineAssumption, MaskAssumption
<1>2. 1 .. MaxSeq \subseteq Nat /\ 0 \notin 1 .. MaxSeq
  BY <1>1
<1>3. \A k \in 1 .. MaxSeq : LowPriorityMask + k \in Nat /\ LowPriorityMask + k # 0
  BY <1>1
<1>. QED
  BY <1>2, <1>3 DEF MsgIds, Id

\* The bucket n is b with the new message s in box add.
AddedTo(b, n, s, text, p, add) ==
    /\ s \in HeldMsg /\ s.id \in MsgIds /\ s.text = text /\ s.id \notin Filed(b)
    /\ p = "H" => s.id < LowPriorityMask
    /\ BucketFits(n)
    /\ n.msgs = Put(b.msgs, s.id, s)
    /\ \A x \in BoxNames : n.box[x] = IF x = add THEN b.box[x] \cup {s.id} ELSE b.box[x]

\* The bucket after a message without an id was saved to box add.
LEMMA NewMessage ==
    ASSUME NEW b, BucketFits(b), b.seq < MaxSeq,
           NEW text \in Texts, NEW p \in Priorities, NEW add \in {"outbox", "inbox"},
           add = "outbox" => text \in Requests,
           NEW s, s = AssignId(b, NewMsg(Conn, text, p)),
           NEW n, n = Committed(b, NewMsg(Conn, text, p), add, "")
    PROVE  AddedTo(b, n, s, text, p, add)
<1>. PICK m : m = NewMsg(Conn, text, p)
  OBVIOUS
<1>1. /\ m \in [id : {0}, conn : {Conn}, text : Texts, priority : Priorities, status : Statuses]
      /\ m.text = text /\ m.priority = p
  BY DEF NewMsg, Statuses
<1>2. b.seq \in Nat /\ LowPriorityMask \in Nat
  <2>1. b.seq \in 0 .. MaxSeq
    BY DEF BucketFits
  <2>. QED
    BY <2>1, SequenceAdvances, MaskAssumption
<1>3. PICK id \in {b.seq + 1, b.seq + 1 + LowPriorityMask} :
         /\ s = [m EXCEPT !.id = id]
         /\ p = "H" => id = b.seq + 1
  <2>1. s = [m EXCEPT !.id = b.seq + 1 + (IF m.priority = "L" THEN LowPriorityMask ELSE 0)]
    BY <1>1 DEF AssignId
  <2>2. CASE p = "L"
    <3>1. s = [m EXCEPT !.id = b.seq + 1 + LowPriorityMask]
      BY <1>1, <2>1, <2>2
    <3>. QED
      BY <2>2, <3>1
  <2>3. CASE p # "L"
    <3>1. b.seq + 1 + 0 = b.seq + 1
      BY SequenceAdvances DEF BucketFits
    <3>2. s = [m EXCEPT !.id = b.seq + 1]
      BY <1>1, <2>1, <2>3, <3>1
    <3>. QED
      BY <3>2
  <2>. QED
    BY <2>2, <2>3
<1>4. /\ id \in Drawn(b.seq + 1) /\ id \notin Drawn(b.seq) /\ id \in MsgIds /\ id # 0
      /\ Drawn(b.seq) \subseteq Drawn(b.seq + 1) /\ b.seq + 1 \in 0 .. MaxSeq
  BY <1>2, NewIdIsFresh
<1>5. s \in HeldMsg /\ s.id = id /\ s.text = text
  BY <1>1, <1>3, <1>4 DEF HeldMsg
<1>6. id \notin Filed(b)
  BY <1>4 DEF Filed, Outgoing, BucketFits, BoxesFit, BoxNames
<1>7. p = "H" => s.id < LowPriorityMask
  <2>1. b.seq + 1 < LowPriorityMask
    BY SequenceAdvances DEF BucketFits
  <2>. QED
    BY <1>3, <1>5, <2>1
<1>8. n.seq = b.seq + 1 /\ n.msgs = Put(b.msgs, id, s)
  BY <1>1, <1>5 DEF Committed
<1>9. /\ n.box = [x \in BoxNames |-> IF x = add THEN b.box[x] \cup {id}
                                     ELSE IF x = "" THEN b.box[x] \ {id} ELSE b.box[x]]
  BY <1>5 DEF Committed
<1>10. \A x \in BoxNames : n.box[x] = IF x = add THEN b.box[x] \cup {id} ELSE b.box[x]
  BY <1>9 DEF BoxNames
<1>11. BoxesFit(n)
  <2>0. b.box \in [BoxNames -> SUBSET Drawn(b.seq)]
    BY DEF BucketFits, BoxesFit
  <2>1. n.box \in [BoxNames -> SUBSET Drawn(n.seq)]
    <3>1. \A x \in BoxNames : b.box[x] \cup {id} \subseteq Drawn(n.seq)
      BY <1>4, <1>8, <2>0
    <3>. QED
      BY <1>9, <3>1
  <2>. QED
    BY <1>6, <1>10, <2>1, ZenonT(30) DEF BoxesFit, BucketFits, Filed, Outgoing, BoxNames
<1>12. Filed(n) = Filed(b) \cup {id} /\ Outgoing(n) = (IF add = "outbox" THEN Outgoing(b) \cup {id} ELSE Outgoing(b))
  BY <1>10 DEF Filed, Outgoing, BoxNames
<1>13. DOMAIN n.msgs = Filed(n)
  BY <1>8, <1>12 DEF Put, BucketFits, MessagesFit
<1>14. \A x \in DOMAIN n.msgs : n.msgs[x] = IF x = id THEN s ELSE b.msgs[x]
  BY <1>8 DEF Put
<1>15. MessagesFit(n)
  <2>0. /\ DOMAIN b.msgs = Filed(b) /\ Outgoing(b) \subseteq Filed(b)
        /\ \A x \in DOMAIN b.msgs : b.msgs[x] \in HeldMsg /\ b.msgs[x].id = x
        /\ \A x \in Outgoing(b) : b.msgs[x].text \in Requests
    BY DEF MessagesFit, BucketFits, Filed
  <2>1. \A x \in DOMAIN n.msgs : n.msgs[x] \in HeldMsg /\ n.msgs[x].id = x
    BY <1>5, <1>12, <1>13, <1>14, <2>0
  <2>2. \A x \in Outgoing(n) : n.msgs[x].text \in Requests
    <3>1. Outgoing(n) \subseteq Filed(n)
      BY DEF Filed
    <3>2. ASSUME NEW x \in Outgoing(n), x = id PROVE n.msgs[x].text \in Requests
      <4>1. add = "outbox"
        BY <1>6, <1>12, <2>0, <3>2
      <4>. QED
        BY <1>5, <1>13, <1>14, <3>1, <3>2, <4>1
    <3>3. ASSUME NEW x \in Outgoing(n), x # id PROVE n.msgs[x].text \in Requests
      BY <1>12, <1>13, <1>14, <2>0, <3>1, <3>3
    <3>. QED
      BY <3>2, <3>3
  <2>. QED
    BY <1>13, <2>1, <2>2 DEF MessagesFit
<1>16. BucketFits(n)
  BY <1>4, <1>8, <1>11, <1>15 DEF BucketFits
<1>. QED
  BY <1>4, <1>5, <1>6, <1>7, <1>8, <1>10, <1>16 DEF AddedTo

\* A message somebody loaded: its record is still there, and says the same.
Loaded(m, d) ==
    /\ m \in HeldMsg /\ m.id \in MsgIds
    /\ HasBucket(d, Conn) => m.id \in Filed(d[Conn]) /\ d[Conn].msgs[m.id].text = m.text

\* The bucket n is b with the message id in box add, not in del, and of this status.
MovedIn(b, n, id, status, add, del) ==
    /\ BucketFits(n) /\ Filed(n) = Filed(b) /\ Outgoing(n) = Outgoing(b)
    /\ \A k \in Filed(b) : n.msgs[k].text = b.msgs[k].text
    /\ \A k \in Filed(b) \ {id} : n.msgs[k] = b.msgs[k]
    /\ n.msgs[id].status = status
    /\ \A x \in BoxNames : n.box[x] = IF x = add THEN b.box[x] \cup {id}
                                      ELSE IF x = del THEN b.box[x] \ {id} ELSE b.box[x]

\* The bucket after a loaded message was filed in box add and not in del.
LEMMA MarkedMessage ==
    ASSUME NEW b, BucketFits(b), NEW m \in HeldMsg, m.id \in Filed(b), b.msgs[m.id].text = m.text,
           NEW status \in Statuses, NEW add, NEW del,
           \/ add = "sent" /\ del = "outbox" /\ m.id \in Outgoing(b)
           \/ add = "handled" /\ del = "inbox",
           NEW n, n = Committed(b, [m EXCEPT !.status = status], add, del)
    PROVE  MovedIn(b, n, m.id, status, add, del)
<1>. PICK s : s = [m EXCEPT !.status = status]
  OBVIOUS
<1>1. s \in HeldMsg /\ s.id = m.id /\ s.text = m.text /\ s.status = status
  BY DEF HeldMsg
<1>2. /\ b.seq \in 0 .. MaxSeq /\ m.id \in Drawn(b.seq) /\ m.id # 0
      /\ b.box \in [BoxNames -> SUBSET Drawn(b.seq)]
  BY DrawnAreIds DEF BucketFits, BoxesFit, Filed, Outgoing, BoxNames
<1>3. AssignId(b, s) = s
  BY <1>1, <1>2 DEF AssignId
<1>4. n.seq = b.seq /\ n.msgs = Put(b.msgs, s.id, s)
  BY <1>1, <1>2, <1>3 DEF Committed
<1>5. n.box = [x \in BoxNames |-> IF x = add THEN b.box[x] \cup {s.id}
                                  ELSE IF x = del THEN b.box[x] \ {s.id} ELSE b.box[x]]
  BY <1>1, <1>2, <1>3 DEF Committed
<1>6. \A x \in BoxNames : n.box[x] = IF x = add THEN b.box[x] \cup {m.id}
                                     ELSE IF x = del THEN b.box[x] \ {m.id} ELSE b.box[x]
  BY <1>1, <1>5
<1>7. Filed(n) = Filed(b) /\ Outgoing(n) = Outgoing(b)
  BY <1>6 DEF Filed, Outgoing, BoxNames
<1>8. BoxesFit(n)
  <2>1. n.box \in [BoxNames -> SUBSET Drawn(n.seq)]
    BY <1>1, <1>2, <1>4, <1>5
  <2>. QED
    BY <1>6, <2>1 DEF BoxesFit, BucketFits, Filed, Outgoing, BoxNames
<1>9. DOMAIN n.msgs = Filed(b) /\ \A x \in Filed(b) : n.msgs[x] = IF x = m.id THEN s ELSE b.msgs[x]
  <2>1. DOMAIN b.msgs \cup {m.id} = Filed(b)
    BY DEF BucketFits, MessagesFit
  <2>2. n.msgs = [x \in Filed(b) |-> IF x = m.id THEN s ELSE b.msgs[x]]
    BY <1>1, <1>4, <2>1 DEF Put
  <2>. QED
    BY <2>2
<1>10. MessagesFit(n)
  <2>0. /\ DOMAIN b.msgs = Filed(b) /\ Outgoing(b) \subseteq Filed(b)
        /\ \A x \in DOMAIN b.msgs : b.msgs[x] \in HeldMsg /\ b.msgs[x].id = x
        /\ \A x \in Outgoing(b) : b.msgs[x].text \in Requests
    BY DEF MessagesFit, BucketFits, Filed
  <2>1. \A x \in DOMAIN n.msgs : n.msgs[x] \in HeldMsg /\ n.msgs[x].id = x
    BY <1>1, <1>9, <2>0
  <2>2. \A x \in Outgoing(n) : n.msgs[x].text \in Requests
    BY <1>1, <1>7, <1>9, <2>0
  <2>. QED
    BY <1>7, <1>9, <2>1, <2>2 DEF MessagesFit
<1>11. BucketFits(n)
  BY <1>2, <1>4, <1>8, <1>10 DEF BucketFits
<1>. QED
  BY <1>1, <1>6, <1>7, <1>9, <1>11 DEF MovedIn

\* A saved message is filed under id in one box, and taken out of another.
Files(d, e, id, add, del) ==
    /\ HasBucket(d, Conn) /\ HasBucket(e, Conn)
    /\ \A x \in BoxNames : e[Conn].box[x] = IF x = add THEN d[Conn].box[x] \cup {id}
                                            ELSE IF x = del THEN d[Conn].box[x] \ {id}
                                            ELSE d[Conn].box[x]
    /\ \A k \in Filed(d[Conn]) \ {id} : e[Conn].msgs[k] = d[Conn].msgs[k]

RoomIn(d) == HasBucket(d, Conn) => d[Conn].seq < MaxSeq

\* What a transaction leaves, whatever it does.
StepFits(d, e) == DbFits(e) /\ SameBuckets(d, e) /\ KeepsMessages(d, e)

LEMMA StoreStays == \A d : DbFits(d) => StepFits(d, d)
BY DEF StepFits, SameBuckets, KeepsMessages

LEMMA ConnIsNamed == Conn # ""
BY EngineAssumption, StoreAssumption

\* What saving a new message comes to.
Written(d, o, text, p, add) ==
    /\ StepFits(d, o.db)
    /\ o.fault => o.err
    /\ o.msg \in HeldMsg
    /\ o.err => o.db = d
    /\ ~o.err => /\ Files(d, o.db, o.msg.id, add, "")
                 /\ o.msg.id \in MsgIds /\ o.msg.id \notin Filed(d[Conn])
                 /\ o.db[Conn].msgs[o.msg.id] = o.msg
                 /\ o.msg.text = text /\ o.msg.status = "Q"
                 /\ p = "H" => o.msg.id < LowPriorityMask

\* WriteToOutbox and WriteToInbox of a new message.
LEMMA WriteFits ==
    ASSUME NEW d, DbFits(d), RoomIn(d), NEW text \in Texts, NEW p \in Priorities,
           NEW add \in {"outbox", "inbox"}, add = "outbox" => text \in Requests,
           NEW o \in SaveOutcomes(d, NewMsg(Conn, text, p), add, "")
    PROVE  Written(d, o, text, p, add)
<1>1. PICK m : m = NewMsg(Conn, text, p)
  OBVIOUS
<1>2. m.conn = Conn /\ m.id = 0 /\ m \in HeldMsg
  BY <1>1 DEF NewMsg, HeldMsg, Statuses
<1>3. CASE ~HasBucket(d, Conn)
  <2>1. o = [db |-> d, msg |-> m, err |-> TRUE, fault |-> FALSE]
    BY <1>1, <1>2, <1>3 DEF SaveOutcomes
  <2>. QED
    BY <1>2, <2>1, StoreStays DEF Written
<1>4. CASE HasBucket(d, Conn)
  <2>1. PICK b : b = d[Conn]
    OBVIOUS
  <2>2. BucketFits(b) /\ b.seq < MaxSeq
    BY <1>4, <2>1 DEF DbFits, RoomIn
  <2>3. PICK s : s = AssignId(b, m)
    OBVIOUS
  <2>4. PICK n : n = Committed(b, m, add, "")
    OBVIOUS
  <2>5. AddedTo(b, n, s, text, p, add)
    BY <1>1, <2>2, <2>3, <2>4, NewMessage
  <2>6. /\ s \in HeldMsg /\ s.id \in MsgIds /\ s.text = text /\ s.id \notin Filed(b)
        /\ p = "H" => s.id < LowPriorityMask
        /\ BucketFits(n)
        /\ n.msgs = Put(b.msgs, s.id, s)
        /\ \A x \in BoxNames : n.box[x] = IF x = add THEN b.box[x] \cup {s.id} ELSE b.box[x]
    BY <2>5 DEF AddedTo
  <2>7. s.status = "Q"
    BY <1>1, <1>2, <2>3 DEF AssignId, NewMsg
  <2>8. \/ o = [db |-> [d EXCEPT ![Conn] = n], msg |-> s, err |-> FALSE, fault |-> FALSE]
        \/ o = [db |-> d, msg |-> s, err |-> TRUE, fault |-> TRUE]
    BY <1>1, <1>2, <1>4, <2>1, <2>3, <2>4 DEF SaveOutcomes
  <2>9. CASE o = [db |-> d, msg |-> s, err |-> TRUE, fault |-> TRUE]
    BY <2>6, <2>9, StoreStays DEF Written
  <2>10. CASE o = [db |-> [d EXCEPT ![Conn] = n], msg |-> s, err |-> FALSE, fault |-> FALSE]
    <3>1. PICK e : e = [d EXCEPT ![Conn] = n]
      OBVIOUS
    <3>2. HasBucket(e, Conn) /\ e[Conn] = n /\ SameBuckets(d, e) /\ DOMAIN e = DOMAIN d
      BY <1>4, <3>1 DEF HasBucket, SameBuckets
    <3>3. DbFits(e)
      BY <2>6, <3>2 DEF DbFits
    <3>4. DOMAIN b.msgs = Filed(b)
      BY <2>2 DEF BucketFits, MessagesFit
    <3>5. /\ \A x \in Filed(b) : n.msgs[x] = b.msgs[x]
          /\ n.msgs[s.id] = s
      BY <2>6, <3>4 DEF Put
    <3>6. Filed(b) \subseteq Filed(n) /\ Outgoing(b) \subseteq Outgoing(n)
      BY <2>6 DEF Filed, Outgoing, BoxNames
    <3>7. KeepsMessages(d, e)
      BY <1>4, <2>1, <3>2, <3>5, <3>6 DEF KeepsMessages
    <3>8. Files(d, e, s.id, add, "")
      <4>1. "" \notin BoxNames
        BY DEF BoxNames
      <4>. QED
        BY <1>4, <2>1, <2>6, <3>2, <3>5, <4>1 DEF Files
    <3>. QED
      BY <2>1, <2>6, <2>7, <2>10, <3>1, <3>2, <3>3, <3>5, <3>7, <3>8 DEF StepFits, Written
  <2>. QED
    BY <2>8, <2>9, <2>10
<1>. QED
  BY <1>3, <1>4

\* What saving a loaded message again comes to.
Marked(d, o, m, status, add, del) ==
    /\ StepFits(d, o.db)
    /\ o.fault => o.err
    /\ o.err => o.db = d
    /\ o.err /\ HasBucket(d, Conn) => o.fault
    /\ ~o.err => /\ Files(d, o.db, m.id, add, del)
                 /\ o.db[Conn].msgs[m.id].status = status

\* MarkSent and MarkHandled of a loaded message.
LEMMA MarkFits ==
    ASSUME NEW d, DbFits(d), NEW m, Loaded(m, d), NEW status \in Statuses,
           NEW add \in {"sent", "handled"}, NEW del \in {"outbox", "inbox"},
           add = "sent" /\ HasBucket(d, Conn) => m.id \in Outgoing(d[Conn]),
           add = "sent" <=> del = "outbox",
           NEW o \in SaveOutcomes(d, [m EXCEPT !.status = status], add, del)
    PROVE  Marked(d, o, m, status, add, del)
<1>1. PICK s : s = [m EXCEPT !.status = status]
  OBVIOUS
<1>2. m \in HeldMsg /\ m.id \in MsgIds /\ m.id # 0
  BY IdsAreNumbers DEF Loaded
<1>3. s.conn = Conn /\ s.id = m.id /\ s \in HeldMsg
  BY <1>1, <1>2 DEF HeldMsg
<1>4. CASE ~HasBucket(d, Conn)
  <2>1. o = [db |-> d, msg |-> s, err |-> TRUE, fault |-> FALSE]
    BY <1>1, <1>3, <1>4 DEF SaveOutcomes
  <2>. QED
    BY <1>4, <2>1, StoreStays DEF Marked
<1>5. CASE HasBucket(d, Conn)
  <2>1. PICK b : b = d[Conn]
    OBVIOUS
  <2>2. BucketFits(b) /\ m.id \in Filed(b) /\ b.msgs[m.id].text = m.text
    BY <1>5, <2>1 DEF DbFits, Loaded
  <2>3. PICK n : n = Committed(b, [m EXCEPT !.status = status], add, del)
    OBVIOUS
  <2>4. \/ add = "sent" /\ del = "outbox" /\ m.id \in Outgoing(b)
        \/ add = "handled" /\ del = "inbox"
    BY <1>5, <2>1
  <2>5. MovedIn(b, n, m.id, status, add, del)
    BY <1>2, <2>2, <2>3, <2>4, MarkedMessage
  <2>6. /\ BucketFits(n) /\ Filed(n) = Filed(b) /\ Outgoing(n) = Outgoing(b)
        /\ \A k \in Filed(b) : n.msgs[k].text = b.msgs[k].text
        /\ \A k \in Filed(b) \ {m.id} : n.msgs[k] = b.msgs[k]
        /\ n.msgs[m.id].status = status
        /\ \A x \in BoxNames : n.box[x] = IF x = add THEN b.box[x] \cup {m.id}
                                          ELSE IF x = del THEN b.box[x] \ {m.id} ELSE b.box[x]
    BY <2>5 DEF MovedIn
  <2>7. \/ o = [db |-> [d EXCEPT ![Conn] = n], msg |-> AssignId(b, s), err |-> FALSE, fault |-> FALSE]
        \/ o = [db |-> d, msg |-> AssignId(b, s), err |-> TRUE, fault |-> TRUE]
    BY <1>1, <1>3, <1>5, <2>1, <2>3 DEF SaveOutcomes
  <2>8. CASE o = [db |-> d, msg |-> AssignId(b, s), err |-> TRUE, fault |-> TRUE]
    BY <2>8, StoreStays DEF Marked
  <2>9. CASE o = [db |-> [d EXCEPT ![Conn] = n], msg |-> AssignId(b, s), err |-> FALSE, fault |-> FALSE]
    <3>1. PICK e : e = [d EXCEPT ![Conn] = n]
      OBVIOUS
    <3>2. HasBucket(e, Conn) /\ e[Conn] = n /\ SameBuckets(d, e) /\ DOMAIN e = DOMAIN d
      BY <1>5, <3>1 DEF HasBucket, SameBuckets
    <3>3. DbFits(e)
      BY <2>6, <3>2 DEF DbFits
    <3>4. KeepsMessages(d, e)
      BY <1>5, <2>1, <2>6, <3>2 DEF KeepsMessages
    <3>5. Files(d, e, m.id, add, del)
      BY <1>5, <2>1, <2>6, <3>2 DEF Files
    <3>. QED
      BY <2>6, <2>9, <3>1, <3>2, <3>3, <3>4, <3>5 DEF StepFits, Marked
  <2>. QED
    BY <2>7, <2>8, <2>9
<1>. QED
  BY <1>4, <1>5

\* A worker that could load nothing marks nothing.
LEMMA BlankMarksNothing ==
    \A d, status, add, del :
        DbFits(d) => \A o \in SaveOutcomes(d, [BlankMsg EXCEPT !.status = status], add, del) :
                         o.db = d /\ o.err = TRUE /\ o.fault = FALSE
<1>. SUFFICES ASSUME NEW d, NEW status, NEW add, NEW del, DbFits(d),
                     NEW o \in SaveOutcomes(d, [BlankMsg EXCEPT !.status = status], add, del)
              PROVE  o.db = d /\ o.err = TRUE /\ o.fault = FALSE
  OBVIOUS
<1>1. PICK s : s = [BlankMsg EXCEPT !.status = status]
  OBVIOUS
<1>2. s.conn = "" /\ ~HasBucket(d, "")
  BY <1>1, ConnIsNamed DEF BlankMsg, DbFits, HasBucket
<1>3. o = [db |-> d, msg |-> s, err |-> TRUE, fault |-> FALSE]
  BY <1>1, <1>2 DEF SaveOutcomes
<1>. QED
  BY <1>3

-----------------------------------------------------------------------------
(* The dispatcher at work in the engine *)

\* The steps of the dispatcher and of the workers' loops, the same as in module
\* DispatcherAlone.
GoroutineStep ==
    \/ DispatcherStep \/ StopClose \/ StopWait
    \/ \E d \in Directions : \E w \in WorkersOf(d) :
          WorkerBegin(w) \/ Announce(d, w) \/ WorkerExit(w)

LEMMA TokensOfLoop == IInvTokens /\ (GoroutineStep \/ UNCHANGED vars) => IInvTokens'
<1>1. GoroutineStep \/ UNCHANGED vars => [Next]_vars
  BY DEF GoroutineStep, Next, Run, WorkerStep
<1>. QED
  BY <1>1, TokensStep

\* The engine's own steps put ids on the channels, and a worker ends its round.
LEMMA TokensOfPost ==
    ASSUME IInvTokens, UNCHANGED <<dispatcherVars, ready, stopVars>>,
           offered' \subseteq Id, chIncoming' \in Seq(Id),
           posted' \in [Directions -> SUBSET Id],
           \/ UNCHANGED <<workerVars, finished>>
           \/ \E d \in Directions : \E w \in WorkersOf(d) : FinishJob(d, w)
    PROVE  IInvTokens'
<1>0. /\ TypeOK /\ QueuesWellFormed /\ BusyHasJob /\ ExitedOnlyWhenDone
      /\ wpc \in [Workers -> {"new", "announce", "idle", "busy", "exited"}]
      /\ job \in [Workers -> Id \cup {NoJob}]
      /\ finished \in [Directions -> SUBSET Id]
      /\ \A d \in Directions : WorkersOf(d) \subseteq Workers /\ TokensFit(Tokens(d), wpc, d)
  BY OneTokenIsTokensFit, SendersAndReceivers DEF IInvTokens, IInvTypes, TypeOK, Workers
<1>1. /\ UNCHANGED <<dpc, queue, available, ready, done, wg, stop, late>>
  BY DEF dispatcherVars, stopVars
<1>2. /\ wpc' \in [Workers -> {"new", "announce", "idle", "busy", "exited"}]
      /\ job' \in [Workers -> Id \cup {NoJob}]
      /\ finished' \in [Directions -> SUBSET Id]
      /\ BusyHasJob' /\ ExitedOnlyWhenDone'
      /\ \A w \in Workers : /\ wpc'[w] = "idle" => wpc[w] = "idle"
                            /\ wpc[w] = "idle" => wpc'[w] \in {"idle", "exited"}
                            /\ wpc[w] = "exited" => wpc'[w] = "exited"
  <2>1. CASE UNCHANGED <<workerVars, finished>>
    BY <1>0, <1>1, <2>1 DEF workerVars, BusyHasJob, ExitedOnlyWhenDone
  <2>2. ASSUME NEW d \in Directions, NEW w \in WorkersOf(d), FinishJob(d, w)
        PROVE  /\ wpc' \in [Workers -> {"new", "announce", "idle", "busy", "exited"}]
               /\ job' \in [Workers -> Id \cup {NoJob}]
               /\ finished' \in [Directions -> SUBSET Id]
               /\ BusyHasJob' /\ ExitedOnlyWhenDone'
               /\ \A v \in Workers : /\ wpc'[v] = "idle" => wpc[v] = "idle"
                                     /\ wpc[v] = "idle" => wpc'[v] \in {"idle", "exited"}
                                     /\ wpc[v] = "exited" => wpc'[v] = "exited"
    <3>1. /\ wpc[w] = "busy" /\ wpc' = [wpc EXCEPT ![w] = "announce"]
          /\ job' = [job EXCEPT ![w] = NoJob]
          /\ finished' = [finished EXCEPT ![d] = @ \cup {job[w]}]
      BY <2>2 DEF FinishJob
    <3>2. job[w] \in Id
      BY <1>0, <3>1 DEF BusyHasJob
    <3>3. BusyHasJob' /\ ExitedOnlyWhenDone'
      BY <1>0, <1>1, <3>1 DEF BusyHasJob, ExitedOnlyWhenDone
    <3>. QED
      BY <1>0, <3>1, <3>2, <3>3
  <2>. QED
    BY <2>1, <2>2
<1>3. TypeOK'
  BY <1>0, <1>1, <1>2 DEF TypeOK
<1>4. QueuesWellFormed'
  BY <1>0, <1>1 DEF QueuesWellFormed
<1>5. \A d \in Directions : TokensFit(Tokens(d), wpc', d)
  BY <1>0, <1>2, TokensFitKept
<1>6. \A d \in Directions : Tokens(d)' = Tokens(d)
  BY <1>1 DEF Tokens
<1>7. OneTokenPerWorker'
  BY <1>5, <1>6 DEF OneTokenPerWorker, TokensFit
<1>. QED
  BY <1>2, <1>3, <1>4, <1>7 DEF IInvTokens, IInvTypes

\* The ids of a direction that wait or are worked on, leaving out the workers of S.
JobsBut(d, S) == {job[w] : w \in {v \in WorkersOf(d) \ S : wpc[v] = "busy"}}
HandsBut(d, S) == OnChannel(d) \cup QueueIds(queue[d]) \cup JobsBut(d, S)
Hands(d) == HandsBut(d, {})

LEMMA ElementsOfTail ==
    ASSUME NEW S, NEW s \in Seq(S), s # <<>>
    PROVE  Elements(s) = Elements(Tail(s)) \cup {Head(s)}
<1>1. /\ Len(s) \in Nat /\ Len(s) > 0 /\ DOMAIN s = 1..Len(s) /\ Head(s) = s[1]
      /\ DOMAIN Tail(s) = 1..(Len(s) - 1)
      /\ \A i \in 1..(Len(s) - 1) : Tail(s)[i] = s[i + 1]
  OBVIOUS
<1>2. ASSUME NEW i \in DOMAIN Tail(s) PROVE Tail(s)[i] \in Elements(s)
  <2>1. i + 1 \in DOMAIN s
    BY <1>1
  <2>. QED
    BY <2>1, <1>1 DEF Elements
<1>3. ASSUME NEW i \in DOMAIN s, i # 1 PROVE s[i] \in Elements(Tail(s))
  <2>1. i - 1 \in DOMAIN Tail(s) /\ Tail(s)[i - 1] = s[i]
    BY <1>1, <1>3
  <2>. QED
    BY <2>1 DEF Elements
<1>4. Head(s) \in Elements(s)
  BY <1>1 DEF Elements
<1>. QED
  BY <1>1, <1>2, <1>3, <1>4 DEF Elements

LEMMA ElementsOfAppend ==
    ASSUME NEW S, NEW s \in Seq(S), NEW x \in S
    PROVE  Elements(Append(s, x)) = Elements(s) \cup {x}
<1>1. /\ Len(s) \in Nat /\ DOMAIN s = 1..Len(s)
      /\ DOMAIN Append(s, x) = 1..(Len(s) + 1)
      /\ \A i \in 1..Len(s) : Append(s, x)[i] = s[i]
      /\ Append(s, x)[Len(s) + 1] = x
  OBVIOUS
<1>2. ASSUME NEW i \in 1..(Len(s) + 1) PROVE Append(s, x)[i] \in Elements(s) \cup {x}
  <2>1. CASE i = Len(s) + 1
    BY <2>1, <1>1
  <2>2. CASE i # Len(s) + 1
    <3>1. i \in DOMAIN s /\ Append(s, x)[i] = s[i]
      BY <2>2, <1>1
    <3>. QED
      BY <3>1 DEF Elements
  <2>. QED
    BY <2>1, <2>2
<1>3. ASSUME NEW i \in DOMAIN s PROVE s[i] \in Elements(Append(s, x))
  <2>1. i \in 1 .. Len(s) + 1 /\ Append(s, x)[i] = s[i]
    BY <1>1
  <2>. QED
    BY <2>1, <1>1 DEF Elements
<1>4. x \in Elements(Append(s, x))
  <2>1. Len(s) + 1 \in DOMAIN Append(s, x)
    BY <1>1
  <2>. QED
    BY <2>1, <1>1 DEF Elements
<1>5. Elements(Append(s, x)) \subseteq Elements(s) \cup {x}
  BY <1>1, <1>2 DEF Elements
<1>6. Elements(s) \subseteq Elements(Append(s, x))
  BY <1>3 DEF Elements
<1>. QED
  BY <1>4, <1>5, <1>6

LEMMA HandsStay ==
    ASSUME NEW S, UNCHANGED <<offered, chIncoming, queue, job>>,
           \A w \in Workers : wpc'[w] = "busy" <=> wpc[w] = "busy"
    PROVE  \A d \in Directions : HandsBut(d, S)' = HandsBut(d, S)
<1>1. \A d \in Directions : JobsBut(d, S)' = JobsBut(d, S)
  BY SendersAndReceivers DEF JobsBut, WorkersOf
<1>. QED
  BY <1>1 DEF HandsBut, OnChannel

\* The dispatcher moves ids from the channels to the queues and from there to
\* the workers, and loses none.
LEMMA HandsMove ==
    ASSUME IInvTokens, DispatcherStep, NEW S, \A w \in S \cap Workers : wpc[w] = "busy"
    PROVE  \A d \in Directions : HandsBut(d, S)' = HandsBut(d, S)
<1>. USE DEF dispatcherVars, channelVars, workerVars, stopVars, historyVars
<1>0. /\ queue \in [Directions -> [high : Seq(Id), low : Seq(Id)]]
      /\ wpc \in [Workers -> {"new", "announce", "idle", "busy", "exited"}]
      /\ job \in [Workers -> Id \cup {NoJob}]
      /\ chIncoming \in Seq(Id) /\ offered \subseteq Id
      /\ \A d \in Directions : /\ available[d] \in Seq(Workers) /\ ready[d] \in Seq(Workers)
                               /\ WellFormedQueue(queue[d])
                               /\ TokensFit(Tokens(d), wpc, d)
      /\ "outgoing" \in Directions /\ "incoming" \in Directions
      /\ \A d \in Directions : d # "outgoing" <=> d = "incoming"
      /\ \A d \in Directions : WorkersOf(d) \subseteq Workers
  BY OneTokenIsTokensFit, SendersAndReceivers
  DEF IInvTokens, IInvTypes, TypeOK, QueuesWellFormed, Directions
<1>1. CASE DispatcherBegin \/ MatchEnd \/ DispatcherExit \/ \E d \in Directions : ReceiveReady(d)
  <2>1. UNCHANGED <<offered, chIncoming, queue, job, wpc>>
    BY <1>1 DEF DispatcherBegin, MatchEnd, DispatcherExit, ReceiveReady
  <2>. QED
    BY <2>1, HandsStay
<1>2. ASSUME NEW id \in offered, ReceiveOutgoing(id)
      PROVE  \A d \in Directions : HandsBut(d, S)' = HandsBut(d, S)
  <2>1. /\ offered' = offered \ {id} /\ UNCHANGED <<chIncoming, job, wpc>>
        /\ queue' = [queue EXCEPT !["outgoing"] = Insert(@, id)]
    BY <1>2 DEF ReceiveOutgoing
  <2>2. \A d \in Directions : JobsBut(d, S)' = JobsBut(d, S)
    BY <2>1 DEF JobsBut, WorkersOf
  <2>3. QueueIds(queue'["outgoing"]) = QueueIds(queue["outgoing"]) \cup {id}
    <3>1. id \in Id /\ queue'["outgoing"] = Insert(queue["outgoing"], id)
      BY <1>0, <2>1
    <3>. QED
      BY <1>0, <3>1, InsertKeepsWellFormed
  <2>4. HandsBut("outgoing", S)' = HandsBut("outgoing", S)
    BY <1>0, <2>1, <2>2, <2>3 DEF HandsBut, OnChannel
  <2>5. HandsBut("incoming", S)' = HandsBut("incoming", S)
    BY <1>0, <2>1, <2>2 DEF HandsBut, OnChannel
  <2>. QED
    BY <1>0, <2>4, <2>5
<1>3. CASE ReceiveIncoming
  <2>1. /\ chIncoming' = Tail(chIncoming) /\ chIncoming # <<>> /\ UNCHANGED <<offered, job, wpc>>
        /\ queue' = [queue EXCEPT !["incoming"] = Insert(@, Head(chIncoming))]
    BY <1>3 DEF ReceiveIncoming
  <2>2. \A d \in Directions : JobsBut(d, S)' = JobsBut(d, S)
    BY <2>1 DEF JobsBut, WorkersOf
  <2>3. Elements(chIncoming) = Elements(chIncoming') \cup {Head(chIncoming)} /\ Head(chIncoming) \in Id
    BY <1>0, <2>1, ElementsOfTail
  <2>4. QueueIds(queue'["incoming"]) = QueueIds(queue["incoming"]) \cup {Head(chIncoming)}
    <3>1. queue'["incoming"] = Insert(queue["incoming"], Head(chIncoming))
      BY <1>0, <2>1
    <3>. QED
      BY <1>0, <2>3, <3>1, InsertKeepsWellFormed
  <2>5. HandsBut("incoming", S)' = HandsBut("incoming", S)
    BY <1>0, <2>1, <2>2, <2>3, <2>4 DEF HandsBut, OnChannel
  <2>6. HandsBut("outgoing", S)' = HandsBut("outgoing", S)
    BY <1>0, <2>1, <2>2 DEF HandsBut, OnChannel
  <2>. QED
    BY <1>0, <2>5, <2>6
<1>4. ASSUME NEW d \in Directions, GiveJob(d)
      PROVE  \A e \in Directions : HandsBut(e, S)' = HandsBut(e, S)
  <2>0. PICK w : w = Head(available[d])
    OBVIOUS
  <2>1. /\ available[d] # <<>> /\ QueueLen(queue[d]) > 0
        /\ wpc[w] = "idle" /\ wpc' = [wpc EXCEPT ![w] = "busy"]
        /\ job' = [job EXCEPT ![w] = PopId(queue[d])]
        /\ queue' = [queue EXCEPT ![d] = PopRest(@)]
        /\ UNCHANGED <<chIncoming, offered>>
    BY <1>4, <2>0 DEF GiveJob, Matching, Pairable
  <2>2. w \in WorkersOf(d) /\ w \in Workers
    <3>0. available[d] \in Seq(Workers) /\ available[d] # <<>> /\ ready[d] \in Seq(Workers)
      BY <1>0, <2>1
    <3>1. 1 \in DOMAIN Tokens(d) /\ Tokens(d)[1] = Head(available[d])
      BY <3>0, HeadOfConcat, ZenonT(30) DEF Tokens
    <3>. QED
      BY <1>0, <2>0, <3>1 DEF TokensFit, Elements
  <2>3. w \notin S
    BY <2>1, <2>2
  <2>4. JobsBut(d, S)' = JobsBut(d, S) \cup {PopId(queue[d])}
    <3>1. \A x : x \in JobsBut(d, S)' <=> \E v \in WorkersOf(d) \ S : wpc'[v] = "busy" /\ job'[v] = x
      BY DEF JobsBut, WorkersOf
    <3>2. \A x : x \in JobsBut(d, S) <=> \E v \in WorkersOf(d) \ S : wpc[v] = "busy" /\ job[v] = x
      BY DEF JobsBut
    <3>3. wpc'[w] = "busy" /\ job'[w] = PopId(queue[d])
      BY <1>0, <2>1, <2>2
    <3>4. \A v \in WorkersOf(d) \ {w} : wpc'[v] = wpc[v] /\ job'[v] = job[v]
      BY <1>0, <2>1
    <3>5. ASSUME NEW x \in JobsBut(d, S)' PROVE x \in JobsBut(d, S) \cup {PopId(queue[d])}
      <4>1. PICK v \in WorkersOf(d) \ S : wpc'[v] = "busy" /\ job'[v] = x
        BY <3>1, <3>5
      <4>. QED
        BY <3>2, <3>3, <3>4, <4>1
    <3>6. ASSUME NEW x \in JobsBut(d, S) PROVE x \in JobsBut(d, S)'
      <4>1. PICK v \in WorkersOf(d) \ S : wpc[v] = "busy" /\ job[v] = x
        BY <3>2, <3>6
      <4>2. v # w
        BY <2>1, <4>1
      <4>. QED
        BY <3>1, <3>4, <4>1, <4>2
    <3>7. PopId(queue[d]) \in JobsBut(d, S)'
      BY <2>2, <2>3, <3>1, <3>3
    <3>. QED
      BY <3>5, <3>6, <3>7
  <2>5. QueueIds(queue[d]) = QueueIds(queue'[d]) \cup {PopId(queue[d])}
    <3>1. queue'[d] = PopRest(queue[d])
      BY <1>0, <2>1
    <3>. QED
      BY <1>0, <2>1, <3>1, PopTakesSmallest
  <2>6. HandsBut(d, S)' = HandsBut(d, S)
    <3>1. OnChannel(d)' = OnChannel(d)
      BY <2>1 DEF OnChannel
    <3>. QED
      BY <2>4, <2>5, <3>1 DEF HandsBut
  <2>7. ASSUME NEW e \in Directions, e # d PROVE HandsBut(e, S)' = HandsBut(e, S)
    <3>1. \A v \in WorkersOf(e) : v # w
      BY <2>2, <2>7, SendersAndReceivers
    <3>2. JobsBut(e, S)' = JobsBut(e, S)
      <4>1. \A v \in WorkersOf(e) : wpc'[v] = wpc[v] /\ job'[v] = job[v]
        BY <1>0, <2>1, <3>1
      <4>. QED
        BY <4>1 DEF JobsBut, WorkersOf
    <3>3. OnChannel(e)' = OnChannel(e) /\ queue'[e] = queue[e]
      BY <1>0, <2>1, <2>7 DEF OnChannel
    <3>. QED
      BY <3>2, <3>3 DEF HandsBut
  <2>. QED
    BY <2>6, <2>7
<1>. QED
  BY <1>1, <1>2, <1>3, <1>4 DEF DispatcherStep

-----------------------------------------------------------------------------
(* The inductive invariant *)

EngineTypes ==
    /\ phase \in [Workers -> {"load", "mark", "echo", "post", "query", "limited"}]
    /\ held \in [Workers -> HeldMsg \cup {BlankMsg}]
    /\ mpc \in {"start", "outbox", "inbox", "serving"}
    /\ backlog \subseteq MsgIds
    /\ rpc \in [Requests -> {"new", "found", "missing", "offering", "ok", "error", "lost"}]
    /\ rid \in [Requests -> MsgIds \cup {0}]
    /\ deletion \in {"none", "stopping", "forgotten", "deleted"}
    /\ crashes \in 0 .. MaxTroubles + 1 /\ faults \in 0 .. MaxFaults
    /\ transmitted \in [MsgIds -> Nat] /\ forwarded \in [MsgIds -> Nat]
    /\ raced \subseteq MsgIds

\* Where worker w can be in its loop body with the message m: it sends and marks
\* what it loaded, and a sender holds and echoes what a request said.  (The phases
\* "query" and "limited" are those of the senders of module Twitter.)
BodyFits(w, pc, ph, m, j, d) ==
    /\ pc # "busy" => ph = "load"
    /\ ph = "load" => m = BlankMsg
    /\ ph \in {"query", "limited"} => m # BlankMsg
    /\ ph \in {"mark", "query", "limited"} /\ m # BlankMsg => Loaded(m, d) /\ m.id = j
    /\ ph = "post" => m \in HeldMsg
    /\ w \in Senders /\ ph # "post" /\ m # BlankMsg => m.text \in Requests
    /\ w \in Receivers => ph \in {"load", "mark"}

WorkerFits(w) == BodyFits(w, wpc[w], phase[w], held[w], job[w], db)

\* What goes to the senders is in the outbox or has been sent.
OnTheWay == Hands("outgoing") \cup (IF mpc = "outbox" THEN backlog ELSE {})
HandsFit == Exists => OnTheWay \subseteq Outgoing(db[Conn])

\* So is what was accepted, and it says what the client said.
AnswersFit ==
    Exists => \A r \in Requests :
        rpc[r] \in {"offering", "ok"} =>
            rid[r] \in Outgoing(db[Conn]) /\ db[Conn].msgs[rid[r]].text = r

MainFits ==
    /\ Exists <=> deletion # "deleted"
    /\ mpc # "serving" => deletion = "none"

IInvEngine ==
    /\ IInvTokens /\ EngineTypes /\ DbFits(db)
    /\ \A w \in Workers : WorkerFits(w)
    /\ HandsFit /\ AnswersFit /\ MainFits

LEMMA BodyFresh ==
    ASSUME NEW w, NEW pc, NEW j, NEW d
    PROVE  BodyFits(w, pc, "load", BlankMsg, j, d)
BY DEF BodyFits

LEMMA BodyKept ==
    ASSUME NEW w, NEW ph, NEW m, NEW pc, NEW j, NEW d, BodyFits(w, pc, ph, m, j, d),
           NEW pc2, NEW j2, NEW e,
           pc2 = "busy" <=> pc = "busy", pc = "busy" => j2 = j, KeepsMessages(d, e)
    PROVE  BodyFits(w, pc2, ph, m, j2, e)
<1>1. ASSUME ph \in {"mark", "query", "limited"}, m # BlankMsg
      PROVE  Loaded(m, e) /\ m.id = j2
  <2>1. Loaded(m, d) /\ m.id = j /\ pc = "busy"
    BY <1>1 DEF BodyFits
  <2>2. Loaded(m, e)
    BY <2>1 DEF Loaded, KeepsMessages
  <2>. QED
    BY <2>1, <2>2
<1>. QED
  BY <1>1 DEF BodyFits

\* A worker to which a step does nothing.
Untouched(w) ==
    /\ phase'[w] = phase[w] /\ held'[w] = held[w]
    /\ wpc'[w] = "busy" <=> wpc[w] = "busy"
    /\ wpc[w] = "busy" => job'[w] = job[w]

\* What a step has to show for the invariant to stay.
LEMMA EngineKept ==
    ASSUME IInvEngine, IInvTokens', EngineTypes', DbFits(db'), KeepsMessages(db, db'),
           \A w \in Workers : Untouched(w) \/ WorkerFits(w)',
           HasBucket(db', Conn) => OnTheWay' \subseteq OnTheWay \cup Outgoing(db'[Conn]),
           \A r \in Requests :
               \/ rpc'[r] \notin {"offering", "ok"}
               \/ rpc[r] \in {"offering", "ok"} /\ rid'[r] = rid[r]
               \/ HasBucket(db', Conn) => /\ rid'[r] \in Outgoing(db'[Conn])
                                          /\ db'[Conn].msgs[rid'[r]].text = r,
           MainFits'
    PROVE  IInvEngine'
<1>0. /\ \A w \in Workers : WorkerFits(w)
      /\ HandsFit /\ AnswersFit
  BY DEF IInvEngine
<1>1. ASSUME NEW w \in Workers PROVE WorkerFits(w)'
  <2>1. CASE Untouched(w)
    <3>1. BodyFits(w, wpc[w], phase[w], held[w], job[w], db)
      BY <1>0 DEF WorkerFits
    <3>2. BodyFits(w, wpc'[w], phase[w], held[w], job'[w], db')
      BY <2>1, <3>1, BodyKept DEF Untouched
    <3>. QED
      BY <2>1, <3>2 DEF WorkerFits, Untouched
  <2>. QED
    BY <2>1
<1>2. HandsFit'
  BY <1>0 DEF HandsFit, Exists, KeepsMessages
<1>3. AnswersFit'
  <2>. SUFFICES ASSUME HasBucket(db', Conn), NEW r \in Requests, rpc'[r] \in {"offering", "ok"}
                PROVE  rid'[r] \in Outgoing(db'[Conn]) /\ db'[Conn].msgs[rid'[r]].text = r
    BY DEF AnswersFit, Exists
  <2>1. CASE rpc[r] \in {"offering", "ok"} /\ rid'[r] = rid[r]
    <3>1. HasBucket(db, Conn) /\ rid[r] \in Outgoing(db[Conn]) /\ db[Conn].msgs[rid[r]].text = r
      BY <1>0, <2>1 DEF AnswersFit, Exists, KeepsMessages
    <3>2. rid[r] \in Filed(db[Conn])
      BY <3>1 DEF Filed
    <3>. QED
      BY <2>1, <3>1, <3>2 DEF KeepsMessages
  <2>. QED
    BY <2>1
<1>. QED
  BY <1>1, <1>2, <1>3 DEF IInvEngine

LEMMA EngineStarts == EngineInit => IInvEngine
<1>. SUFFICES ASSUME EngineInit PROVE IInvEngine
  OBVIOUS
<1>1. IInvTokens
  BY TokensInit DEF EngineInit
<1>2. EngineTypes
  <2>1. MaxFaults \in Nat /\ MaxTroubles \in Nat
    BY EngineAssumption
  <2>2. 0 \in 0 .. MaxTroubles + 1 /\ 0 \in 0 .. MaxFaults
    BY <2>1
  <2>. QED
    BY <2>2 DEF EngineInit, EngineTypes
<1>3. db = [c \in {Conn} |-> NewBucket]
  <2>1. DOMAIN << >> = {}
    OBVIOUS
  <2>2. ~HasBucket(<< >>, Conn)
    BY <2>1, Zenon DEF HasBucket
  <2>3. db = Put(<< >>, Conn, NewBucket)
    BY <2>2 DEF EngineInit, SaveConnection
  <2>4. db = [c \in DOMAIN << >> \cup {Conn} |-> IF c = Conn THEN NewBucket ELSE << >>[c]]
    BY <2>3 DEF Put
  <2>5. DOMAIN << >> \cup {Conn} = {Conn}
    BY <2>1, Zenon
  <2>. QED
    BY <2>4, <2>5
<1>4. Exists /\ db[Conn] = NewBucket /\ DOMAIN db = {Conn}
  BY <1>3 DEF Exists, HasBucket
<1>5. BucketFits(NewBucket)
  <2>1. /\ NewBucket.seq = 0 /\ NewBucket.msgs = << >>
        /\ NewBucket.box = [b \in BoxNames |-> {}]
    BY DEF NewBucket
  <2>2. Filed(NewBucket) = {} /\ Outgoing(NewBucket) = {}
    BY <2>1 DEF Filed, Outgoing, BoxNames
  <2>3. DOMAIN NewBucket.msgs = {}
    BY <2>1
  <2>4. MessagesFit(NewBucket)
    BY <2>2, <2>3 DEF MessagesFit
  <2>5. BoxesFit(NewBucket)
    BY <2>1 DEF BoxesFit, BoxNames, Outgoing
  <2>6. MaxSeq \in Nat
    BY EngineAssumption
  <2>7. 0 \in 0 .. MaxSeq
    BY <2>6
  <2>. QED
    BY <2>1, <2>4, <2>5, <2>7 DEF BucketFits
<1>6. DbFits(db)
  BY <1>4, <1>5 DEF DbFits
<1>7. ASSUME NEW w \in Workers PROVE WorkerFits(w)
  <2>1. phase[w] = "load" /\ held[w] = BlankMsg
    BY DEF EngineInit
  <2>. QED
    BY <2>1, BodyFresh DEF WorkerFits
<1>8. HandsFit
  <2>1. offered = {} /\ queue["outgoing"] = EmptyQueue /\ \A w \in Workers : wpc[w] = "new"
    BY DEF EngineInit, Init, Directions
  <2>2. JobsBut("outgoing", {}) = {}
    BY <2>1 DEF JobsBut, WorkersOf, Workers
  <2>3. QueueIds(EmptyQueue) = {}
    BY EmptyIsWellFormed
  <2>4. OnTheWay = {}
    BY <2>1, <2>2, <2>3 DEF OnTheWay, Hands, HandsBut, OnChannel, EngineInit
  <2>. QED
    BY <2>4 DEF HandsFit
<1>9. AnswersFit /\ MainFits
  BY <1>4 DEF EngineInit, AnswersFit, MainFits
<1>. QED
  BY <1>1, <1>2, <1>6, <1>7, <1>8, <1>9 DEF IInvEngine

-----------------------------------------------------------------------------
(* The steps of the goroutines' loops *)

QuietLoopStep ==
    \/ DispatcherStep \/ StopClose \/ StopWait
    \/ \E d \in Directions : \E w \in WorkersOf(d) :
          WorkerBegin(w) \/ Announce(d, w) \/ WorkerExit(w)

LEMMA BusyStays ==
    ASSUME IInvTokens, QuietLoopStep
    PROVE  \A w \in Workers : wpc[w] = "busy" => wpc'[w] = "busy" /\ job'[w] = job[w]
<1>. USE DEF dispatcherVars, channelVars, workerVars, stopVars, historyVars
<1>0. /\ wpc \in [Workers -> {"new", "announce", "idle", "busy", "exited"}]
      /\ job \in [Workers -> Id \cup {NoJob}]
      /\ \A d \in Directions : WorkersOf(d) \subseteq Workers
  BY SendersAndReceivers DEF IInvTokens, IInvTypes, TypeOK
<1>1. CASE \/ DispatcherBegin \/ MatchEnd \/ DispatcherExit \/ StopClose \/ StopWait \/ ReceiveIncoming
           \/ (\E d \in Directions : ReceiveReady(d)) \/ (\E id \in offered : ReceiveOutgoing(id))
  <2>1. UNCHANGED <<wpc, job>>
    BY <1>1 DEF DispatcherBegin, MatchEnd, DispatcherExit, StopClose, StopWait, ReceiveIncoming,
                ReceiveReady, ReceiveOutgoing
  <2>. QED
    BY <2>1
<1>2. ASSUME NEW d \in Directions, GiveJob(d)
      PROVE  \A w \in Workers : wpc[w] = "busy" => wpc'[w] = "busy" /\ job'[w] = job[w]
  <2>. PICK v : v = Head(available[d])
    OBVIOUS
  <2>1. /\ wpc[v] = "idle" /\ wpc' = [wpc EXCEPT ![v] = "busy"]
        /\ job' = [job EXCEPT ![v] = PopId(queue[d])]
    BY <1>2 DEF GiveJob
  <2>. QED
    BY <1>0, <2>1
<1>3. ASSUME NEW d \in Directions, NEW v \in WorkersOf(d),
             WorkerBegin(v) \/ Announce(d, v) \/ WorkerExit(v)
      PROVE  \A w \in Workers : wpc[w] = "busy" => wpc'[w] = "busy" /\ job'[w] = job[w]
  <2>1. /\ wpc[v] # "busy" /\ job' = job
        /\ \E to \in {"announce", "idle", "exited"} : wpc' = [wpc EXCEPT ![v] = to]
    BY <1>3 DEF WorkerBegin, Announce, WorkerExit
  <2>. QED
    BY <1>0, <2>1
<1>. QED
  BY <1>1, <1>2, <1>3 DEF QuietLoopStep, DispatcherStep

LEMMA HandsOfLoop ==
    ASSUME IInvTokens, QuietLoopStep, NEW S, \A w \in S \cap Workers : wpc[w] = "busy"
    PROVE  \A d \in Directions : HandsBut(d, S)' = HandsBut(d, S)
<1>. USE DEF dispatcherVars, channelVars, workerVars, stopVars, historyVars
<1>0. /\ wpc \in [Workers -> {"new", "announce", "idle", "busy", "exited"}]
      /\ \A d \in Directions : WorkersOf(d) \subseteq Workers
  BY SendersAndReceivers DEF IInvTokens, IInvTypes, TypeOK
<1>1. CASE DispatcherStep
  BY <1>1, HandsMove
<1>2. CASE StopClose \/ StopWait
  <2>1. UNCHANGED <<offered, chIncoming, queue, job, wpc>>
    BY <1>2 DEF StopClose, StopWait
  <2>. QED
    BY <2>1, HandsStay
<1>3. ASSUME NEW d \in Directions, NEW v \in WorkersOf(d),
             WorkerBegin(v) \/ Announce(d, v) \/ WorkerExit(v)
      PROVE  \A e \in Directions : HandsBut(e, S)' = HandsBut(e, S)
  <2>1. /\ wpc[v] # "busy" /\ UNCHANGED <<offered, chIncoming, queue, job>>
        /\ \E to \in {"announce", "idle", "exited"} : wpc' = [wpc EXCEPT ![v] = to]
    BY <1>3 DEF WorkerBegin, Announce, WorkerExit
  <2>2. \A w \in Workers : wpc'[w] = "busy" <=> wpc[w] = "busy"
    BY <1>0, <1>3, <2>1
  <2>. QED
    BY <2>1, <2>2, HandsStay
<1>. QED
  BY <1>1, <1>2, <1>3 DEF QuietLoopStep

\* A loop step beside which no message is touched.
LEMMA LoopKept ==
    ASSUME IInvEngine, QuietLoopStep,
           UNCHANGED <<db, phase, held, mpc, backlog, rpc, rid, transmitted, forwarded>>,
           EngineTypes', MainFits'
    PROVE  IInvEngine'
<1>0. IInvTokens /\ EngineTypes /\ DbFits(db) /\ \A w \in Workers : WorkerFits(w)
  BY DEF IInvEngine
<1>1. IInvTokens'
  <2>1. QuietLoopStep => GoroutineStep
    BY DEF QuietLoopStep, GoroutineStep
  <2>. QED
    BY <1>0, <2>1, TokensOfLoop
<1>2. DbFits(db') /\ KeepsMessages(db, db')
  BY <1>0, StoreStays DEF StepFits
<1>3. ASSUME NEW w \in Workers PROVE Untouched(w) \/ WorkerFits(w)'
  <2>1. CASE wpc[w] = "busy"
    BY <1>0, <2>1, BusyStays DEF Untouched
  <2>2. CASE wpc[w] # "busy"
    <3>1. phase'[w] = "load" /\ held'[w] = BlankMsg
      BY <1>0, <2>2 DEF WorkerFits, BodyFits
    <3>. QED
      BY <3>1, BodyFresh DEF WorkerFits
  <2>. QED
    BY <2>1, <2>2
<1>4. OnTheWay' = OnTheWay
  <2>1. \A w \in {} \cap Workers : wpc[w] = "busy"
    OBVIOUS
  <2>2. Hands("outgoing")' = Hands("outgoing")
    BY <1>0, <2>1, HandsOfLoop DEF Hands, Directions
  <2>. QED
    BY <2>2 DEF OnTheWay
<1>. QED
  BY <1>1, <1>2, <1>3, <1>4, EngineKept

-----------------------------------------------------------------------------
(* The steps of main, of the requests and of a deletion *)

\* What a step of the outside has to show that touches no goroutine's loop and no
\* worker's body.
LEMMA OutsideKept ==
    ASSUME IInvEngine, UNCHANGED <<vars, phase, held, transmitted, forwarded>>,
           EngineTypes', DbFits(db'), KeepsMessages(db, db'),
           mpc' = "outbox" /\ HasBucket(db', Conn) => backlog' \subseteq Outgoing(db'[Conn]),
           \A r \in Requests : rpc'[r] \in {"offering", "ok"} =>
                                   rpc[r] \in {"offering", "ok"} /\ rid'[r] = rid[r],
           MainFits'
    PROVE  IInvEngine'
<1>. USE DEF vars, dispatcherVars, channelVars, workerVars, stopVars, historyVars
<1>1. IInvTokens'
  BY TokensOfLoop DEF IInvEngine
<1>2. \A w \in Workers : Untouched(w)
  BY DEF Untouched
<1>3. Hands("outgoing")' = Hands("outgoing")
  BY HandsStay DEF Hands, Directions
<1>4. HasBucket(db', Conn) => OnTheWay' \subseteq OnTheWay \cup Outgoing(db'[Conn])
  BY <1>3 DEF OnTheWay
<1>. QED
  BY <1>1, <1>2, <1>4, EngineKept

LEMMA KeepsItself == IInvEngine => DbFits(db) /\ KeepsMessages(db, db)
BY StoreStays DEF IInvEngine, StepFits

LEMMA BoxesOfIds ==
    IInvEngine /\ Exists =>
        /\ \A b \in BoxNames : BoxIds(db, Conn, b) \subseteq MsgIds
        /\ Filed(db[Conn]) \subseteq MsgIds
        /\ BoxIds(db, Conn, "outbox") \subseteq Outgoing(db[Conn])
<1>. SUFFICES ASSUME IInvEngine, Exists
              PROVE  /\ \A b \in BoxNames : BoxIds(db, Conn, b) \subseteq MsgIds
                     /\ Filed(db[Conn]) \subseteq MsgIds
                     /\ BoxIds(db, Conn, "outbox") \subseteq Outgoing(db[Conn])
  OBVIOUS
<1>1. BucketFits(db[Conn])
  BY DEF IInvEngine, DbFits, Exists
<1>2. Drawn(db[Conn].seq) \subseteq MsgIds
  BY <1>1, DrawnAreIds DEF BucketFits
<1>3. \A b \in BoxNames : db[Conn].box[b] \subseteq MsgIds
  BY <1>1, <1>2 DEF BucketFits, BoxesFit
<1>. QED
  BY <1>3 DEF BoxIds, Outgoing, Filed, BoxNames

LEMMA OutsideKeeps ==
    ASSUME IInvEngine,
           \/ ReadOutbox \/ ReadInbox \/ StartServer \/ ForgetEngine \/ EndDelete
           \/ \E r \in Requests : LookUp(r) \/ Respond(r)
    PROVE  IInvEngine'
<1>. USE DEF mainVars, requestVars, outsideVars, countVars, bodyVars
<1>0. /\ EngineTypes /\ DbFits(db) /\ KeepsMessages(db, db) /\ MainFits /\ HandsFit
      /\ mpc # "serving" => Exists
  BY KeepsItself DEF IInvEngine, MainFits
<1>1. CASE ReadOutbox
  <2>1. UNCHANGED <<vars, phase, held, transmitted, forwarded, db, rpc, rid, deletion, crashes, faults, raced>>
    BY <1>1 DEF ReadOutbox
  <2>2. mpc = "start" /\ mpc' = "outbox" /\ backlog' = BoxIds(db, Conn, "outbox") /\ Exists
    BY <1>0, <1>1 DEF ReadOutbox
  <2>3. backlog' \subseteq MsgIds /\ backlog' \subseteq Outgoing(db[Conn])
    BY <2>2, BoxesOfIds DEF BoxNames
  <2>4. EngineTypes'
    BY <1>0, <2>1, <2>2, <2>3 DEF EngineTypes
  <2>5. MainFits'
    BY <1>0, <2>1, <2>2 DEF MainFits, Exists
  <2>. QED
    BY <1>0, <2>1, <2>3, <2>4, <2>5, OutsideKept
<1>2. CASE ReadInbox
  <2>1. UNCHANGED <<vars, phase, held, transmitted, forwarded, db, rpc, rid, deletion, crashes, faults, raced>>
    BY <1>2 DEF ReadInbox
  <2>2. mpc = "outbox" /\ mpc' = "inbox" /\ backlog' = BoxIds(db, Conn, "inbox") /\ Exists
    BY <1>0, <1>2 DEF ReadInbox
  <2>3. backlog' \subseteq MsgIds
    BY <2>2, BoxesOfIds DEF BoxNames
  <2>4. EngineTypes'
    BY <1>0, <2>1, <2>2, <2>3 DEF EngineTypes
  <2>5. MainFits'
    BY <1>0, <2>1, <2>2 DEF MainFits, Exists
  <2>. QED
    BY <1>0, <2>1, <2>2, <2>4, <2>5, OutsideKept
<1>3. CASE StartServer
  <2>1. UNCHANGED <<vars, phase, held, transmitted, forwarded, db, rpc, rid, deletion, crashes, faults, raced, backlog>>
    BY <1>3 DEF StartServer
  <2>2. mpc = "inbox" /\ mpc' = "serving"
    BY <1>3 DEF StartServer
  <2>3. EngineTypes'
    BY <1>0, <2>1, <2>2 DEF EngineTypes
  <2>4. MainFits'
    BY <1>0, <2>1, <2>2 DEF MainFits, Exists
  <2>. QED
    BY <1>0, <2>1, <2>2, <2>3, <2>4, OutsideKept
<1>4. CASE ForgetEngine
  <2>1. UNCHANGED <<vars, phase, held, transmitted, forwarded, db, rpc, rid, crashes, faults, raced, mpc, backlog>>
    BY <1>4 DEF ForgetEngine
  <2>2. deletion = "stopping" /\ deletion' = "forgotten"
    BY <1>4 DEF ForgetEngine
  <2>3. EngineTypes'
    BY <1>0, <2>1, <2>2 DEF EngineTypes
  <2>4. MainFits'
    BY <1>0, <2>1, <2>2 DEF MainFits, Exists
  <2>5. mpc # "outbox"
    BY <1>0, <2>2 DEF MainFits
  <2>. QED
    BY <1>0, <2>1, <2>3, <2>4, <2>5, OutsideKept
<1>5. CASE EndDelete
  <2>1. UNCHANGED <<vars, phase, held, transmitted, forwarded, rpc, rid, crashes, faults, raced, mpc, backlog>>
    BY <1>5 DEF EndDelete
  <2>2. deletion = "forgotten" /\ deletion' = "deleted" /\ db' = DeleteConnection(db, Conn)
    BY <1>5 DEF EndDelete
  <2>3. DOMAIN db' = {} /\ ~HasBucket(db', Conn)
    BY <1>0, <2>2 DEF DeleteConnection, DbFits, HasBucket
  <2>4. EngineTypes'
    BY <1>0, <2>1, <2>2 DEF EngineTypes
  <2>5. MainFits'
    BY <1>0, <2>1, <2>2, <2>3 DEF MainFits, Exists
  <2>6. DbFits(db') /\ KeepsMessages(db, db')
    BY <2>3 DEF DbFits, KeepsMessages
  <2>. QED
    BY <1>0, <2>1, <2>3, <2>4, <2>5, <2>6, OutsideKept
<1>6. ASSUME NEW r \in Requests, LookUp(r) PROVE IInvEngine'
  <2>1. UNCHANGED <<vars, phase, held, transmitted, forwarded, db, rid, deletion, crashes, faults, raced, mpc, backlog>>
    BY <1>6 DEF LookUp
  <2>2. \E to \in {"found", "missing"} : rpc' = [rpc EXCEPT ![r] = to]
    BY <1>6 DEF LookUp
  <2>3. EngineTypes'
    BY <1>0, <2>1, <2>2 DEF EngineTypes
  <2>4. MainFits'
    BY <1>0, <2>1 DEF MainFits, Exists
  <2>5. mpc # "outbox"
    BY <1>6 DEF LookUp
  <2>6. \A q \in Requests : rpc'[q] \in {"offering", "ok"} => rpc[q] \in {"offering", "ok"}
    BY <1>0, <2>2 DEF EngineTypes
  <2>. QED
    BY <1>0, <2>1, <2>3, <2>4, <2>5, <2>6, OutsideKept
<1>7. ASSUME NEW r \in Requests, Respond(r) PROVE IInvEngine'
  <2>1. UNCHANGED <<vars, phase, held, transmitted, forwarded, db, rid, deletion, crashes, faults, raced, mpc, backlog>>
    BY <1>7 DEF Respond
  <2>2. rpc[r] = "offering" /\ rpc' = [rpc EXCEPT ![r] = "ok"]
    BY <1>7 DEF Respond
  <2>3. EngineTypes'
    BY <1>0, <2>1, <2>2 DEF EngineTypes
  <2>4. MainFits'
    BY <1>0, <2>1 DEF MainFits, Exists
  <2>5. mpc = "outbox" /\ HasBucket(db, Conn) => backlog \subseteq Outgoing(db[Conn])
    BY <1>0 DEF HandsFit, OnTheWay, Exists
  <2>6. \A q \in Requests : rpc'[q] \in {"offering", "ok"} => rpc[q] \in {"offering", "ok"}
    BY <1>0, <2>2 DEF EngineTypes
  <2>. QED
    BY <1>0, <2>1, <2>3, <2>4, <2>5, <2>6, OutsideKept
<1>. QED
  BY <1>1, <1>2, <1>3, <1>4, <1>5, <1>6, <1>7

-----------------------------------------------------------------------------
(* The bodies of the workers' loops *)

\* What a worker loads is blank or a message of the connection.
LEMMA LoadedMessage ==
    ASSUME NEW d, DbFits(d), NEW j, NEW m, m = MsgFromId(d, Conn, j)
    PROVE  \/ m = BlankMsg
           \/ HasBucket(d, Conn) /\ Loaded(m, d) /\ m.id = j /\ j \in Filed(d[Conn])
<1>1. ASSUME HasBucket(d, Conn), j \in DOMAIN d[Conn].msgs
      PROVE  Loaded(m, d) /\ m.id = j /\ j \in Filed(d[Conn])
  <2>1. BucketFits(d[Conn]) /\ m = d[Conn].msgs[j]
    BY <1>1 DEF DbFits, MsgFromId
  <2>2. m \in HeldMsg /\ m.id = j /\ j \in Filed(d[Conn])
    BY <1>1, <2>1 DEF BucketFits, MessagesFit
  <2>3. Filed(d[Conn]) \subseteq MsgIds
    <3>1. Drawn(d[Conn].seq) \subseteq MsgIds
      BY <2>1, DrawnAreIds DEF BucketFits
    <3>. QED
      BY <2>1, <3>1 DEF BucketFits, BoxesFit, Filed, Outgoing, BoxNames
  <2>. QED
    BY <2>1, <2>2, <2>3 DEF Loaded
<1>. QED
  BY <1>1 DEF MsgFromId

LEMMA TransactFits ==
    ASSUME faults \in 0 .. MaxFaults, NEW o, Transact(o)
    PROVE  faults' \in 0 .. MaxFaults /\ db' = o.db
<1>1. MaxFaults \in Nat
  BY EngineAssumption
<1>2. CASE o.fault
  BY <1>1, <1>2 DEF Transact
<1>3. CASE ~o.fault
  BY <1>1, <1>3 DEF Transact
<1>. QED
  BY <1>2, <1>3

LEMMA HandsShrink ==
    ASSUME UNCHANGED <<offered, queue>>,
           \A v \in Senders : wpc'[v] = "busy" => wpc[v] = "busy" /\ job'[v] = job[v]
    PROVE  Hands("outgoing")' \subseteq Hands("outgoing")
<1>1. JobsBut("outgoing", {})' \subseteq JobsBut("outgoing", {})
  <2>1. \A x : x \in JobsBut("outgoing", {})' <=> \E v \in Senders : wpc'[v] = "busy" /\ job'[v] = x
    BY DEF JobsBut, WorkersOf
  <2>2. \A x : x \in JobsBut("outgoing", {}) <=> \E v \in Senders : wpc[v] = "busy" /\ job[v] = x
    BY DEF JobsBut, WorkersOf
  <2>. QED
    BY <2>1, <2>2
<1>. QED
  BY <1>1 DEF Hands, HandsBut, OnChannel

LEMMA JobIsInHand ==
    ASSUME NEW w \in Senders, wpc[w] = "busy"
    PROVE  job[w] \in Hands("outgoing")
BY DEF Hands, HandsBut, JobsBut, WorkersOf

\* A step of the body in which worker w only changes what it holds, where it is,
\* the counts and the database.
LEMMA BodyStepKept ==
    ASSUME IInvEngine, UNCHANGED <<vars, mpc, backlog, rpc, rid, deletion>>,
           NEW w \in Workers, WorkerFits(w)',
           \A v \in Workers \ {w} : phase'[v] = phase[v] /\ held'[v] = held[v],
           EngineTypes', StepFits(db, db')
    PROVE  IInvEngine'
<1>. USE DEF vars, dispatcherVars, channelVars, workerVars, stopVars, historyVars
<1>1. IInvTokens'
  BY TokensOfLoop DEF IInvEngine
<1>2. \A v \in Workers : Untouched(v) \/ WorkerFits(v)'
  BY DEF Untouched
<1>3. Hands("outgoing")' = Hands("outgoing")
  BY HandsStay DEF Hands, Directions
<1>4. OnTheWay' = OnTheWay
  BY <1>3 DEF OnTheWay
<1>5. MainFits'
  BY DEF IInvEngine, MainFits, Exists, StepFits, SameBuckets
<1>. QED
  BY <1>1, <1>2, <1>4, <1>5, EngineKept DEF StepFits

LEMMA EchoSendKeeps ==
    ASSUME IInvEngine, NEW w \in Senders, EchoSend(w)
    PROVE  IInvEngine'
<1>. USE DEF mainVars, requestVars, outsideVars, countVars, bodyVars
<1>0. /\ EngineTypes /\ DbFits(db) /\ HandsFit /\ WorkerFits(w) /\ w \in Workers
      /\ w \notin Receivers /\ StepFits(db, db)
  BY StoreStays, WorkersAssumption DEF IInvEngine, Workers
<1>1. PICK m : m = MsgFromId(db, Conn, job[w])
  OBVIOUS
<1>2. /\ wpc[w] = "busy" /\ phase' = [phase EXCEPT ![w] = "mark"]
      /\ held' = [held EXCEPT ![w] = m]
      /\ transmitted' = IF m = BlankMsg THEN transmitted
                        ELSE [transmitted EXCEPT ![m.id] = @ + 1]
      /\ UNCHANGED <<vars, db, faults, mpc, backlog, rpc, rid, deletion, crashes, forwarded, raced>>
  BY <1>1 DEF EchoSend
<1>3. \/ m = BlankMsg
      \/ Exists /\ Loaded(m, db) /\ m.id = job[w]
  BY <1>0, <1>1, LoadedMessage DEF Exists
<1>4. m # BlankMsg => m.id \in MsgIds /\ m \in HeldMsg
  BY <1>3 DEF Loaded
<1>5. m # BlankMsg => m.text \in Requests
  <2>. SUFFICES ASSUME m # BlankMsg PROVE m.text \in Requests
    OBVIOUS
  <2>1. Exists /\ Loaded(m, db) /\ m.id \in Outgoing(db[Conn])
    BY <1>0, <1>2, <1>3, JobIsInHand DEF HandsFit, OnTheWay
  <2>2. db[Conn].msgs[m.id].text \in Requests
    BY <1>0, <2>1 DEF DbFits, BucketFits, MessagesFit, Exists
  <2>. QED
    BY <2>1, <2>2 DEF Loaded, Exists
<1>6. transmitted' \in [MsgIds -> Nat]
  <2>0. transmitted \in [MsgIds -> Nat]
    BY <1>0 DEF EngineTypes
  <2>1. CASE m = BlankMsg
    BY <1>2, <2>0, <2>1
  <2>2. CASE m # BlankMsg
    BY <1>2, <1>4, <2>0, <2>2
  <2>. QED
    BY <2>1, <2>2
<1>7. phase'[w] = "mark" /\ held'[w] = m /\ wpc'[w] = "busy" /\ job'[w] = job[w] /\ db' = db
  BY <1>0, <1>2 DEF EngineTypes, vars, workerVars
<1>8. WorkerFits(w)'
  <2>1. BodyFits(w, "busy", "mark", m, job[w], db)
    BY <1>0, <1>3, <1>5 DEF BodyFits
  <2>. QED
    BY <1>7, <2>1 DEF WorkerFits
<1>9. EngineTypes'
  <2>1. /\ phase' \in [Workers -> {"load", "mark", "echo", "post", "query", "limited"}]
        /\ held' \in [Workers -> HeldMsg \cup {BlankMsg}]
    BY <1>0, <1>2, <1>4 DEF EngineTypes
  <2>. QED
    BY <1>0, <1>2, <1>6, <2>1 DEF EngineTypes
<1>10. \A v \in Workers \ {w} : phase'[v] = phase[v] /\ held'[v] = held[v]
  BY <1>0, <1>2 DEF EngineTypes
<1>. QED
  BY <1>0, <1>2, <1>7, <1>8, <1>9, <1>10, BodyStepKept

LEMMA HttpForwardKeeps ==
    ASSUME IInvEngine, NEW w \in Receivers, HttpForward(w)
    PROVE  IInvEngine'
<1>. USE DEF mainVars, requestVars, outsideVars, countVars, bodyVars
<1>0. /\ EngineTypes /\ DbFits(db) /\ WorkerFits(w) /\ w \in Workers
      /\ w \notin Senders /\ StepFits(db, db)
  BY StoreStays, WorkersAssumption DEF IInvEngine, Workers
<1>1. PICK m : m = MsgFromId(db, Conn, job[w])
  OBVIOUS
<1>2. /\ wpc[w] = "busy" /\ phase' = [phase EXCEPT ![w] = "mark"]
      /\ held' = [held EXCEPT ![w] = m]
      /\ forwarded' = IF m = BlankMsg THEN forwarded
                      ELSE [forwarded EXCEPT ![m.id] = @ + 1]
      /\ UNCHANGED <<vars, db, faults, mpc, backlog, rpc, rid, deletion, crashes, transmitted, raced>>
  BY <1>1 DEF HttpForward
<1>3. \/ m = BlankMsg
      \/ Exists /\ Loaded(m, db) /\ m.id = job[w]
  BY <1>0, <1>1, LoadedMessage DEF Exists
<1>4. m # BlankMsg => m.id \in MsgIds /\ m \in HeldMsg
  BY <1>3 DEF Loaded
<1>5. forwarded' \in [MsgIds -> Nat]
  <2>0. forwarded \in [MsgIds -> Nat]
    BY <1>0 DEF EngineTypes
  <2>1. CASE m = BlankMsg
    BY <1>2, <2>0, <2>1
  <2>2. CASE m # BlankMsg
    BY <1>2, <1>4, <2>0, <2>2
  <2>. QED
    BY <2>1, <2>2
<1>6. phase'[w] = "mark" /\ held'[w] = m /\ wpc'[w] = "busy" /\ job'[w] = job[w] /\ db' = db
  BY <1>0, <1>2 DEF EngineTypes, vars, workerVars
<1>7. WorkerFits(w)'
  <2>1. BodyFits(w, "busy", "mark", m, job[w], db)
    BY <1>0, <1>3 DEF BodyFits
  <2>. QED
    BY <1>0, <1>6, <2>1 DEF WorkerFits
<1>8. EngineTypes'
  <2>1. /\ phase' \in [Workers -> {"load", "mark", "echo", "post", "query", "limited"}]
        /\ held' \in [Workers -> HeldMsg \cup {BlankMsg}]
    BY <1>0, <1>2, <1>4 DEF EngineTypes
  <2>. QED
    BY <1>0, <1>2, <1>5, <2>1 DEF EngineTypes
<1>9. \A v \in Workers \ {w} : phase'[v] = phase[v] /\ held'[v] = held[v]
  BY <1>0, <1>2 DEF EngineTypes
<1>. QED
  BY <1>0, <1>2, <1>6, <1>7, <1>8, <1>9, BodyStepKept

\* MarkSent or MarkHandled of what a worker holds, blank or not.
LEMMA MarkOfHeld ==
    ASSUME IInvEngine, NEW w \in Workers, phase[w] = "mark",
           NEW status \in Statuses, NEW add, NEW del,
           \/ add = "sent" /\ del = "outbox" /\ w \in Senders
           \/ add = "handled" /\ del = "inbox" /\ w \in Receivers,
           NEW o \in SaveOutcomes(db, [held[w] EXCEPT !.status = status], add, del)
    PROVE  /\ StepFits(db, o.db)
           /\ held[w] = BlankMsg => o.db = db
           /\ held[w] # BlankMsg => Marked(db, o, held[w], status, add, del)
<1>0. /\ DbFits(db) /\ HandsFit /\ StepFits(db, db)
      /\ BodyFits(w, wpc[w], phase[w], held[w], job[w], db)
  BY StoreStays DEF IInvEngine, WorkerFits
<1>1. CASE held[w] = BlankMsg
  <2>1. o.db = db
    BY <1>0, <1>1, BlankMarksNothing
  <2>. QED
    BY <1>0, <1>1, <2>1
<1>2. CASE held[w] # BlankMsg
  <2>1. Loaded(held[w], db) /\ held[w].id = job[w] /\ wpc[w] = "busy"
    BY <1>0, <1>2 DEF BodyFits
  <2>2. add = "sent" /\ HasBucket(db, Conn) => held[w].id \in Outgoing(db[Conn])
    BY <1>0, <2>1, JobIsInHand DEF HandsFit, OnTheWay, Exists
  <2>3. add \in {"sent", "handled"} /\ del \in {"outbox", "inbox"} /\ (add = "sent" <=> del = "outbox")
    OBVIOUS
  <2>4. Marked(db, o, held[w], status, add, del)
    BY <1>0, <2>1, <2>2, <2>3, MarkFits
  <2>. QED
    BY <1>2, <2>4 DEF Marked
<1>. QED
  BY <1>1, <1>2

LEMMA EchoMarkKeeps ==
    ASSUME IInvEngine, NEW w \in Senders, EchoMark(w)
    PROVE  IInvEngine'
<1>. USE DEF mainVars, requestVars, outsideVars, countVars, bodyVars
<1>0. /\ EngineTypes /\ w \in Workers /\ w \notin Receivers
      /\ BodyFits(w, wpc[w], phase[w], held[w], job[w], db)
  BY WorkersAssumption DEF IInvEngine, Workers, WorkerFits
<1>1. /\ wpc[w] = "busy" /\ phase[w] = "mark" /\ phase' = [phase EXCEPT ![w] = "echo"]
      /\ UNCHANGED <<vars, held, mpc, backlog, rpc, rid, deletion, crashes,
                     transmitted, forwarded, raced>>
  BY DEF EchoMark
<1>2. PICK o \in SaveOutcomes(db, [held[w] EXCEPT !.status = "S"], "sent", "outbox") : Transact(o)
  BY DEF EchoMark, MarkSent
<1>3. StepFits(db, o.db)
  BY <1>0, <1>1, <1>2, MarkOfHeld DEF Statuses
<1>4. faults' \in 0 .. MaxFaults /\ db' = o.db
  BY <1>0, <1>2, TransactFits DEF EngineTypes
<1>5. phase'[w] = "echo" /\ held'[w] = held[w] /\ wpc'[w] = "busy" /\ job'[w] = job[w]
  BY <1>0, <1>1 DEF EngineTypes, vars, workerVars
<1>6. WorkerFits(w)'
  <2>1. BodyFits(w, "busy", "echo", held[w], job[w], db')
    BY <1>0, <1>1 DEF BodyFits
  <2>. QED
    BY <1>5, <2>1 DEF WorkerFits
<1>7. EngineTypes'
  <2>1. phase' \in [Workers -> {"load", "mark", "echo", "post", "query", "limited"}]
    BY <1>0, <1>1 DEF EngineTypes
  <2>. QED
    BY <1>0, <1>1, <1>4, <2>1 DEF EngineTypes
<1>8. \A v \in Workers \ {w} : phase'[v] = phase[v] /\ held'[v] = held[v]
  BY <1>0, <1>1 DEF EngineTypes
<1>. QED
  BY <1>0, <1>1, <1>3, <1>4, <1>6, <1>7, <1>8, BodyStepKept

\* EchoWrite and what its transaction comes to.
LEMMA EchoOutcome ==
    ASSUME IInvEngine, NEW w \in Senders, EchoWrite(w)
    PROVE  \E text \in Texts : \E o \in SaveOutcomes(db, NewMsg(Conn, text, "L"), "inbox", "") :
               /\ Transact(o) /\ Written(db, o, text, "L", "inbox")
               /\ held' = [held EXCEPT ![w] = o.msg]
               /\ raced' = IF mpc \in {"start", "outbox"} /\ ~o.err
                           THEN raced \cup {o.msg.id} ELSE raced
<1>0. /\ DbFits(db) /\ RoomIn(db) /\ phase[w] = "echo" /\ w \in Workers
  BY DEF IInvEngine, Workers, EchoWrite, RoomForMessage, RoomIn
<1>1. AnEcho \in Texts
  BY EngineAssumption DEF EngineTexts
<1>2. PICK o \in SaveOutcomes(db, NewMsg(Conn, AnEcho, "L"), "inbox", "") :
          /\ Transact(o) /\ held' = [held EXCEPT ![w] = o.msg]
          /\ raced' = IF mpc \in {"start", "outbox"} /\ ~o.err
                      THEN raced \cup {o.msg.id} ELSE raced
  BY DEF EchoWrite, WriteToInbox
<1>3. Written(db, o, AnEcho, "L", "inbox")
  BY <1>0, <1>1, <1>2, WriteFits DEF Priorities
<1>. QED
  BY <1>1, <1>2, <1>3

LEMMA EchoWriteKeeps ==
    ASSUME IInvEngine, NEW w \in Senders, EchoWrite(w)
    PROVE  IInvEngine'
<1>. USE DEF mainVars, requestVars, outsideVars, countVars, bodyVars
<1>0. EngineTypes /\ w \in Workers /\ w \notin Receivers
  BY WorkersAssumption DEF IInvEngine, Workers
<1>1. /\ wpc[w] = "busy" /\ phase[w] = "echo" /\ phase' = [phase EXCEPT ![w] = "post"]
      /\ UNCHANGED <<vars, mpc, backlog, rpc, rid, deletion, crashes, transmitted, forwarded>>
  BY DEF EchoWrite
<1>2. PICK text \in Texts : \E o \in SaveOutcomes(db, NewMsg(Conn, text, "L"), "inbox", "") :
               /\ Transact(o) /\ Written(db, o, text, "L", "inbox")
               /\ held' = [held EXCEPT ![w] = o.msg]
               /\ raced' = IF mpc \in {"start", "outbox"} /\ ~o.err
                           THEN raced \cup {o.msg.id} ELSE raced
  BY EchoOutcome
<1>3. PICK o \in SaveOutcomes(db, NewMsg(Conn, text, "L"), "inbox", "") :
               /\ Transact(o) /\ Written(db, o, text, "L", "inbox")
               /\ held' = [held EXCEPT ![w] = o.msg]
               /\ raced' = IF mpc \in {"start", "outbox"} /\ ~o.err
                           THEN raced \cup {o.msg.id} ELSE raced
  BY <1>2
<1>4. o.msg \in HeldMsg /\ StepFits(db, o.db) /\ (~o.err => o.msg.id \in MsgIds)
  BY <1>3 DEF Written
<1>5. faults' \in 0 .. MaxFaults /\ db' = o.db
  BY <1>0, <1>3, TransactFits DEF EngineTypes
<1>6. phase'[w] = "post" /\ held'[w] = o.msg /\ wpc'[w] = "busy"
  BY <1>0, <1>1, <1>3 DEF EngineTypes, vars, workerVars
<1>7. WorkerFits(w)'
  <2>1. BodyFits(w, "busy", "post", o.msg, job'[w], db')
    BY <1>0, <1>4 DEF BodyFits
  <2>. QED
    BY <1>6, <2>1 DEF WorkerFits
<1>8. EngineTypes'
  <2>1. /\ phase' \in [Workers -> {"load", "mark", "echo", "post", "query", "limited"}]
        /\ held' \in [Workers -> HeldMsg \cup {BlankMsg}]
    BY <1>0, <1>1, <1>3, <1>4 DEF EngineTypes
  <2>2. raced' \subseteq MsgIds
    BY <1>0, <1>3, <1>4 DEF EngineTypes
  <2>. QED
    BY <1>0, <1>1, <1>5, <2>1, <2>2 DEF EngineTypes
<1>9. \A v \in Workers \ {w} : phase'[v] = phase[v] /\ held'[v] = held[v]
  BY <1>0, <1>1, <1>3 DEF EngineTypes
<1>. QED
  BY <1>0, <1>1, <1>4, <1>5, <1>7, <1>8, <1>9, BodyStepKept

\* A worker ends its round: its message is out of its hands.
LEMMA RoundEndKept ==
    ASSUME IInvEngine, IInvTokens', UNCHANGED <<offered, queue, mpc, backlog, rpc, rid, deletion>>,
           NEW d \in Directions, NEW w \in WorkersOf(d), FinishJob(d, w),
           phase' = [phase EXCEPT ![w] = "load"], held' = [held EXCEPT ![w] = BlankMsg],
           UNCHANGED <<crashes, transmitted, forwarded, raced>>,
           faults' \in 0 .. MaxFaults, StepFits(db, db')
    PROVE  IInvEngine'
<1>0. /\ EngineTypes /\ w \in Workers
      /\ wpc \in [Workers -> {"new", "announce", "idle", "busy", "exited"}]
      /\ job \in [Workers -> Id \cup {NoJob}]
  BY SendersAndReceivers DEF IInvEngine, IInvTokens, IInvTypes, TypeOK
<1>1. /\ wpc[w] = "busy" /\ wpc' = [wpc EXCEPT ![w] = "announce"]
      /\ job' = [job EXCEPT ![w] = NoJob]
  BY DEF FinishJob
<1>2. ASSUME NEW v \in Workers PROVE Untouched(v) \/ WorkerFits(v)'
  <2>1. CASE v = w
    <3>1. phase'[v] = "load" /\ held'[v] = BlankMsg
      BY <1>0, <2>1 DEF EngineTypes
    <3>. QED
      BY <3>1, BodyFresh DEF WorkerFits
  <2>2. CASE v # w
    BY <1>0, <1>1, <2>2 DEF Untouched, EngineTypes
  <2>. QED
    BY <2>1, <2>2
<1>3. Hands("outgoing")' \subseteq Hands("outgoing")
  <2>1. \A v \in Senders : wpc'[v] = "busy" => wpc[v] = "busy" /\ job'[v] = job[v]
    BY <1>0, <1>1 DEF Workers
  <2>. QED
    BY <2>1, HandsShrink
<1>4. OnTheWay' \subseteq OnTheWay
  BY <1>3 DEF OnTheWay
<1>5. EngineTypes'
  <2>1. /\ phase' \in [Workers -> {"load", "mark", "echo", "post", "query", "limited"}]
        /\ held' \in [Workers -> HeldMsg \cup {BlankMsg}]
    BY <1>0 DEF EngineTypes
  <2>. QED
    BY <1>0, <2>1 DEF EngineTypes
<1>6. MainFits'
  BY DEF IInvEngine, MainFits, Exists, StepFits, SameBuckets
<1>. QED
  BY <1>2, <1>4, <1>5, <1>6, EngineKept DEF StepFits

\* Putting an id on the channel Incoming.
LEMMA SendTyped ==
    ASSUME IInvTokens, NEW id \in Id, SendIncoming(id)
    PROVE  chIncoming' \in Seq(Id) /\ posted' \in [Directions -> SUBSET Id]
<1>1. chIncoming \in Seq(Id) /\ posted \in [Directions -> SUBSET Id]
  BY DEF IInvTokens, IInvTypes, TypeOK
<1>2. chIncoming' = Append(chIncoming, id)
  BY DEF SendIncoming
<1>3. posted' = [posted EXCEPT !["incoming"] = @ \cup {id}]
  BY DEF SendIncoming
<1>4. chIncoming' \in Seq(Id)
  BY <1>1, <1>2
<1>5. posted' \in [Directions -> SUBSET Id]
  BY <1>1, <1>3
<1>. QED
  BY <1>4, <1>5

LEMMA OfferTyped ==
    ASSUME IInvTokens, NEW id \in Id, OfferOutgoing(id)
    PROVE  offered' \subseteq Id /\ posted' \in [Directions -> SUBSET Id]
BY DEF IInvTokens, IInvTypes, TypeOK, OfferOutgoing

LEMMA EchoPostKeeps ==
    ASSUME IInvEngine, NEW w \in Senders, EchoPost(w)
    PROVE  IInvEngine'
<1>. USE DEF mainVars, requestVars, outsideVars, countVars, bodyVars
<1>0. /\ IInvTokens /\ EngineTypes /\ StepFits(db, db) /\ w \in Workers
      /\ BodyFits(w, wpc[w], phase[w], held[w], job[w], db)
      /\ offered \subseteq Id /\ "outgoing" \in Directions /\ w \in WorkersOf("outgoing")
  BY StoreStays DEF IInvEngine, Workers, WorkerFits, IInvTokens, IInvTypes, TypeOK, Directions, WorkersOf
<1>1. /\ phase[w] = "post" /\ SendIncoming(held[w].id) /\ FinishJob("outgoing", w)
      /\ phase' = [phase EXCEPT ![w] = "load"] /\ held' = [held EXCEPT ![w] = BlankMsg]
      /\ UNCHANGED <<dispatcherVars, ready, offered, stopVars, db, faults, mpc, backlog,
                     rpc, rid, deletion, crashes, transmitted, forwarded, raced>>
  BY DEF EchoPost
<1>2. held[w].id \in Id
  <2>1. held[w].id \in MsgIds \cup {0}
    BY <1>0, <1>1 DEF BodyFits, HeldMsg
  <2>2. 0 \in Id
    BY DEF Id
  <2>. QED
    BY <2>1, <2>2, IdsAreNumbers
<1>3. IInvTokens'
  <2>1. chIncoming' \in Seq(Id) /\ posted' \in [Directions -> SUBSET Id]
    BY <1>0, <1>1, <1>2, SendTyped
  <2>. QED
    BY <1>0, <1>1, <2>1, TokensOfPost
<1>4. queue' = queue /\ faults' \in 0 .. MaxFaults /\ StepFits(db, db')
  BY <1>0, <1>1 DEF dispatcherVars, EngineTypes
<1>. QED
  BY <1>0, <1>1, <1>3, <1>4, RoundEndKept

LEMMA HttpMarkKeeps ==
    ASSUME IInvEngine, NEW w \in Receivers, HttpMark(w)
    PROVE  IInvEngine'
<1>. USE DEF mainVars, requestVars, outsideVars, countVars, bodyVars
<1>0. /\ IInvTokens /\ EngineTypes /\ w \in Workers
      /\ "incoming" \in Directions /\ w \in WorkersOf("incoming")
  BY DEF IInvEngine, Workers, Directions, WorkersOf
<1>1. /\ phase[w] = "mark" /\ FinishJob("incoming", w)
      /\ phase' = [phase EXCEPT ![w] = "load"] /\ held' = [held EXCEPT ![w] = BlankMsg]
      /\ UNCHANGED <<dispatcherVars, channelVars, posted, stopVars, mpc, backlog,
                     rpc, rid, deletion, crashes, transmitted, forwarded, raced>>
  BY DEF HttpMark
<1>2. PICK o \in SaveOutcomes(db, [held[w] EXCEPT !.status = "H"], "handled", "inbox") : Transact(o)
  BY DEF HttpMark, MarkHandled
<1>3. StepFits(db, o.db)
  BY <1>0, <1>1, <1>2, MarkOfHeld DEF Statuses
<1>4. faults' \in 0 .. MaxFaults /\ db' = o.db
  BY <1>0, <1>2, TransactFits DEF EngineTypes
<1>5. IInvTokens'
  <2>1. TypeOK
    BY <1>0 DEF IInvTokens, IInvTypes
  <2>2. /\ UNCHANGED <<dispatcherVars, ready, stopVars>>
        /\ offered' \subseteq Id /\ chIncoming' \in Seq(Id)
        /\ posted' \in [Directions -> SUBSET Id]
    BY <1>1, <2>1 DEF TypeOK, channelVars
  <2>. QED
    BY <1>0, <1>1, <2>2, TokensOfPost
<1>6. UNCHANGED <<queue, offered>>
  BY <1>1 DEF dispatcherVars, channelVars
<1>. QED
  BY <1>0, <1>1, <1>3, <1>4, <1>5, <1>6, RoundEndKept

-----------------------------------------------------------------------------
(* The steps that put an id on a channel, and a crash *)

LEMMA PostKept ==
    ASSUME IInvEngine,
           UNCHANGED <<dispatcherVars, ready, workerVars, stopVars, finished, phase, held,
                       mpc, deletion, crashes, transmitted, forwarded, raced>>,
           offered' \subseteq Id, chIncoming' \in Seq(Id), posted' \in [Directions -> SUBSET Id],
           rpc' \in [Requests -> {"new", "found", "missing", "offering", "ok", "error", "lost"}],
           rid' \in [Requests -> MsgIds \cup {0}], backlog' \subseteq backlog,
           faults' \in 0 .. MaxFaults, StepFits(db, db'),
           HasBucket(db', Conn) => offered' \subseteq OnTheWay \cup Outgoing(db'[Conn]),
           \A r \in Requests :
               \/ rpc'[r] \notin {"offering", "ok"}
               \/ rpc[r] \in {"offering", "ok"} /\ rid'[r] = rid[r]
               \/ HasBucket(db', Conn) => /\ rid'[r] \in Outgoing(db'[Conn])
                                          /\ db'[Conn].msgs[rid'[r]].text = r
    PROVE  IInvEngine'
<1>0. IInvTokens /\ EngineTypes /\ MainFits
  BY DEF IInvEngine
<1>1. IInvTokens'
  BY <1>0, TokensOfPost
<1>2. EngineTypes'
  BY <1>0 DEF EngineTypes
<1>3. \A w \in Workers : Untouched(w)
  BY DEF Untouched, workerVars
<1>4. HasBucket(db', Conn) => OnTheWay' \subseteq OnTheWay \cup Outgoing(db'[Conn])
  <2>1. JobsBut("outgoing", {})' = JobsBut("outgoing", {})
    BY DEF JobsBut, WorkersOf, workerVars
  <2>2. Hands("outgoing")' \subseteq offered' \cup Hands("outgoing")
    BY <2>1 DEF Hands, HandsBut, OnChannel, dispatcherVars
  <2>. QED
    BY <2>2 DEF OnTheWay
<1>5. MainFits'
  BY <1>0 DEF MainFits, Exists, StepFits, SameBuckets
<1>. QED
  BY <1>1, <1>2, <1>3, <1>4, <1>5, EngineKept DEF StepFits

\* PutMessage and what its transaction comes to.
LEMMA PutOutcome ==
    ASSUME IInvEngine, NEW r \in Requests, PutMessage(r)
    PROVE  \E o \in SaveOutcomes(db, NewMsg(Conn, r, PriorityOf(r)), "outbox", "") :
               /\ Transact(o) /\ Written(db, o, r, PriorityOf(r), "outbox")
               /\ rid' = [rid EXCEPT ![r] = o.msg.id]
               /\ \/ /\ o.err \/ rpc[r] = "missing"
                     /\ rpc' = [rpc EXCEPT ![r] = "error"] /\ UNCHANGED <<offered, posted>>
                  \/ /\ ~o.err /\ rpc[r] = "found"
                     /\ rpc' = [rpc EXCEPT ![r] = "offering"] /\ OfferOutgoing(o.msg.id)
<1>1. DbFits(db) /\ RoomIn(db) /\ rpc[r] \in {"found", "missing"}
  BY DEF IInvEngine, PutMessage, RoomForMessage, RoomIn
<1>2. r \in Texts /\ PriorityOf(r) \in Priorities
  BY EngineAssumption DEF EngineTexts, PriorityOf, Priorities
<1>3. PICK o \in SaveOutcomes(db, NewMsg(Conn, r, PriorityOf(r)), "outbox", "") :
          /\ Transact(o) /\ rid' = [rid EXCEPT ![r] = o.msg.id]
          /\ IF o.err \/ rpc[r] = "missing"
             THEN rpc' = [rpc EXCEPT ![r] = "error"] /\ UNCHANGED <<offered, posted>>
             ELSE rpc' = [rpc EXCEPT ![r] = "offering"] /\ OfferOutgoing(o.msg.id)
  BY DEF PutMessage, WriteToOutbox
<1>4. Written(db, o, r, PriorityOf(r), "outbox")
  BY <1>1, <1>2, <1>3, WriteFits
<1>5. CASE o.err \/ rpc[r] = "missing"
  BY <1>3, <1>4, <1>5
<1>6. CASE ~(o.err \/ rpc[r] = "missing")
  BY <1>1, <1>3, <1>4, <1>6
<1>. QED
  BY <1>5, <1>6

LEMMA PutMessageKeeps ==
    ASSUME IInvEngine, NEW r \in Requests, PutMessage(r)
    PROVE  IInvEngine'
<1>. USE DEF mainVars, requestVars, outsideVars, countVars, bodyVars
<1>0. /\ IInvTokens /\ EngineTypes /\ offered \subseteq Id /\ chIncoming \in Seq(Id)
      /\ posted \in [Directions -> SUBSET Id]
  BY DEF IInvEngine, IInvTokens, IInvTypes, TypeOK
<1>1. UNCHANGED <<dispatcherVars, ready, chIncoming, workerVars, stopVars, finished, phase, held,
                  mpc, backlog, deletion, crashes, transmitted, forwarded, raced>>
  BY DEF PutMessage
<1>2. PICK o \in SaveOutcomes(db, NewMsg(Conn, r, PriorityOf(r)), "outbox", "") :
               /\ Transact(o) /\ Written(db, o, r, PriorityOf(r), "outbox")
               /\ rid' = [rid EXCEPT ![r] = o.msg.id]
               /\ \/ /\ o.err \/ rpc[r] = "missing"
                     /\ rpc' = [rpc EXCEPT ![r] = "error"] /\ UNCHANGED <<offered, posted>>
                  \/ /\ ~o.err /\ rpc[r] = "found"
                     /\ rpc' = [rpc EXCEPT ![r] = "offering"] /\ OfferOutgoing(o.msg.id)
  BY PutOutcome
<1>3. faults' \in 0 .. MaxFaults /\ db' = o.db
  BY <1>0, <1>2, TransactFits DEF EngineTypes
<1>4. StepFits(db, db') /\ o.msg \in HeldMsg
  BY <1>2, <1>3 DEF Written
<1>5. /\ rid' \in [Requests -> MsgIds \cup {0}]
      /\ \A q \in Requests : q # r => rid'[q] = rid[q] /\ rpc'[q] = rpc[q]
      /\ rid'[r] = o.msg.id
      /\ rpc' \in [Requests -> {"new", "found", "missing", "offering", "ok", "error", "lost"}]
  <2>1. o.msg.id \in MsgIds \cup {0}
    BY <1>4 DEF HeldMsg
  <2>. QED
    BY <1>0, <1>2, <2>1 DEF EngineTypes
<1>6. \A q \in Requests \ {r} :
         \/ rpc'[q] \notin {"offering", "ok"}
         \/ rpc[q] \in {"offering", "ok"} /\ rid'[q] = rid[q]
  BY <1>5
<1>7. CASE rpc' = [rpc EXCEPT ![r] = "error"] /\ UNCHANGED <<offered, posted>>
  <2>1. offered' \subseteq OnTheWay
    BY <1>7 DEF OnTheWay, Hands, HandsBut, OnChannel
  <2>2. rpc'[r] \notin {"offering", "ok"}
    BY <1>0, <1>7 DEF EngineTypes
  <2>. QED
    BY <1>0, <1>1, <1>3, <1>4, <1>5, <1>6, <1>7, <2>1, <2>2, PostKept
<1>8. CASE ~o.err /\ rpc[r] = "found" /\ OfferOutgoing(o.msg.id)
  <2>1. /\ Files(db, db', o.msg.id, "outbox", "") /\ o.msg.id \in MsgIds
        /\ db'[Conn].msgs[o.msg.id] = o.msg /\ o.msg.text = r
    BY <1>2, <1>3, <1>8 DEF Written
  <2>2. o.msg.id \in Outgoing(db'[Conn])
    BY <2>1 DEF Files, Outgoing, BoxNames
  <2>3. offered' \subseteq Id /\ posted' \in [Directions -> SUBSET Id]
    BY <1>0, <1>8, <2>1, IdsAreNumbers, OfferTyped
  <2>4. offered' \subseteq OnTheWay \cup Outgoing(db'[Conn])
    BY <1>8, <2>2 DEF OfferOutgoing, OnTheWay, Hands, HandsBut, OnChannel
  <2>5. rid'[r] \in Outgoing(db'[Conn]) /\ db'[Conn].msgs[rid'[r]].text = r
    BY <1>5, <2>1, <2>2
  <2>. QED
    BY <1>0, <1>1, <1>3, <1>4, <1>5, <1>6, <2>3, <2>4, <2>5, PostKept
<1>. QED
  BY <1>2, <1>7, <1>8

LEMMA DispatchKeeps ==
    ASSUME IInvEngine, NEW id \in backlog, DispatchOutgoing(id) \/ DispatchIncoming(id)
    PROVE  IInvEngine'
<1>. USE DEF mainVars, requestVars, outsideVars, countVars, bodyVars
<1>0. /\ IInvTokens /\ EngineTypes /\ offered \subseteq Id /\ chIncoming \in Seq(Id)
      /\ posted \in [Directions -> SUBSET Id] /\ StepFits(db, db)
  BY StoreStays DEF IInvEngine, IInvTokens, IInvTypes, TypeOK
<1>1. id \in Id
  BY <1>0, IdsAreNumbers DEF EngineTypes
<1>2. /\ UNCHANGED <<dispatcherVars, ready, workerVars, stopVars, finished, db, faults, phase, held,
                     mpc, rpc, rid, deletion, crashes, transmitted, forwarded, raced>>
      /\ backlog' = backlog \ {id}
  BY DEF DispatchOutgoing, DispatchIncoming
<1>3. /\ rpc \in [Requests -> {"new", "found", "missing", "offering", "ok", "error", "lost"}]
      /\ rid \in [Requests -> MsgIds \cup {0}] /\ faults \in 0 .. MaxFaults
  BY <1>0 DEF EngineTypes
<1>4. \A r \in Requests : \/ rpc'[r] \notin {"offering", "ok"}
                          \/ rpc[r] \in {"offering", "ok"} /\ rid'[r] = rid[r]
  BY <1>2
<1>5. CASE DispatchOutgoing(id)
  <2>1. mpc = "outbox" /\ OfferOutgoing(id) /\ chIncoming' = chIncoming
    BY <1>5 DEF DispatchOutgoing
  <2>2. offered' \subseteq Id /\ posted' \in [Directions -> SUBSET Id]
    BY <1>0, <1>1, <2>1, OfferTyped
  <2>3. offered' \subseteq OnTheWay
    BY <2>1 DEF OfferOutgoing, OnTheWay, Hands, HandsBut, OnChannel
  <2>. QED
    BY <1>0, <1>2, <1>3, <1>4, <2>1, <2>2, <2>3, PostKept
<1>6. CASE DispatchIncoming(id)
  <2>1. SendIncoming(id) /\ offered' = offered
    BY <1>6 DEF DispatchIncoming
  <2>2. chIncoming' \in Seq(Id) /\ posted' \in [Directions -> SUBSET Id]
    BY <1>0, <1>1, <2>1, SendTyped
  <2>3. offered' \subseteq OnTheWay
    BY <2>1 DEF OnTheWay, Hands, HandsBut, OnChannel
  <2>. QED
    BY <1>0, <1>2, <1>3, <1>4, <2>1, <2>2, <2>3, PostKept
<1>. QED
  BY <1>5, <1>6

\* The program dies and starts again.
LEMMA DiesKeeps ==
    ASSUME IInvEngine, Dies, deletion # "deleted", crashes' \in 0 .. MaxTroubles + 1
    PROVE  IInvEngine'
<1>0. EngineTypes /\ DbFits(db) /\ AnswersFit /\ MainFits
  BY DEF IInvEngine
<1>1. UNCHANGED <<db, rid, faults>> /\ mpc' = "start" /\ deletion' = "none"
  BY DEF Dies
<1>2. Init'
  BY DEF Dies, Init
<1>3. IInvTokens'
  <2>1. Init' => IInvTokens'
    BY TokensInit, PTL
  <2>. QED
    BY <1>2, <2>1
<1>4. EngineTypes'
  <2>1. /\ phase' \in [Workers -> {"load", "mark", "echo", "post", "query", "limited"}]
        /\ held' \in [Workers -> HeldMsg \cup {BlankMsg}]
        /\ backlog' = {} /\ raced' = {}
    BY DEF Dies
  <2>2. rpc' \in [Requests -> {"new", "found", "missing", "offering", "ok", "error", "lost"}]
    BY <1>0 DEF Dies, EngineTypes
  <2>3. transmitted' \in [MsgIds -> Nat] /\ forwarded' \in [MsgIds -> Nat]
    BY DEF Dies
  <2>. QED
    BY <1>0, <1>1, <2>1, <2>2, <2>3 DEF EngineTypes
<1>5. db' = db /\ Exists /\ Exists'
  BY <1>0, <1>1 DEF MainFits, Exists
<1>6. ASSUME NEW w \in Workers PROVE WorkerFits(w)'
  <2>1. phase'[w] = "load" /\ held'[w] = BlankMsg
    BY DEF Dies
  <2>. QED
    BY <2>1, BodyFresh DEF WorkerFits
<1>7. HandsFit'
  <2>1. offered' = {} /\ queue'["outgoing"] = EmptyQueue /\ \A w \in Workers : wpc'[w] = "new"
    BY DEF Dies, Directions
  <2>2. JobsBut("outgoing", {})' = {}
    BY <2>1 DEF JobsBut, WorkersOf, Workers
  <2>3. QueueIds(EmptyQueue) = {}
    BY EmptyIsWellFormed
  <2>4. OnTheWay' = {}
    BY <1>1, <2>1, <2>2, <2>3 DEF OnTheWay, Hands, HandsBut, OnChannel
  <2>. QED
    BY <2>4 DEF HandsFit
<1>8. AnswersFit'
  <2>1. \A r \in Requests : rpc'[r] \in {"offering", "ok"} => rpc[r] = "ok"
    BY <1>0 DEF Dies, EngineTypes
  <2>. QED
    BY <1>0, <1>1, <1>5, <2>1 DEF AnswersFit
<1>9. MainFits'
  BY <1>1, <1>5 DEF MainFits
<1>. QED
  BY <1>0, <1>3, <1>4, <1>5, <1>6, <1>7, <1>8, <1>9 DEF IInvEngine

LEMMA CrashKeeps ==
    ASSUME IInvEngine, Crash
    PROVE  IInvEngine'
<1>1. MaxTroubles \in Nat /\ MaxFaults \in Nat
  BY EngineAssumption
<1>2. crashes \in 0 .. MaxTroubles + 1 /\ faults \in 0 .. MaxFaults /\ crashes' = crashes + 1
  BY DEF IInvEngine, EngineTypes, Crash, Dies
<1>3. (IF deletion = "none" THEN 0 ELSE 1) \in 0 .. 1
  OBVIOUS
<1>4. crashes + faults + (IF deletion = "none" THEN 0 ELSE 1) < MaxTroubles
  BY DEF Crash, RoomForTrouble
<1>5. \A t \in 0 .. 1 : crashes + faults + t < MaxTroubles => crashes + 1 \in 0 .. MaxTroubles + 1
  BY <1>1, <1>2
<1>6. crashes' \in 0 .. MaxTroubles + 1
  BY <1>2, <1>3, <1>4, <1>5
<1>. QED
  BY <1>6, DiesKeeps DEF Crash

LEMMA LoopsKeep ==
    ASSUME IInvEngine,
           \/ DispatcherRuns \/ BeginDelete \/ WaitForWorkers
           \/ \E d \in Directions : \E w \in WorkersOf(d) : WorkerRuns(d, w)
    PROVE  IInvEngine'
<1>. USE DEF mainVars, requestVars, outsideVars, countVars, bodyVars
<1>0. EngineTypes /\ MainFits
  BY DEF IInvEngine
<1>1. CASE BeginDelete
  <2>1. /\ mpc = "serving" /\ deletion = "none" /\ deletion' = "stopping" /\ QuietLoopStep
        /\ UNCHANGED <<db, faults, phase, held, mpc, backlog, rpc, rid, crashes,
                       transmitted, forwarded, raced>>
    BY <1>1 DEF BeginDelete, QuietLoopStep
  <2>2. EngineTypes' /\ MainFits'
    BY <1>0, <2>1 DEF EngineTypes, MainFits, Exists
  <2>. QED
    BY <2>1, <2>2, LoopKept
<1>2. CASE QuietLoopStep /\ UNCHANGED engineVars
  <2>1. UNCHANGED <<db, faults, phase, held, mpc, backlog, rpc, rid, deletion, crashes,
                    transmitted, forwarded, raced>>
    BY <1>2 DEF engineVars
  <2>2. EngineTypes' /\ MainFits'
    BY <1>0, <2>1 DEF EngineTypes, MainFits, Exists
  <2>. QED
    BY <1>2, <2>1, <2>2, LoopKept
<1>. QED
  BY <1>1, <1>2 DEF DispatcherRuns, WaitForWorkers, WorkerRuns, QuietLoopStep

LEMMA EngineKeeps == IInvEngine /\ [EngineNext]_allVars => IInvEngine'
<1>. SUFFICES ASSUME IInvEngine, [EngineNext]_allVars PROVE IInvEngine'
  OBVIOUS
<1>1. CASE EngineNext
  <2>1. /\ "outgoing" \in Directions /\ "incoming" \in Directions
        /\ WorkersOf("outgoing") = Senders /\ WorkersOf("incoming") = Receivers
    BY DEF Directions, WorkersOf
  <2>2. ASSUME NEW w \in Senders, SenderStep(w) PROVE IInvEngine'
    <3>1. CASE WorkerRuns("outgoing", w)
      BY <2>1, <3>1, LoopsKeep
    <3>2. CASE EchoSend(w) \/ EchoMark(w) \/ EchoWrite(w) \/ EchoPost(w)
      BY <3>2, EchoSendKeeps, EchoMarkKeeps, EchoWriteKeeps, EchoPostKeeps
    <3>. QED
      BY <2>2, <3>1, <3>2 DEF SenderStep
  <2>3. ASSUME NEW w \in Receivers, ReceiverStep(w) PROVE IInvEngine'
    <3>1. CASE WorkerRuns("incoming", w)
      BY <2>1, <3>1, LoopsKeep
    <3>2. CASE HttpForward(w) \/ HttpMark(w)
      BY <3>2, HttpForwardKeeps, HttpMarkKeeps
    <3>. QED
      BY <2>3, <3>1, <3>2 DEF ReceiverStep
  <2>4. CASE MainStep
    BY <2>4, OutsideKeeps, DispatchKeeps DEF MainStep
  <2>5. ASSUME NEW r \in Requests, LookUp(r) \/ PutMessage(r) \/ Respond(r) PROVE IInvEngine'
    BY <2>5, OutsideKeeps, PutMessageKeeps
  <2>6. CASE DeleteStep
    BY <2>6, OutsideKeeps, LoopsKeep DEF DeleteStep
  <2>7. CASE DispatcherRuns
    BY <2>7, LoopsKeep
  <2>8. CASE Crash
    BY <2>8, CrashKeeps
  <2>. QED
    BY <1>1, <2>2, <2>3, <2>4, <2>5, <2>6, <2>7, <2>8 DEF EngineNext, EngineRun
<1>2. CASE UNCHANGED allVars
  <2>1. UNCHANGED <<vars, phase, held, transmitted, forwarded, db, rpc, rid, deletion, crashes, faults,
                    raced, mpc, backlog>>
    BY <1>2 DEF allVars, engineVars, mainVars, requestVars, outsideVars, countVars, bodyVars
  <2>2. EngineTypes /\ DbFits(db) /\ KeepsMessages(db, db) /\ MainFits /\ HandsFit
    BY KeepsItself DEF IInvEngine
  <2>3. EngineTypes' /\ MainFits'
    BY <2>1, <2>2 DEF EngineTypes, MainFits, Exists
  <2>4. mpc = "outbox" /\ HasBucket(db, Conn) => backlog \subseteq Outgoing(db[Conn])
    BY <2>2 DEF HandsFit, OnTheWay, Exists
  <2>. QED
    BY <2>1, <2>2, <2>3, <2>4, OutsideKept
<1>. QED
  BY <1>1, <1>2

LEMMA EngineAlways == DeleteSpec => []IInvEngine
BY EngineStarts, EngineKeeps, PTL DEF DeleteSpec

LEMMA TypesOfEngine == IInvEngine => EngineTypeOK
<1>. SUFFICES ASSUME IInvEngine PROVE EngineTypeOK
  OBVIOUS
<1>1. EngineTypes /\ DbFits(db)
  BY DEF IInvEngine
<1>2. DOMAIN db \subseteq {Conn}
  BY <1>1 DEF DbFits
<1>3. Exists =>
        /\ db[Conn].seq \in 0..MaxSeq
        /\ DOMAIN db[Conn].msgs \subseteq MsgIds
        /\ \A id \in DOMAIN db[Conn].msgs :
              db[Conn].msgs[id] \in HeldMsg /\ db[Conn].msgs[id].id = id
        /\ db[Conn].box \in [BoxNames -> SUBSET MsgIds]
  <2>. SUFFICES ASSUME Exists
                PROVE  /\ db[Conn].seq \in 0..MaxSeq
                       /\ DOMAIN db[Conn].msgs \subseteq MsgIds
                       /\ \A id \in DOMAIN db[Conn].msgs :
                             db[Conn].msgs[id] \in HeldMsg /\ db[Conn].msgs[id].id = id
                       /\ db[Conn].box \in [BoxNames -> SUBSET MsgIds]
    OBVIOUS
  <2>1. BucketFits(db[Conn])
    BY <1>1 DEF DbFits, Exists
  <2>2. DOMAIN db[Conn].msgs \subseteq MsgIds
    BY <2>1, BoxesOfIds DEF BucketFits, MessagesFit
  <2>3. db[Conn].box \in [BoxNames -> SUBSET MsgIds]
    BY <2>1, DrawnAreIds DEF BucketFits, BoxesFit
  <2>. QED
    BY <2>1, <2>2, <2>3 DEF BucketFits, MessagesFit
<1>4. \A w \in Workers : held[w] = BlankMsg \/ held[w] \in HeldMsg
  BY <1>1 DEF EngineTypes
<1>. QED
  BY <1>1, <1>2, <1>3, <1>4 DEF EngineTypeOK, EngineTypes

\* The database, the messages and what every goroutine holds are well formed.
THEOREM EngineTypesCorrect == DeleteSpec => []EngineTypeOK
BY TypesOfEngine, EngineAlways, PTL

LEMMA AnswersOfEngine == IInvEngine => AnsweredIsStored
BY DEF IInvEngine, AnswersFit, AnsweredIsStored, Outgoing, Box, BoxIds

\* A message whose PUT was answered is in the outbox or among the sent ones with
\* what the client said, through crashes and failed transactions, until the
\* connection is deleted: sendMessage answers after WriteToOutbox, and nothing
\* that goes to a sender, or comes back from one, leaves those two boxes.
THEOREM AnswersAreKept == DeleteSpec => []AnsweredIsStored
BY AnswersOfEngine, EngineAlways, PTL

-----------------------------------------------------------------------------
(* What a worker marks, it has sent or posted in this run *)

DeedDone(w) ==
    phase[w] = "mark" /\ held[w] # BlankMsg =>
        IF w \in Senders THEN transmitted[held[w].id] > 0 ELSE forwarded[held[w].id] > 0
IInvDeeds == \A w \in Workers : DeedDone(w)

LEMMA DeedsKept ==
    ASSUME IInvEngine, IInvDeeds,
           \A id \in MsgIds : /\ transmitted[id] > 0 => transmitted'[id] > 0
                              /\ forwarded[id] > 0 => forwarded'[id] > 0,
           \A w \in Workers : \/ phase'[w] # "mark"
                              \/ phase'[w] = phase[w] /\ held'[w] = held[w]
                              \/ DeedDone(w)'
    PROVE  IInvDeeds'
<1>. SUFFICES ASSUME NEW w \in Workers, phase'[w] = "mark", phase'[w] = phase[w], held'[w] = held[w],
                     held'[w] # BlankMsg
              PROVE  DeedDone(w)'
  BY DEF IInvDeeds, DeedDone
<1>1. held[w].id \in MsgIds
  BY DEF IInvEngine, WorkerFits, BodyFits, Loaded
<1>. QED
  BY <1>1 DEF IInvDeeds, DeedDone

LEMMA SendIsADeed ==
    ASSUME IInvEngine, IInvDeeds, NEW w \in Senders, EchoSend(w)
    PROVE  IInvDeeds'
<1>0. EngineTypes /\ DbFits(db)
  BY DEF IInvEngine
<1>1. PICK m : m = MsgFromId(db, Conn, job[w])
  OBVIOUS
<1>2. /\ phase' = [phase EXCEPT ![w] = "mark"] /\ held' = [held EXCEPT ![w] = m]
      /\ transmitted' = IF m = BlankMsg THEN transmitted
                        ELSE [transmitted EXCEPT ![m.id] = @ + 1]
      /\ forwarded' = forwarded
  BY <1>1 DEF EchoSend
<1>3. m # BlankMsg => m.id \in MsgIds
  BY <1>0, <1>1, LoadedMessage DEF Loaded
<1>4. /\ \A id \in MsgIds : transmitted[id] > 0 => transmitted'[id] > 0
      /\ m # BlankMsg => transmitted'[m.id] > 0
  BY <1>0, <1>2, <1>3 DEF EngineTypes
<1>5. held'[w] = m /\ \A v \in Workers \ {w} : phase'[v] = phase[v] /\ held'[v] = held[v]
  BY <1>0, <1>2 DEF EngineTypes, Workers
<1>6. DeedDone(w)'
  BY <1>4, <1>5 DEF DeedDone
<1>. QED
  BY <1>2, <1>4, <1>5, <1>6, DeedsKept

LEMMA PostIsADeed ==
    ASSUME IInvEngine, IInvDeeds, NEW w \in Receivers, HttpForward(w)
    PROVE  IInvDeeds'
<1>0. EngineTypes /\ DbFits(db) /\ w \notin Senders
  BY WorkersAssumption DEF IInvEngine
<1>1. PICK m : m = MsgFromId(db, Conn, job[w])
  OBVIOUS
<1>2. /\ phase' = [phase EXCEPT ![w] = "mark"] /\ held' = [held EXCEPT ![w] = m]
      /\ forwarded' = IF m = BlankMsg THEN forwarded
                      ELSE [forwarded EXCEPT ![m.id] = @ + 1]
      /\ transmitted' = transmitted
  BY <1>1 DEF HttpForward
<1>3. m # BlankMsg => m.id \in MsgIds
  BY <1>0, <1>1, LoadedMessage DEF Loaded
<1>4. /\ \A id \in MsgIds : forwarded[id] > 0 => forwarded'[id] > 0
      /\ m # BlankMsg => forwarded'[m.id] > 0
  BY <1>0, <1>2, <1>3 DEF EngineTypes
<1>5. held'[w] = m /\ \A v \in Workers \ {w} : phase'[v] = phase[v] /\ held'[v] = held[v]
  BY <1>0, <1>2 DEF EngineTypes, Workers
<1>6. DeedDone(w)'
  BY <1>0, <1>4, <1>5 DEF DeedDone
<1>. QED
  BY <1>2, <1>4, <1>5, <1>6, DeedsKept

LEMMA DeedsKeep == IInvEngine /\ IInvDeeds /\ [EngineNext]_allVars => IInvDeeds'
<1>. SUFFICES ASSUME IInvEngine, IInvDeeds, [EngineNext]_allVars PROVE IInvDeeds'
  OBVIOUS
<1>0. phase \in [Workers -> {"load", "mark", "echo", "post", "query", "limited"}]
  BY DEF IInvEngine, EngineTypes
<1>1. CASE \/ \E w \in Senders : EchoSend(w)
           \/ \E w \in Receivers : HttpForward(w)
  BY <1>1, SendIsADeed, PostIsADeed
<1>2. CASE \/ \E w \in Senders : EchoMark(w) \/ EchoWrite(w) \/ EchoPost(w)
           \/ \E w \in Receivers : HttpMark(w)
  <2>1. PICK w \in Workers : \E to \in {"echo", "post", "load"} :
             /\ phase' = [phase EXCEPT ![w] = to]
             /\ held' = held \/ \E m : held' = [held EXCEPT ![w] = m]
    <3>1. CASE \E w \in Senders : EchoMark(w)
      BY <3>1 DEF EchoMark, Workers
    <3>2. CASE \E w \in Senders : EchoWrite(w)
      BY <3>2 DEF EchoWrite, Workers
    <3>3. CASE \E w \in Senders : EchoPost(w)
      BY <3>3 DEF EchoPost, Workers
    <3>4. CASE \E w \in Receivers : HttpMark(w)
      BY <3>4 DEF HttpMark, Workers
    <3>. QED
      BY <1>2, <3>1, <3>2, <3>3, <3>4
  <2>2. UNCHANGED <<transmitted, forwarded>>
    BY <1>2 DEF EchoMark, EchoWrite, EchoPost, HttpMark, countVars
  <2>3. \A v \in Workers : phase'[v] # "mark" \/ (phase'[v] = phase[v] /\ held'[v] = held[v])
    BY <1>0, <2>1 DEF IInvEngine, EngineTypes
  <2>. QED
    BY <2>2, <2>3, DeedsKept
<1>3. CASE Crash
  <2>1. \A w \in Workers : phase'[w] = "load"
    BY <1>3 DEF Crash, Dies
  <2>. QED
    BY <2>1 DEF IInvDeeds, DeedDone
<1>4. CASE \/ DispatcherRuns \/ MainStep \/ DeleteStep
           \/ \E r \in Requests : LookUp(r) \/ PutMessage(r) \/ Respond(r)
           \/ \E w \in Senders : WorkerRuns("outgoing", w)
           \/ \E w \in Receivers : WorkerRuns("incoming", w)
           \/ UNCHANGED allVars
  <2>1. UNCHANGED <<phase, held, transmitted, forwarded>>
    BY <1>4 DEF DispatcherRuns, MainStep, DeleteStep, BeginDelete, WaitForWorkers, ForgetEngine, EndDelete,
                LookUp, PutMessage, Respond, WorkerRuns, ReadOutbox, ReadInbox, StartServer,
                DispatchOutgoing, DispatchIncoming, allVars, engineVars, bodyVars, countVars
  <2>. QED
    BY <2>1, DeedsKept
<1>. QED
  BY <1>1, <1>2, <1>3, <1>4 DEF EngineNext, EngineRun, SenderStep, ReceiverStep

LEMMA DeedsAlways == DeleteSpec => []IInvDeeds
<1>1. EngineInit => IInvDeeds
  BY DEF EngineInit, IInvDeeds, DeedDone
<1>. QED
  BY <1>1, DeedsKeep, EngineAlways, PTL DEF DeleteSpec

-----------------------------------------------------------------------------
(* What a step does to the database *)

\* Where the deeds are known, what is filed as sent was sent and as handled posted.
StoreMoves(deeds) ==
    \/ db' = db
    \/ ~HasBucket(db', Conn)
    \/ \E id \in MsgIds : \E add \in {"outbox", "inbox"} :
          id \notin Filed(db[Conn]) /\ Files(db, db', id, add, "")
    \/ \E id \in MsgIds :
          /\ id \in Outgoing(db[Conn]) /\ Files(db, db', id, "sent", "outbox")
          /\ deeds => transmitted[id] > 0
    \/ \E id \in MsgIds :
          /\ id \in Filed(db[Conn]) /\ Files(db, db', id, "handled", "inbox")
          /\ deeds => forwarded[id] > 0

LEMMA PutMoves ==
    ASSUME IInvEngine, NEW r \in Requests, PutMessage(r)
    PROVE  StoreMoves(IInvDeeds)
<1>1. PICK o \in SaveOutcomes(db, NewMsg(Conn, r, PriorityOf(r)), "outbox", "") :
               Transact(o) /\ Written(db, o, r, PriorityOf(r), "outbox")
  BY PutOutcome
<1>2. db' = o.db
  BY <1>1 DEF Transact
<1>. QED
  BY <1>1, <1>2 DEF Written, StoreMoves

LEMMA EchoMoves ==
    ASSUME IInvEngine, NEW w \in Senders, EchoWrite(w)
    PROVE  StoreMoves(IInvDeeds)
<1>1. PICK text \in Texts : \E o \in SaveOutcomes(db, NewMsg(Conn, text, "L"), "inbox", "") :
               Transact(o) /\ Written(db, o, text, "L", "inbox")
  BY EchoOutcome
<1>2. PICK o \in SaveOutcomes(db, NewMsg(Conn, text, "L"), "inbox", "") :
               Transact(o) /\ Written(db, o, text, "L", "inbox")
  BY <1>1
<1>3. db' = o.db
  BY <1>2 DEF Transact
<1>. QED
  BY <1>2, <1>3 DEF Written, StoreMoves

LEMMA SentMoves ==
    ASSUME IInvEngine, NEW w \in Senders, EchoMark(w)
    PROVE  StoreMoves(IInvDeeds)
<1>0. /\ HandsFit /\ w \in Workers /\ phase[w] = "mark" /\ wpc[w] = "busy"
      /\ BodyFits(w, wpc[w], phase[w], held[w], job[w], db)
  BY DEF IInvEngine, Workers, WorkerFits, EchoMark
<1>1. PICK o \in SaveOutcomes(db, [held[w] EXCEPT !.status = "S"], "sent", "outbox") : Transact(o)
  BY DEF EchoMark, MarkSent
<1>2. db' = o.db
  BY <1>1 DEF Transact
<1>3. /\ held[w] = BlankMsg => o.db = db
      /\ held[w] # BlankMsg => Marked(db, o, held[w], "S", "sent", "outbox")
  BY <1>0, <1>1, MarkOfHeld DEF Statuses
<1>4. CASE held[w] # BlankMsg /\ ~o.err
  <2>1. Files(db, db', held[w].id, "sent", "outbox") /\ Exists
    BY <1>2, <1>3, <1>4 DEF Marked, Files, Exists
  <2>2. held[w].id \in MsgIds /\ held[w].id = job[w]
    BY <1>0, <1>4 DEF BodyFits, Loaded
  <2>3. held[w].id \in Outgoing(db[Conn])
    BY <1>0, <2>1, <2>2, JobIsInHand DEF HandsFit, OnTheWay
  <2>4. IInvDeeds => transmitted[held[w].id] > 0
    BY <1>0, <1>4 DEF IInvDeeds, DeedDone
  <2>. QED
    BY <2>1, <2>2, <2>3, <2>4 DEF StoreMoves
<1>5. CASE held[w] = BlankMsg \/ o.err
  BY <1>2, <1>3, <1>5 DEF Marked, StoreMoves
<1>. QED
  BY <1>4, <1>5

LEMMA HandledMoves ==
    ASSUME IInvEngine, NEW w \in Receivers, HttpMark(w)
    PROVE  StoreMoves(IInvDeeds)
<1>0. /\ w \in Workers /\ w \notin Senders /\ phase[w] = "mark"
      /\ BodyFits(w, wpc[w], phase[w], held[w], job[w], db)
  BY WorkersAssumption DEF IInvEngine, Workers, WorkerFits, HttpMark
<1>1. PICK o \in SaveOutcomes(db, [held[w] EXCEPT !.status = "H"], "handled", "inbox") : Transact(o)
  BY DEF HttpMark, MarkHandled
<1>2. db' = o.db
  BY <1>1 DEF Transact
<1>3. /\ held[w] = BlankMsg => o.db = db
      /\ held[w] # BlankMsg => Marked(db, o, held[w], "H", "handled", "inbox")
  BY <1>0, <1>1, MarkOfHeld DEF Statuses
<1>4. CASE held[w] # BlankMsg /\ ~o.err
  <2>1. Files(db, db', held[w].id, "handled", "inbox") /\ HasBucket(db, Conn)
    BY <1>2, <1>3, <1>4 DEF Marked, Files
  <2>2. held[w].id \in MsgIds /\ held[w].id \in Filed(db[Conn])
    BY <1>0, <1>4, <2>1 DEF BodyFits, Loaded
  <2>3. IInvDeeds => forwarded[held[w].id] > 0
    BY <1>0, <1>4 DEF IInvDeeds, DeedDone
  <2>. QED
    BY <2>1, <2>2, <2>3 DEF StoreMoves
<1>5. CASE held[w] = BlankMsg \/ o.err
  BY <1>2, <1>3, <1>5 DEF Marked, StoreMoves
<1>. QED
  BY <1>4, <1>5

LEMMA StoreMovesOnly == IInvEngine /\ [EngineNext]_allVars => StoreMoves(IInvDeeds)
<1>. SUFFICES ASSUME IInvEngine, [EngineNext]_allVars PROVE StoreMoves(IInvDeeds)
  OBVIOUS
<1>1. CASE \/ \E r \in Requests : PutMessage(r)
           \/ \E w \in Senders : EchoMark(w) \/ EchoWrite(w)
           \/ \E w \in Receivers : HttpMark(w)
  BY <1>1, PutMoves, EchoMoves, SentMoves, HandledMoves
<1>2. CASE EndDelete
  <2>1. ~HasBucket(db', Conn)
    BY <1>2 DEF EndDelete, DeleteConnection, HasBucket
  <2>. QED
    BY <2>1 DEF StoreMoves
<1>3. CASE \/ DispatcherRuns \/ MainStep \/ Crash \/ BeginDelete \/ WaitForWorkers \/ ForgetEngine
           \/ \E r \in Requests : LookUp(r) \/ Respond(r)
           \/ \E w \in Senders : WorkerRuns("outgoing", w) \/ EchoSend(w) \/ EchoPost(w)
           \/ \E w \in Receivers : WorkerRuns("incoming", w) \/ HttpForward(w)
           \/ UNCHANGED allVars
  <2>1. db' = db
    BY <1>3 DEF DispatcherRuns, MainStep, Crash, Dies, BeginDelete, WaitForWorkers, ForgetEngine,
                LookUp, Respond, WorkerRuns, EchoSend, EchoPost, HttpForward, ReadOutbox, ReadInbox,
                StartServer, DispatchOutgoing, DispatchIncoming, allVars, engineVars
  <2>. QED
    BY <2>1 DEF StoreMoves
<1>. QED
  BY <1>1, <1>2, <1>3 DEF EngineNext, EngineRun, DeleteStep, SenderStep, ReceiverStep

\* A message enters the sent box only after this run of the program sent it out,
\* and the handled box only after this run posted it to the url: the marks are
\* made by the worker that loaded the message, from what it holds.
THEOREM MarksFollowDeeds == DeleteSpec => MarkedOnlyWhenDone
<1>1. ASSUME IInvEngine, IInvDeeds, [EngineNext]_allVars
      PROVE  /\ \A id \in Box("sent")' \ Box("sent") : transmitted[id] > 0
             /\ \A id \in Box("handled")' \ Box("handled") : forwarded[id] > 0
  <2>1. StoreMoves(IInvDeeds)
    BY <1>1, StoreMovesOnly
  <2>2. ASSUME NEW id, NEW add, NEW del, Files(db, db', id, add, del)
        PROVE  /\ \A k \in Box("sent")' \ Box("sent") : k = id /\ add = "sent"
               /\ \A k \in Box("handled")' \ Box("handled") : k = id /\ add = "handled"
    <3>1. /\ Exists /\ Exists'
          /\ \A x \in {"sent", "handled"} :
                db'[Conn].box[x] = IF x = add THEN db[Conn].box[x] \cup {id}
                                   ELSE IF x = del THEN db[Conn].box[x] \ {id}
                                   ELSE db[Conn].box[x]
      BY <2>2 DEF Files, Exists, BoxNames
    <3>2. \A x \in {"sent", "handled"} : /\ Box(x) = db[Conn].box[x]
                                         /\ Box(x)' = db'[Conn].box[x]
      BY <3>1 DEF Box, BoxIds
    <3>. QED
      BY <3>1, <3>2
  <2>3. CASE db' = db
    BY <2>3 DEF Box, BoxIds, Exists
  <2>4. CASE ~HasBucket(db', Conn)
    BY <2>4 DEF Box, Exists
  <2>5. ASSUME NEW id \in MsgIds, NEW add \in {"outbox", "inbox"}, Files(db, db', id, add, "")
        PROVE  Box("sent")' \subseteq Box("sent") /\ Box("handled")' \subseteq Box("handled")
    BY <2>2, <2>5
  <2>6. ASSUME NEW id \in MsgIds, transmitted[id] > 0, Files(db, db', id, "sent", "outbox")
        PROVE  /\ \A k \in Box("sent")' \ Box("sent") : transmitted[k] > 0
               /\ Box("handled")' \subseteq Box("handled")
    BY <2>2, <2>6
  <2>7. ASSUME NEW id \in MsgIds, forwarded[id] > 0, Files(db, db', id, "handled", "inbox")
        PROVE  /\ \A k \in Box("handled")' \ Box("handled") : forwarded[k] > 0
               /\ Box("sent")' \subseteq Box("sent")
    BY <2>2, <2>7
  <2>. QED
    BY <1>1, <2>1, <2>3, <2>4, <2>5, <2>6, <2>7 DEF StoreMoves
<1>. QED
  BY <1>1, EngineAlways, DeedsAlways, PTL DEF DeleteSpec, MarkedOnlyWhenDone

-----------------------------------------------------------------------------
(* The promise of module Delivery *)

StateOf(d, id) ==
    IF ~HasBucket(d, Conn) THEN "gone"
    ELSE IF id \in d[Conn].box["outbox"] THEN "toSend"
    ELSE IF id \in d[Conn].box["sent"] THEN "sent"
    ELSE IF id \in d[Conn].box["inbox"] THEN "toHandle"
    ELSE IF id \in d[Conn].box["handled"] THEN "handled"
    ELSE "none"

LEMMA DeliveryIs ==
    /\ DeliveryState = [id \in MsgIds |-> StateOf(db, id)]
    /\ DeliveryState' = [id \in MsgIds |-> StateOf(db', id)]
BY DEF DeliveryState, StateOf, Box, BoxIds, Exists

LEMMA FiledStates ==
    ASSUME NEW d, NEW e, NEW id, NEW add, NEW del, Files(d, e, id, add, del)
    PROVE  \A k : k # id => StateOf(e, k) = StateOf(d, k)
BY DEF Files, StateOf, BoxNames

LEMMA StateSteps ==
    ASSUME NEW id \in MsgIds, NEW from, NEW to, from # to,
           StateOf(db, id) = from, StateOf(db', id) = to,
           \A k : k # id => StateOf(db', k) = StateOf(db, k)
    PROVE  DeliveryState' # DeliveryState /\ Promise!Step(id, from, to)
<1>1. DeliveryState[id] = from /\ DeliveryState'[id] = to
  BY DeliveryIs
<1>2. DeliveryState' = [DeliveryState EXCEPT ![id] = to]
  BY DeliveryIs
<1>. QED
  BY <1>1, <1>2 DEF Promise!Step

LEMMA StatesStay ==
    ASSUME \A k \in MsgIds : StateOf(db', k) = StateOf(db, k)
    PROVE  DeliveryState' = DeliveryState
BY DeliveryIs

LEMMA PromiseSteps ==
    ASSUME IInvEngine, StoreMoves(FALSE)
    PROVE  Promise!Next \/ DeliveryState' = DeliveryState
<1>1. CASE db' = db
  BY <1>1, StatesStay
<1>2. CASE ~HasBucket(db', Conn)
  <2>1. \A k : StateOf(db', k) = "gone"
    BY <1>2 DEF StateOf
  <2>2. CASE HasBucket(db, Conn) /\ MsgIds # {}
    <3>1. PICK id \in MsgIds : TRUE
      BY <2>2
    <3>2. DeliveryState[id] # "gone" /\ DeliveryState'[id] = "gone"
      BY <2>1, <2>2, DeliveryIs DEF StateOf
    <3>3. DeliveryState' = [k \in MsgIds |-> "gone"]
      BY <2>1, DeliveryIs
    <3>. QED
      BY <3>2, <3>3 DEF Promise!Next, Promise!Delete
  <2>3. CASE ~HasBucket(db, Conn)
    <3>1. \A k : StateOf(db, k) = "gone"
      BY <2>3 DEF StateOf
    <3>. QED
      BY <2>1, <3>1, StatesStay
  <2>4. CASE MsgIds = {}
    BY <2>4, StatesStay
  <2>. QED
    BY <2>2, <2>3, <2>4
<1>3. ASSUME NEW id \in MsgIds, NEW add \in {"outbox", "inbox"}, id \notin Filed(db[Conn]),
             Files(db, db', id, add, "")
      PROVE  Promise!Next
  <2>0. \A k : k # id => StateOf(db', k) = StateOf(db, k)
    BY <1>3 DEF Files, StateOf, BoxNames
  <2>1. StateOf(db, id) = "none"
    BY <1>3 DEF Files, StateOf, Filed, Outgoing
  <2>2. CASE add = "outbox"
    <3>1. StateOf(db', id) = "toSend"
      BY <1>3, <2>2 DEF Files, StateOf, BoxNames
    <3>2. DeliveryState' # DeliveryState /\ Promise!Step(id, "none", "toSend")
      BY <2>0, <2>1, <3>1, StateSteps
    <3>. QED
      BY <3>2 DEF Promise!Next, Promise!Accept, Promise!None
  <2>3. CASE add = "inbox"
    <3>1. StateOf(db', id) = "toHandle"
      BY <1>3, <2>3 DEF Files, StateOf, BoxNames, Filed, Outgoing
    <3>2. DeliveryState' # DeliveryState /\ Promise!Step(id, "none", "toHandle")
      BY <2>0, <2>1, <3>1, StateSteps
    <3>. QED
      BY <3>2 DEF Promise!Next, Promise!Receive, Promise!None
  <2>. QED
    BY <2>2, <2>3
<1>4. ASSUME NEW id \in MsgIds, id \in Outgoing(db[Conn]), Files(db, db', id, "sent", "outbox")
      PROVE  Promise!Next \/ DeliveryState' = DeliveryState
  <2>0. \A k : k # id => StateOf(db', k) = StateOf(db, k)
    BY <1>4, FiledStates
  <2>1. StateOf(db', id) = "sent"
    BY <1>4 DEF Files, StateOf, BoxNames
  <2>2. CASE id \in db[Conn].box["outbox"]
    <3>1. StateOf(db, id) = "toSend"
      BY <1>4, <2>2 DEF Files, StateOf
    <3>2. DeliveryState' # DeliveryState /\ Promise!Step(id, "toSend", "sent")
      BY <2>0, <2>1, <3>1, StateSteps
    <3>. QED
      BY <3>2 DEF Promise!Next, Promise!Send
  <2>3. CASE id \notin db[Conn].box["outbox"]
    <3>1. StateOf(db, id) = "sent"
      BY <1>4, <2>3 DEF Files, StateOf, Outgoing
    <3>2. \A k \in MsgIds : StateOf(db', k) = StateOf(db, k)
      BY <2>0, <2>1, <3>1
    <3>. QED
      BY <3>2, StatesStay
  <2>. QED
    BY <2>2, <2>3
<1>5. ASSUME NEW id \in MsgIds, id \in Filed(db[Conn]), Files(db, db', id, "handled", "inbox")
      PROVE  Promise!Next \/ DeliveryState' = DeliveryState
  <2>0. \A k : k # id => StateOf(db', k) = StateOf(db, k)
    BY <1>5, FiledStates
  <2>1. HasBucket(db, Conn) /\ BoxesFit(db[Conn])
    BY <1>5 DEF Files, IInvEngine, DbFits, BucketFits
  <2>2. CASE id \in db[Conn].box["inbox"]
    <3>1. StateOf(db, id) = "toHandle" /\ StateOf(db', id) = "handled"
      BY <1>5, <2>1, <2>2 DEF Files, StateOf, BoxNames, BoxesFit, Outgoing
    <3>2. DeliveryState' # DeliveryState /\ Promise!Step(id, "toHandle", "handled")
      BY <2>0, <3>1, StateSteps
    <3>. QED
      BY <3>2 DEF Promise!Next, Promise!Handle
  <2>3. CASE id \notin db[Conn].box["inbox"]
    <3>1. StateOf(db', id) = StateOf(db, id)
      BY <1>5, <2>1, <2>3 DEF Files, StateOf, BoxNames, Filed, Outgoing
    <3>2. \A k \in MsgIds : StateOf(db', k) = StateOf(db, k)
      BY <2>0, <3>1
    <3>. QED
      BY <3>2, StatesStay
  <2>. QED
    BY <2>2, <2>3
<1>. QED
  BY <1>1, <1>2, <1>3, <1>4, <1>5 DEF StoreMoves

LEMMA PromiseStarts == EngineInit => Promise!Init
<1>. SUFFICES ASSUME EngineInit PROVE Promise!Init
  OBVIOUS
<1>1. DOMAIN << >> = {}
  OBVIOUS
<1>2. ~HasBucket(<< >>, Conn)
  BY <1>1, Zenon DEF HasBucket
<1>3. db = Put(<< >>, Conn, NewBucket)
  BY <1>2 DEF EngineInit, SaveConnection
<1>4. HasBucket(db, Conn) /\ db[Conn] = NewBucket
  BY <1>3 DEF Put, HasBucket
<1>5. \A x \in BoxNames : NewBucket.box[x] = {}
  BY DEF NewBucket
<1>6. \A id : StateOf(db, id) = "none"
  BY <1>4, <1>5 DEF StateOf, BoxNames
<1>. QED
  BY <1>6, DeliveryIs DEF Promise!Init, Promise!None

\* The connection implements module Delivery: an id is used once and for one
\* direction, and its message goes from queued to sent or from queued to handled
\* and never back, whatever crashes, fails or is deleted.
THEOREM ConnectionKeepsPromise == DeleteSpec => KeepsPromise
<1>1. IInvEngine /\ [EngineNext]_allVars => [Promise!Next]_DeliveryState
  <2>1. StoreMoves(IInvDeeds) => StoreMoves(FALSE)
    BY DEF StoreMoves
  <2>. QED
    BY <2>1, StoreMovesOnly, PromiseSteps
<1>. QED
  BY <1>1, PromiseStarts, EngineAlways, PTL DEF DeleteSpec, KeepsPromise, Promise!Spec
=============================================================================
