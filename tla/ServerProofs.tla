---------------------------- MODULE ServerProofs ----------------------------
(***************************************************************************)
(* Proofs about the HTTP server of module Server: its types, and for any   *)
(* number of connections, requests, messages, restarts and failed          *)
(* transactions the properties of module ServerProperties.                 *)
(***************************************************************************)
EXTENDS ServerProperties, FiniteSetTheorems, SequenceTheorems, TLAPS

LowIds == {LowPriorityMask + n : n \in 1 .. MaxSeq}

\* A message under its id, with the connection's name; low priority, as all are here.
IsMessage(m, c, id) ==
    m \in [id : LowIds, conn : Conns, text : Texts, priority : {"L"}, status : Statuses]
    /\ m.conn = c /\ m.id = id

BucketFits(b, c) ==
    /\ b.seq \in 0 .. MaxSeq
    /\ b.box \in [BoxNames -> SUBSET LowIds]
    /\ DOMAIN b.msgs \subseteq LowIds
    /\ \A id \in DOMAIN b.msgs : IsMessage(b.msgs[id], c, id)

DbFits(d) == DOMAIN d \subseteq Conns /\ \A c \in DOMAIN d : BucketFits(d[c], c)

SameBuckets(d, e) == \A c : HasBucket(d, c) <=> HasBucket(e, c)

LEMMA IdsArePositive == LowIds \subseteq Nat \ {0}
BY MaskAssumption, ServerAssumption DEF LowIds

LEMMA NewBucketFits == ASSUME NEW c \in Conns PROVE BucketFits(NewBucket, c)
BY ServerAssumption DEF BucketFits, NewBucket

\* A message that may be saved: one read from the bucket, or a new one with a
\* sequence number left for it.
MaySave(m, b, c) ==
    /\ m \in [id : LowIds \cup {0}, conn : Conns, text : Texts, priority : {"L"}, status : Statuses]
    /\ m.conn = c
    /\ m.id = 0 => b.seq < MaxSeq

LEMMA AssignedIdFits ==
    ASSUME NEW c \in Conns, NEW b, b.seq \in 0 .. MaxSeq, NEW m, MaySave(m, b, c)
    PROVE  IsMessage(AssignId(b, m), c, AssignId(b, m).id)
<1>1. CASE m.id # 0
  <2>1. AssignId(b, m) = m
    BY <1>1 DEF AssignId
  <2>2. IsMessage(m, c, m.id)
    BY <1>1 DEF IsMessage, MaySave
  <2>. QED
    BY <2>1, <2>2
<1>2. CASE m.id = 0
  <2>1. AssignId(b, m) = [m EXCEPT !.id = b.seq + 1 + LowPriorityMask]
    BY <1>2 DEF AssignId, MaySave
  <2>2. b.seq + 1 + LowPriorityMask \in LowIds
    <3>1. b.seq + 1 \in 1 .. MaxSeq /\ b.seq + 1 + LowPriorityMask = LowPriorityMask + (b.seq + 1)
      BY <1>2, MaskAssumption, ServerAssumption DEF MaySave
    <3>. QED
      BY <3>1 DEF LowIds
  <2>. QED
    BY <2>1, <2>2 DEF IsMessage, MaySave
<1>. QED
  BY <1>1, <1>2

LEMMA CommittedFits ==
    ASSUME NEW c \in Conns, NEW b, BucketFits(b, c), NEW m, MaySave(m, b, c), NEW add, NEW del
    PROVE  BucketFits(Committed(b, m, add, del), c)
<1>. DEFINE s == AssignId(b, m)
            new == Committed(b, m, add, del)
<1>1. IsMessage(s, c, s.id) /\ s.id \in LowIds
  BY AssignedIdFits DEF BucketFits, IsMessage
<1>2. new.seq \in 0 .. MaxSeq
  BY ServerAssumption DEF Committed, MaySave, BucketFits
<1>3. new.box \in [BoxNames -> SUBSET LowIds]
  BY <1>1 DEF Committed, BucketFits
<1>4. /\ DOMAIN new.msgs \subseteq LowIds
      /\ \A id \in DOMAIN new.msgs : IsMessage(new.msgs[id], c, id)
  BY <1>1 DEF Committed, BucketFits, Put
<1>. QED
  BY <1>2, <1>3, <1>4 DEF BucketFits

-----------------------------------------------------------------------------
\* What a transaction of saveMsgToBucket leaves of a database that fits: a
\* database that fits, with the same connections.
LEMMA SavedFits ==
    ASSUME NEW d, DbFits(d), NEW c \in Conns, NEW m, NEW add, NEW del,
           c \in DOMAIN d => MaySave(m, d[c], c), m.conn = c,
           NEW o \in SaveOutcomes(d, m, add, del)
    PROVE  /\ DbFits(o.db) /\ SameBuckets(o.db, d)
           /\ ~o.err => c \in DOMAIN d /\ IsMessage(o.msg, c, o.msg.id)
           /\ o.err => o.db = d
<1>1. CASE c \notin DOMAIN d
  BY <1>1 DEF SaveOutcomes, HasBucket, SameBuckets
<1>2. CASE c \in DOMAIN d
  <2>. DEFINE new == Committed(d[c], m, add, del)
  <2>1. BucketFits(new, c)
    BY <1>2, CommittedFits DEF DbFits
  <2>2. IsMessage(AssignId(d[c], m), c, AssignId(d[c], m).id)
    BY <1>2, AssignedIdFits DEF DbFits, BucketFits
  <2>3. \/ o.db = [d EXCEPT ![c] = new] /\ ~o.err /\ o.msg = AssignId(d[c], m)
        \/ o.db = d /\ o.err
    BY <1>2 DEF SaveOutcomes, HasBucket
  <2>4. ASSUME o.db = [d EXCEPT ![c] = new]
        PROVE  DbFits(o.db) /\ SameBuckets(o.db, d)
    BY <1>2, <2>1, <2>4 DEF DbFits, SameBuckets, HasBucket
  <2>. QED
    BY <1>2, <2>2, <2>3, <2>4 DEF SameBuckets
<1>. QED
  BY <1>1, <1>2

\* The message such a transaction returns has a low id, or none.
LEMMA SavedMessageFits ==
    ASSUME NEW d, DbFits(d), NEW c \in Conns, NEW m, NEW add, NEW del,
           c \in DOMAIN d => MaySave(m, d[c], c), m.conn = c, m.id \in LowIds \cup {0},
           NEW o \in SaveOutcomes(d, m, add, del)
    PROVE  o.msg.id \in LowIds \cup {0}
<1>1. CASE c \notin DOMAIN d
  BY <1>1 DEF SaveOutcomes, HasBucket
<1>2. CASE c \in DOMAIN d
  <2>1. IsMessage(AssignId(d[c], m), c, AssignId(d[c], m).id)
    BY <1>2, AssignedIdFits DEF DbFits, BucketFits
  <2>2. o.msg = AssignId(d[c], m)
    BY <1>2 DEF SaveOutcomes, HasBucket
  <2>. QED
    BY <2>1, <2>2 DEF IsMessage
<1>. QED
  BY <1>1, <1>2

\* A message that was loaded may be marked; so may the blank one, which no bucket has.
LEMMA FinishedFits ==
    ASSUME NEW d, DbFits(d), NEW c \in Conns, NEW id, NEW m, m = MsgFromId(d, c, id),
           NEW o \in MarkSent(d, m) \cup MarkHandled(d, m)
    PROVE  DbFits(o.db) /\ SameBuckets(o.db, d)
<1>1. CASE c \in DOMAIN d /\ id \in DOMAIN d[c].msgs
  <2>1. IsMessage(m, c, id) /\ m.id # 0
    BY <1>1, IdsArePositive DEF MsgFromId, HasBucket, DbFits, BucketFits, IsMessage
  <2>2. PICK s \in Statuses, add \in BoxNames, del \in BoxNames : o \in SaveOutcomes(d, [m EXCEPT !.status = s], add, del)
    BY DEF MarkSent, MarkHandled, Statuses, BoxNames
  <2>3. PICK n : n = [m EXCEPT !.status = s]
    OBVIOUS
  <2>4. MaySave(n, d[c], c) /\ n.conn = c /\ o \in SaveOutcomes(d, n, add, del)
    BY <2>1, <2>2, <2>3 DEF IsMessage, MaySave
  <2>. QED
    BY <2>4, SavedFits
<1>2. CASE ~(c \in DOMAIN d /\ id \in DOMAIN d[c].msgs)
  <2>1. m = BlankMsg
    BY <1>2 DEF MsgFromId, HasBucket
  <2>2. "" \notin DOMAIN d
    BY StoreAssumption DEF DbFits
  <2>3. PICK s \in Statuses, add \in BoxNames, del \in BoxNames : o \in SaveOutcomes(d, [m EXCEPT !.status = s], add, del)
    BY DEF MarkSent, MarkHandled, Statuses, BoxNames
  <2>4. PICK n : n = [m EXCEPT !.status = s]
    OBVIOUS
  <2>5. n.conn = ""
    <3>1. BlankMsg \in [id : {0}, conn : {""}, text : {NoText}, priority : {""}, status : {""}]
      BY DEF BlankMsg
    <3>2. [BlankMsg EXCEPT !.status = s].conn = BlankMsg.conn
      BY <3>1
    <3>. QED
      BY <2>1, <2>4, <3>1, <3>2
  <2>6. o \in SaveOutcomes(d, n, add, del)
    BY <2>3, <2>4
  <2>7. SaveOutcomes(d, n, add, del) = {[db |-> d, msg |-> n, err |-> TRUE, fault |-> FALSE]}
    BY <2>2, <2>5 DEF SaveOutcomes, HasBucket
  <2>8. o.db = d
    BY <2>6, <2>7
  <2>. QED
    BY <2>8 DEF SameBuckets
<1>. QED
  BY <1>1, <1>2

-----------------------------------------------------------------------------
(* Types, and where a request can be. *)

Steps ==
    {"free", "begin", "start", "stash", "count", "look", "stop", "wait", "forget", "erase",
     "write", "offer"} \cup Answers

RequestRecord ==
    [op : Ops \cup {""}, conn : Conns \cup {""}, at : Steps, found : BOOLEAN, id : LowIds \cup {0}, counts : Seq(Nat),
     outgoing : SUBSET LowIds, incoming : SUBSET LowIds]

\* The steps of each kind of request.
StepsFit(r) ==
    /\ r.op = ""       => r.at = "free"
    /\ r.op = "add"    => r.at \in {"begin", "start", "stash"} \cup Answers
    /\ r.op = "delete" => r.at \in {"begin", "count", "look", "stop", "wait", "forget", "erase"}
                                   \cup Answers
    /\ r.op = "read"   => r.at \in {"begin", "count"} \cup Answers
    /\ r.op = "send"   => r.at \in {"begin", "write", "offer"} \cup Answers
    /\ r.op \in {"list", "status"} => r.at \in {"begin"} \cup Answers

\* The connection of a request is known; an add's has never been saved before
\* AddSave and has been after it; a delete that got beyond Load found it saved.
ConnFits(r) ==
    /\ r.op # "" => r.conn \in known
    /\ r.op = "add" /\ r.at = "begin" => r.conn \notin saved
    /\ r.op = "add" /\ r.at \in {"start", "stash"} => r.conn \in saved
    /\ r.op = "delete" /\ r.at \in {"count", "look", "stop", "wait", "forget", "erase", "ok"}
          => r.conn \in saved

RequestFits(r) ==
    /\ StepsFit(r)
    /\ ConnFits(r)
    /\ Len(r.counts) <= 4
    /\ r.at = "count" => Len(r.counts) <= 3
    /\ r.at = "begin" => r.counts = << >>
    /\ r.at = "offer" => r.id \in LowIds

RequestsFit ==
    /\ req \in [Handlers -> RequestRecord]
    /\ \A h \in Handlers : RequestFits(req[h])

\* Each add has a connection of its own: a new uuid.
IsAdd(h) == req[h].op = "add"
AddsApart == \A g, h \in Handlers : IsAdd(g) /\ IsAdd(h) /\ req[g].conn = req[h].conn => g = h

IInvTypes ==
    /\ DbFits(db)
    /\ DOMAIN db \subseteq saved /\ saved \subseteq valid
    /\ valid \subseteq known /\ known \subseteq Conns
    /\ engines \subseteq saved /\ starting \subseteq saved
    /\ eng \in [Conns -> {"none", "running", "closed", "stopped"}]
    /\ given \in [Conns -> SUBSET LowIds]
    /\ main \in {"loading", "serving"}
    /\ faults \in Nat
    /\ RequestsFit
    /\ AddsApart

LEMMA TypesInit == ServerInit => IInvTypes
<1>. SUFFICES ASSUME ServerInit PROVE IInvTypes
  OBVIOUS
<1>1. NoRequest \in RequestRecord
  BY DEF NoRequest, Request, RequestRecord, Steps
<1>2. \A h \in Handlers : req[h] = NoRequest
  BY DEF ServerInit
<1>3. RequestFits(NoRequest)
  BY DEF RequestFits, StepsFit, ConnFits, NoRequest, Request, Ops
<1>4. DbFits(db)
  BY DEF DbFits, ServerInit
<1>5. req \in [Handlers -> RequestRecord]
  BY <1>1 DEF ServerInit
<1>6. AddsApart
  <2>1. NoRequest.op = ""
    BY DEF NoRequest, Request
  <2>2. \A h \in Handlers : ~IsAdd(h)
    BY <1>2, <2>1 DEF IsAdd
  <2>. QED
    BY <2>2 DEF AddsApart
<1>. QED
  BY <1>2, <1>3, <1>4, <1>5, <1>6 DEF ServerInit, IInvTypes, RequestsFit

LEMMA BoxOfFits ==
    ASSUME DbFits(db), NEW c, NEW b \in BoxNames
    PROVE  BoxOf(c, b) \subseteq LowIds
BY DEF BoxOf, BoxIds, HasBucket, DbFits, BucketFits

\* A handler's request is replaced by r; the others keep theirs, and what is known
\* of their connections.
LEMMA RequestReplaced ==
    ASSUME RequestsFit, NEW h \in Handlers, NEW r \in RequestRecord,
           req' = [req EXCEPT ![h] = r],
           RequestFits(r)',
           \A g \in Handlers \ {h} : ConnFits(req[g])'
    PROVE  RequestsFit'
<1>1. req' \in [Handlers -> RequestRecord]
  BY DEF RequestsFit
<1>2. ASSUME NEW g \in Handlers
      PROVE  RequestFits(req[g])'
  <2>1. CASE g = h
    <3>1. req'[g] = r
      BY <2>1 DEF RequestsFit
    <3>. QED
      BY <3>1 DEF RequestFits, StepsFit, ConnFits
  <2>2. CASE g # h
    <3>1. req'[g] = req[g] /\ RequestFits(req[g]) /\ ConnFits(req[g])'
      BY <2>2 DEF RequestsFit
    <3>. QED
      BY <3>1 DEF RequestFits, StepsFit, ConnFits
  <2>. QED
    BY <2>1, <2>2
<1>. QED
  BY <1>1, <1>2 DEF RequestsFit

\* The common case: a handler goes on to its next step, and nothing is saved.
LEMMA RequestGoes ==
    ASSUME RequestsFit, NEW h \in Handlers, NEW next \in Steps \ {"begin", "offer"},
           Goes(h, next), UNCHANGED <<known, saved>>,
           StepsFit([req[h] EXCEPT !.at = next]), ConnFits([req[h] EXCEPT !.at = next]),
           next = "count" => req[h].at = "begin"
    PROVE  RequestsFit'
<1>. PICK r : r = [req[h] EXCEPT !.at = next]
  OBVIOUS
<1>1. req' = [req EXCEPT ![h] = r]
  BY DEF Goes
<1>2. /\ r \in RequestRecord /\ r.at = next /\ r.counts = req[h].counts
  BY DEF RequestsFit, RequestRecord
<1>3. RequestFits(req[h]) /\ Len(<< >>) = 0
  BY DEF RequestsFit
<1>4. RequestFits(r)
  BY <1>2, <1>3 DEF RequestFits
<1>5. RequestFits(r)'
  BY <1>4 DEF RequestFits, StepsFit, ConnFits
<1>6. \A g \in Handlers \ {h} : ConnFits(req[g])'
  BY <1>1 DEF RequestsFit, RequestFits, ConnFits
<1>. QED
  BY <1>1, <1>2, <1>5, <1>6, RequestReplaced

\* A request that is replaced by none for an add, or that was one for the same
\* connection, leaves the adds apart.
LEMMA AddsApartKept ==
    ASSUME RequestsFit, AddsApart, NEW h \in Handlers, NEW r,
           req' = [req EXCEPT ![h] = r],
           r.op = "add" => IsAdd(h) /\ r.conn = req[h].conn
    PROVE  AddsApart'
BY DEF RequestsFit, AddsApart, IsAdd

LEMMA AddsApartGoes ==
    ASSUME RequestsFit, AddsApart, NEW h \in Handlers, NEW next, Goes(h, next)
    PROVE  AddsApart'
BY ZenonT(60) DEF Goes, RequestsFit, RequestRecord, AddsApart, IsAdd

LEMMA RequestsKept ==
    ASSUME RequestsFit, UNCHANGED <<req, known, saved>>
    PROVE  RequestsFit'
BY DEF RequestsFit, RequestFits, StepsFit, ConnFits

LEMMA TypesOfArrive ==
    ASSUME IInvTypes, NEW h \in Handlers, Arrive(h)
    PROVE  IInvTypes'
<1>1. PICK op \in Ops \ {"add"}, c \in known :
          req' = [req EXCEPT ![h] =
                    [Request(op, c, "begin") EXCEPT
                        !.outgoing = BoxOf(c, "outbox") \cup BoxOf(c, "sent"),
                        !.incoming = BoxOf(c, "inbox") \cup BoxOf(c, "handled")]]
  BY DEF Arrive
<1>. PICK r : r = [Request(op, c, "begin") EXCEPT
                        !.outgoing = BoxOf(c, "outbox") \cup BoxOf(c, "sent"),
                        !.incoming = BoxOf(c, "inbox") \cup BoxOf(c, "handled")]
  OBVIOUS
<1>2. /\ BoxOf(c, "outbox") \cup BoxOf(c, "sent") \subseteq LowIds
      /\ BoxOf(c, "inbox") \cup BoxOf(c, "handled") \subseteq LowIds
  BY BoxOfFits DEF IInvTypes, BoxNames
<1>3. /\ Request(op, c, "begin") \in RequestRecord
      /\ Request(op, c, "begin").counts = << >>
  <2>1. c \in Conns /\ << >> \in Seq(Nat) /\ {} \in SUBSET LowIds /\ "begin" \in Steps /\ op \in Ops
    BY DEF IInvTypes, Steps
  <2>. QED
    BY <2>1 DEF Request, RequestRecord
<1>4. /\ r \in RequestRecord
      /\ r.op = op /\ r.conn = c /\ r.at = "begin" /\ r.counts = << >>
  BY <1>2, <1>3 DEF RequestRecord, Request
<1>8. RequestFits(r)
  <2>1. op # "" /\ op # "add" /\ Len(<< >>) = 0
    BY DEF Ops
  <2>2. StepsFit(r)
    BY <1>4, <2>1 DEF StepsFit
  <2>3. ConnFits(r)
    BY <1>4, <2>1 DEF ConnFits
  <2>4. Len(r.counts) = 0
    BY <1>4, <2>1, Zenon
  <2>. QED
    BY <1>4, <2>2, <2>3, <2>4 DEF RequestFits
<1>5. UNCHANGED <<db, engines, eng, given, main, starting, valid, known, saved, faults>>
  BY DEF Arrive, engineVars, mainVars, historyVars
<1>6. req' = [req EXCEPT ![h] = r]
  BY <1>1
<1>7. RequestFits(r)'
  BY <1>5, <1>8 DEF RequestFits, StepsFit, ConnFits
<1>9. \A g \in Handlers \ {h} : ConnFits(req[g])'
  BY <1>5, <1>6 DEF IInvTypes, RequestsFit, RequestFits, ConnFits
<1>10. RequestsFit'
  BY <1>4, <1>6, <1>7, <1>9, RequestReplaced DEF IInvTypes
<1>11. AddsApart'
  BY <1>4, <1>6, AddsApartKept DEF IInvTypes, Ops, IsAdd
<1>. QED
  BY <1>5, <1>10, <1>11 DEF IInvTypes, DbFits

LEMMA TypesOfArriveAdd ==
    ASSUME IInvTypes, NEW h \in Handlers, ArriveAdd(h)
    PROVE  IInvTypes'
<1>1. PICK c \in Conns \ known, good \in BOOLEAN :
          /\ known' = known \cup {c}
          /\ valid' = IF good THEN valid \cup {c} ELSE valid
          /\ req' = [req EXCEPT ![h] = Request("add", c, "begin")]
  BY DEF ArriveAdd
<1>2. UNCHANGED <<db, engines, eng, given, main, starting, saved, faults>>
  BY DEF ArriveAdd, engineVars, mainVars
<1>. PICK r : r = Request("add", c, "begin")
  OBVIOUS
<1>3. c \in Conns /\ << >> \in Seq(Nat) /\ {} \in SUBSET LowIds /\ "begin" \in Steps /\ Len(<< >>) = 0
  BY DEF Steps
<1>4. r \in RequestRecord /\ r.op = "add" /\ r.conn = c /\ r.at = "begin" /\ r.counts = << >>
  BY <1>3 DEF Request, RequestRecord, Ops
<1>5. c \notin saved'
  BY <1>2 DEF IInvTypes
<1>6. Len(r.counts) = 0
  BY <1>3, <1>4, Zenon
<1>7. RequestFits(r)'
  <2>1. StepsFit(r)
    BY <1>4 DEF StepsFit
  <2>2. ConnFits(r)'
    BY <1>1, <1>4, <1>5 DEF ConnFits
  <2>3. r.at # "count" /\ r.at # "offer" /\ Len(r.counts) <= 4
    BY <1>4, <1>6
  <2>. QED
    BY <1>4, <2>1, <2>2, <2>3 DEF RequestFits, StepsFit
<1>8. \A g \in Handlers \ {h} : ConnFits(req[g])'
  BY <1>1, <1>2 DEF IInvTypes, RequestsFit, RequestFits, ConnFits
<1>9. RequestsFit'
  BY <1>1, <1>4, <1>7, <1>8, RequestReplaced DEF IInvTypes
<1>10. \A g \in Handlers \ {h} : IsAdd(g) => req[g].conn # c
  BY <1>1 DEF IInvTypes, RequestsFit, RequestFits, ConnFits, IsAdd
<1>11. AddsApart'
  BY <1>1, <1>4, <1>10 DEF IInvTypes, RequestsFit, AddsApart, IsAdd
<1>. QED
  BY <1>1, <1>2, <1>9, <1>11 DEF IInvTypes, DbFits

LEMMA TypesOfAddSave ==
    ASSUME IInvTypes, NEW h \in Handlers, AddSave(h)
    PROVE  IInvTypes'
<1>. PICK c : c = req[h].conn
  OBVIOUS
<1>1. /\ req[h].op = "add" /\ req[h].at = "begin" /\ c \in known /\ c \notin saved /\ c \in Conns
  BY DEF AddSave, At, IInvTypes, RequestsFit, RequestFits, ConnFits
<1>2. UNCHANGED <<engines, eng, given, main, starting, valid, known>>
  BY DEF AddSave, engineVars, mainVars
<1>3. CASE Goes(h, "error") /\ UNCHANGED <<db, saved>> /\ faults' \in Nat
  <2>1. StepsFit([req[h] EXCEPT !.at = "error"]) /\ ConnFits([req[h] EXCEPT !.at = "error"])
    BY <1>1 DEF StepsFit, ConnFits, IInvTypes, RequestsFit, RequestRecord, Answers
  <2>2. RequestsFit'
    BY <1>2, <1>3, <2>1, RequestGoes DEF IInvTypes, Steps, Answers
  <2>3. AddsApart'
    BY <1>3, AddsApartGoes DEF IInvTypes
  <2>. QED
    BY <1>2, <1>3, <2>2, <2>3 DEF IInvTypes, DbFits
<1>4. CASE /\ c \in valid /\ db' = SaveConnection(db, c) /\ saved' = saved \cup {c}
           /\ Goes(h, "start") /\ Works
  <2>. PICK r : r = [req[h] EXCEPT !.at = "start"]
    OBVIOUS
  <2>1. req' = [req EXCEPT ![h] = r]
    BY <1>4 DEF Goes
  <2>2. r \in RequestRecord /\ r.op = "add" /\ r.conn = c /\ r.at = "start" /\ r.counts = req[h].counts
    BY <1>1, ZenonT(30) DEF IInvTypes, RequestsFit, RequestRecord, Steps
  <2>3. Len(r.counts) <= 4
    BY <2>2 DEF IInvTypes, RequestsFit, RequestFits
  <2>4. RequestFits(r)'
    <3>1. StepsFit(r)
      BY <2>2 DEF StepsFit
    <3>2. ConnFits(r)'
      <4>1. c \in known' /\ c \in saved'
        BY <1>1, <1>2, <1>4
      <4>. QED
        BY <4>1, <2>2 DEF ConnFits
    <3>. QED
      BY <2>2, <2>3, <3>1, <3>2 DEF RequestFits, StepsFit
  <2>5. \A g \in Handlers \ {h} : IsAdd(g) => req[g].conn # c
    BY <1>1 DEF IInvTypes, AddsApart, IsAdd
  <2>6. \A g \in Handlers \ {h} : req'[g] = req[g] /\ ConnFits(req[g])
    BY <2>1 DEF IInvTypes, RequestsFit, RequestFits
  <2>7. \A g \in Handlers \ {h} : ConnFits(req[g])'
    BY <1>2, <1>4, <2>5, <2>6 DEF ConnFits, IsAdd
  <2>8. RequestsFit'
    BY <2>1, <2>2, <2>4, <2>7, RequestReplaced DEF IInvTypes
  <2>9. AddsApart'
    BY <1>4, AddsApartGoes DEF IInvTypes
  <2>10. DbFits(db') /\ DOMAIN db' = DOMAIN db \cup {c}
    BY <1>1, <1>4, NewBucketFits DEF DbFits, SaveConnection, HasBucket, Put, IInvTypes
  <2>. QED
    BY <1>2, <1>4, <2>8, <2>9, <2>10 DEF IInvTypes, DbFits, Works
<1>. QED
  BY <1>3, <1>4 DEF AddSave, Fails, Works, IInvTypes

\* The steps that only send a handler on, and perhaps change the engines.
LEMMA TypesGo ==
    ASSUME IInvTypes, NEW h \in Handlers, NEW next \in Steps \ {"begin", "offer"},
           Goes(h, next), UNCHANGED <<db, given, main, starting, valid, known, saved>>,
           engines' \subseteq saved, eng' \in [Conns -> {"none", "running", "closed", "stopped"}],
           faults' \in Nat,
           StepsFit([req[h] EXCEPT !.at = next]), ConnFits([req[h] EXCEPT !.at = next]),
           next = "count" => req[h].at = "begin"
    PROVE  IInvTypes'
<1>1. RequestsFit'
  BY RequestGoes DEF IInvTypes
<1>2. AddsApart'
  BY AddsApartGoes DEF IInvTypes
<1>. QED
  BY <1>1, <1>2 DEF IInvTypes, DbFits

\* Where a request is, and what is known of its connection, as the steps need it.
LEMMA RequestHere ==
    ASSUME IInvTypes, NEW h \in Handlers
    PROVE  /\ req[h] \in RequestRecord /\ StepsFit(req[h]) /\ ConnFits(req[h])
           /\ Len(req[h].counts) <= 4
           /\ req[h].op # "" => req[h].conn \in Conns
BY DEF IInvTypes, RequestsFit, RequestFits, ConnFits

\* A step that may be taken next, of a request whose connection is no worse off.
LEMMA NextFits ==
    ASSUME IInvTypes, NEW h \in Handlers, NEW next \in Steps \ {"begin"}, req[h].op # "",
           req[h].op = "add"    => next \in {"start", "stash"} \cup Answers,
           req[h].op = "add" /\ next \in {"start", "stash"} => req[h].conn \in saved,
           req[h].op = "delete" => next \in {"count", "look", "stop", "wait", "forget", "erase"}
                                            \cup Answers,
           req[h].op = "delete" /\ next \notin {"error", "panic", "lost"} => req[h].conn \in saved,
           req[h].op = "read"   => next \in {"count"} \cup Answers,
           req[h].op = "send"   => next \in {"write", "offer"} \cup Answers,
           req[h].op \in {"list", "status"} => next \in Answers
    PROVE  StepsFit([req[h] EXCEPT !.at = next]) /\ ConnFits([req[h] EXCEPT !.at = next])
<1>. PICK r : r = [req[h] EXCEPT !.at = next]
  OBVIOUS
<1>1. req[h] \in RequestRecord /\ ConnFits(req[h])
  BY RequestHere
<1>2. r.op = req[h].op /\ r.at = next /\ r.conn = req[h].conn
  BY <1>1 DEF RequestRecord
<1>3. StepsFit(r)
  BY <1>2 DEF StepsFit, Answers
<1>4. ConnFits(r)
  BY <1>1, <1>2 DEF ConnFits
<1>. QED
  BY <1>3, <1>4

LEMMA TypesOfAddStart ==
    ASSUME IInvTypes, NEW h \in Handlers, AddStart(h)
    PROVE  IInvTypes'
<1>1. req[h].op = "add" /\ req[h].at = "start" /\ req[h].conn \in saved
  BY RequestHere DEF AddStart, At, ConnFits
<1>2. StepsFit([req[h] EXCEPT !.at = "stash"]) /\ ConnFits([req[h] EXCEPT !.at = "stash"])
  BY <1>1, NextFits DEF Steps
<1>3. /\ UNCHANGED <<db, given, main, starting, valid, known, saved, engines, faults>>
      /\ Goes(h, "stash")
      /\ eng' \in [Conns -> {"none", "running", "closed", "stopped"}]
  BY DEF AddStart, mainVars, historyVars, IInvTypes
<1>. QED
  BY <1>2, <1>3, TypesGo DEF IInvTypes, Steps

LEMMA TypesOfAddStash ==
    ASSUME IInvTypes, NEW h \in Handlers, AddStash(h)
    PROVE  IInvTypes'
<1>1. req[h].op = "add" /\ req[h].at = "stash" /\ req[h].conn \in saved
  BY RequestHere DEF AddStash, At, ConnFits
<1>2. StepsFit([req[h] EXCEPT !.at = "ok"]) /\ ConnFits([req[h] EXCEPT !.at = "ok"])
  BY <1>1, NextFits DEF Steps, Answers
<1>3. /\ UNCHANGED <<db, given, main, starting, valid, known, saved, eng, faults>>
      /\ Goes(h, "ok")
      /\ engines' \subseteq saved
  BY <1>1 DEF AddStash, mainVars, historyVars, IInvTypes
<1>. QED
  BY <1>2, <1>3, TypesGo DEF IInvTypes, Steps, Answers

LEMMA TypesOfLoad ==
    ASSUME IInvTypes, NEW h \in Handlers, Load(h)
    PROVE  IInvTypes'
<1>. PICK next : next = IF HasBucket(db, req[h].conn) THEN "count" ELSE "error"
  OBVIOUS
<1>1. /\ req[h].op \in {"read", "delete"} /\ req[h].at = "begin"
      /\ next \in {"count", "error"}
      /\ next = "count" => req[h].conn \in saved
  BY DEF Load, HasBucket, IInvTypes
<1>2. StepsFit([req[h] EXCEPT !.at = next]) /\ ConnFits([req[h] EXCEPT !.at = next])
  BY <1>1, NextFits DEF Steps, Answers
<1>3. /\ UNCHANGED <<db, given, main, starting, valid, known, saved, engines, eng, faults>>
      /\ Goes(h, next)
  BY DEF Load, engineVars, mainVars, historyVars
<1>. QED
  BY <1>1, <1>2, <1>3, TypesGo DEF IInvTypes, Steps, Answers

\* The general case of RequestReplaced: the connections that are saved or known stay so.
LEMMA TypesReplace ==
    ASSUME IInvTypes, NEW h \in Handlers, NEW r \in RequestRecord,
           req' = [req EXCEPT ![h] = r],
           RequestFits(r), r.op = "add" => IsAdd(h) /\ r.conn = req[h].conn,
           UNCHANGED <<engines, eng, main, starting, valid, known, saved>>,
           DbFits(db'), DOMAIN db' \subseteq saved, given' \in [Conns -> SUBSET LowIds],
           faults' \in Nat
    PROVE  IInvTypes'
<1>1. RequestFits(r)'
  BY DEF RequestFits, StepsFit, ConnFits
<1>2. \A g \in Handlers \ {h} : ConnFits(req[g])'
  BY DEF IInvTypes, RequestsFit, RequestFits, ConnFits
<1>3. RequestsFit'
  BY <1>1, <1>2, RequestReplaced DEF IInvTypes
<1>4. AddsApart'
  BY AddsApartKept DEF IInvTypes
<1>. QED
  BY <1>3, <1>4 DEF IInvTypes, DbFits

LEMMA BoxIsFinite ==
    ASSUME DbFits(db), NEW c, HasBucket(db, c), NEW b \in BoxNames
    PROVE  IsFiniteSet(BoxIds(db, c, b)) /\ Cardinality(BoxIds(db, c, b)) \in Nat
<1>1. BoxIds(db, c, b) \subseteq LowIds
  BY DEF BoxIds, HasBucket, DbFits, BucketFits
<1>2. LowIds \subseteq LowPriorityMask + 1 .. LowPriorityMask + MaxSeq
  BY MaskAssumption, ServerAssumption DEF LowIds
<1>3. IsFiniteSet(LowPriorityMask + 1 .. LowPriorityMask + MaxSeq)
  BY FS_Interval, MaskAssumption, ServerAssumption
<1>4. IsFiniteSet(BoxIds(db, c, b))
  BY <1>1, <1>2, <1>3, FS_Subset
<1>. QED
  BY <1>4, FS_CardinalityType

LEMMA TypesOfCount ==
    ASSUME IInvTypes, NEW h \in Handlers, Count(h)
    PROVE  IInvTypes'
<1>. PICK c : c = req[h].conn
  OBVIOUS
<1>0. PICK n : n = Len(req[h].counts)
  OBVIOUS
<1>1. /\ req[h] \in RequestRecord /\ req[h].at = "count"
      /\ StepsFit(req[h]) /\ ConnFits(req[h])
      /\ req[h].op \in {"read", "delete"} /\ n \in 0 .. 3 /\ c \in Conns
      /\ req[h].op = "delete" => c \in saved
  <2>1. /\ req[h] \in RequestRecord /\ StepsFit(req[h]) /\ ConnFits(req[h])
        /\ req[h].at = "count" /\ Len(req[h].counts) <= 3
    BY DEF Count, IInvTypes, RequestsFit, RequestFits
  <2>2. req[h].op \in {"read", "delete"}
    BY <2>1 DEF StepsFit, RequestRecord, Ops, Answers
  <2>3. c \in Conns /\ (req[h].op = "delete" => c \in saved)
    BY <2>1, <2>2 DEF ConnFits, IInvTypes
  <2>5. n \in Nat
    BY <1>0, <2>1, LenProperties DEF RequestRecord
  <2>6. n <= 3
    BY <1>0, <2>1
  <2>4. n \in 0 .. 3
    BY <2>5, <2>6
  <2>. QED
    BY <2>1, <2>2, <2>3, <2>4
<1>2. UNCHANGED <<db, engines, eng, given, main, starting, valid, known, saved, faults>>
  BY DEF Count, engineVars, mainVars, historyVars
<1>3. CASE ~HasBucket(db, c)
  <2>1. StepsFit([req[h] EXCEPT !.at = "error"]) /\ ConnFits([req[h] EXCEPT !.at = "error"])
    BY <1>1, NextFits DEF Steps, Answers
  <2>2. Goes(h, "error")
    BY <1>3 DEF Count
  <2>. QED
    BY <1>2, <2>1, <2>2, TypesGo DEF IInvTypes, Steps, Answers
<1>4. CASE HasBucket(db, c)
  <2>. PICK k : k = Cardinality(BoxIds(db, c, Counted[n + 1]))
    OBVIOUS
  <2>. PICK next : next = IF n < 3 THEN "count" ELSE IF req[h].op = "read" THEN "ok" ELSE "look"
    OBVIOUS
  <2>. PICK r : r = [req[h] EXCEPT !.counts = Append(@, k), !.at = next]
    OBVIOUS
  <2>1. Counted[n + 1] \in BoxNames
    <3>0. n = 0 \/ n = 1 \/ n = 2 \/ n = 3
      BY <1>1
    <3>1. n + 1 \in {1, 2, 3, 4}
      BY <3>0
    <3>2. \A i \in {1, 2, 3, 4} : Counted[i] \in BoxNames
      BY DEF Counted, BoxNames
    <3>. QED
      BY <3>1, <3>2
  <2>2. k \in Nat
    BY <1>4, <2>1, BoxIsFinite DEF IInvTypes
  <2>3. /\ Append(req[h].counts, k) \in Seq(Nat)
        /\ Len(Append(req[h].counts, k)) = n + 1
    <3>1. req[h].counts \in Seq(Nat)
      BY <1>1 DEF RequestRecord
    <3>. QED
      BY <1>0, <2>2, <3>1, AppendProperties
  <2>4. next \in {"count", "ok", "look"} /\ next \in Steps /\ (next = "count" => n < 3)
        /\ (req[h].op = "delete" => next # "ok") /\ (req[h].op = "read" => next # "look")
    BY <1>1 DEF Steps, Answers
  <2>5. /\ r \in RequestRecord /\ r.counts = Append(req[h].counts, k)
        /\ r.op = req[h].op /\ r.conn = req[h].conn /\ r.at = next
    BY <1>1, <2>3, <2>4 DEF RequestRecord
  <2>6. StepsFit(r) /\ ConnFits(r)
    BY <1>1, <2>4, <2>5 DEF StepsFit, ConnFits, Answers
  <2>7. Len(r.counts) = n + 1
    BY <2>3, <2>5, Zenon
  <2>8. RequestFits(r)
    BY <1>1, <2>4, <2>5, <2>6, <2>7 DEF RequestFits
  <2>9. req' = [req EXCEPT ![h] = r]
    BY <1>0, <1>4 DEF Count
  <2>. QED
    BY <1>1, <1>2, <2>5, <2>8, <2>9, TypesReplace DEF IInvTypes
<1>. QED
  BY <1>3, <1>4

LEMMA TypesOfLook ==
    ASSUME IInvTypes, NEW h \in Handlers, Look(h)
    PROVE  IInvTypes'
<1>1. PICK r : r = [req[h] EXCEPT !.found = req[h].conn \in engines,
                                  !.at = IF req[h].conn \in engines THEN "stop" ELSE "erase"]
  OBVIOUS
<1>2. /\ req[h] \in RequestRecord /\ RequestFits(req[h]) /\ req[h].op = "delete"
      /\ req[h].conn \in saved
  BY DEF Look, At, IInvTypes, RequestsFit, RequestFits, ConnFits
<1>3. /\ r \in RequestRecord /\ r.op = "delete" /\ r.conn = req[h].conn
      /\ r.counts = req[h].counts /\ r.at \in {"stop", "erase"}
  <2>1. (req[h].conn \in engines) \in BOOLEAN
    OBVIOUS
  <2>. QED
    BY <1>1, <1>2, <2>1 DEF RequestRecord, Steps
<1>4. RequestFits(r)
  BY <1>2, <1>3 DEF RequestFits, StepsFit, ConnFits
<1>5. /\ req' = [req EXCEPT ![h] = r]
      /\ UNCHANGED <<db, engines, eng, given, main, starting, valid, known, saved, faults>>
  BY <1>1 DEF Look, engineVars, mainVars, historyVars
<1>. QED
  BY <1>3, <1>4, <1>5, TypesReplace DEF IInvTypes

LEMMA TypesOfClose ==
    ASSUME IInvTypes, NEW h \in Handlers, Close(h)
    PROVE  IInvTypes'
<1>1. req[h].op = "delete" /\ req[h].at = "stop" /\ req[h].conn \in saved
  BY RequestHere DEF Close, At, ConnFits
<1>2. PICK next \in {"wait", "panic"} : Goes(h, next)
  BY DEF Close
<1>3. StepsFit([req[h] EXCEPT !.at = next]) /\ ConnFits([req[h] EXCEPT !.at = next])
  BY <1>1, NextFits DEF Steps, Answers
<1>4. /\ UNCHANGED <<db, given, main, starting, valid, known, saved, engines, faults>>
      /\ eng' \in [Conns -> {"none", "running", "closed", "stopped"}]
  BY DEF Close, mainVars, historyVars, IInvTypes
<1>. QED
  BY <1>2, <1>3, <1>4, TypesGo DEF IInvTypes, Steps, Answers

LEMMA TypesOfWait ==
    ASSUME IInvTypes, NEW h \in Handlers, Wait(h)
    PROVE  IInvTypes'
<1>1. req[h].op = "delete" /\ req[h].at = "wait" /\ req[h].conn \in saved
  BY RequestHere DEF Wait, At, ConnFits
<1>2. StepsFit([req[h] EXCEPT !.at = "forget"]) /\ ConnFits([req[h] EXCEPT !.at = "forget"])
  BY <1>1, NextFits DEF Steps
<1>3. /\ UNCHANGED <<db, given, main, starting, valid, known, saved, engines, eng, faults>>
      /\ Goes(h, "forget")
  BY DEF Wait, engineVars, mainVars, historyVars
<1>. QED
  BY <1>2, <1>3, TypesGo DEF IInvTypes, Steps

LEMMA TypesOfForget ==
    ASSUME IInvTypes, NEW h \in Handlers, Forget(h)
    PROVE  IInvTypes'
<1>1. req[h].op = "delete" /\ req[h].at = "forget" /\ req[h].conn \in saved
  BY RequestHere DEF Forget, At, ConnFits
<1>2. StepsFit([req[h] EXCEPT !.at = "erase"]) /\ ConnFits([req[h] EXCEPT !.at = "erase"])
  BY <1>1, NextFits DEF Steps
<1>3. /\ UNCHANGED <<db, given, main, starting, valid, known, saved, eng, faults>>
      /\ Goes(h, "erase") /\ engines' \subseteq saved
  BY DEF Forget, mainVars, historyVars, IInvTypes
<1>. QED
  BY <1>2, <1>3, TypesGo DEF IInvTypes, Steps

\* A DELETE takes the connection's buckets away; all others stay as they were.
LEMMA TypesOfErase ==
    ASSUME IInvTypes, NEW h \in Handlers, Erase(h)
    PROVE  IInvTypes'
<1>1. req[h].op = "delete" /\ req[h].at = "erase" /\ req[h].conn \in saved
  BY RequestHere DEF Erase, At, ConnFits
<1>2. StepsFit([req[h] EXCEPT !.at = "ok"]) /\ ConnFits([req[h] EXCEPT !.at = "ok"])
  BY <1>1, NextFits DEF Steps, Answers
<1>3. /\ UNCHANGED <<given, main, starting, valid, known, saved, engines, eng>>
      /\ Goes(h, "ok") /\ faults' \in Nat
  BY DEF Erase, engineVars, mainVars, historyVars, Works, Fails, IInvTypes
<1>4. DbFits(db') /\ DOMAIN db' \subseteq saved
  <2>1. db' = db \/ db' = DeleteConnection(db, req[h].conn)
    BY DEF Erase
  <2>. QED
    BY <2>1 DEF DeleteConnection, DbFits, IInvTypes
<1>5. RequestsFit'
  BY <1>2, <1>3, RequestGoes DEF IInvTypes, Steps, Answers
<1>6. AddsApart'
  BY <1>3, AddsApartGoes DEF IInvTypes
<1>. QED
  BY <1>3, <1>4, <1>5, <1>6 DEF IInvTypes, DbFits

LEMMA TypesOfSendLook ==
    ASSUME IInvTypes, NEW h \in Handlers, SendLook(h)
    PROVE  IInvTypes'
<1>0. PICK next \in {"write", "error"} :
         req' = [req EXCEPT ![h].found = req[h].conn \in engines, ![h].at = next]
  BY DEF SendLook
<1>1. PICK r : r = [req[h] EXCEPT !.found = req[h].conn \in engines, !.at = next]
  OBVIOUS
<1>2. req[h] \in RequestRecord /\ RequestFits(req[h]) /\ req[h].op = "send"
  BY DEF SendLook, At, IInvTypes, RequestsFit
<1>3. /\ r \in RequestRecord /\ r.op = "send" /\ r.conn = req[h].conn
      /\ r.counts = req[h].counts /\ r.at = next
  <2>1. (req[h].conn \in engines) \in BOOLEAN /\ next \in Steps
    BY DEF Steps, Answers
  <2>. QED
    BY <1>1, <1>2, <2>1 DEF RequestRecord
<1>4. RequestFits(r)
  BY <1>2, <1>3 DEF RequestFits, StepsFit, ConnFits, Answers
<1>5. /\ req' = [req EXCEPT ![h] = r]
      /\ UNCHANGED <<db, engines, eng, given, main, starting, valid, known, saved, faults>>
  BY <1>0, <1>1 DEF SendLook, engineVars, mainVars, historyVars
<1>. QED
  BY <1>3, <1>4, <1>5, TypesReplace DEF IInvTypes

\* A new message may be saved as long as a sequence number is left.
LEMMA NewMsgMayBeSaved ==
    ASSUME DbFits(db), NEW c \in Conns, HasBucket(db, c) => db[c].seq < MaxSeq
    PROVE  /\ NewMsg(c, CHOOSE x \in Texts : TRUE, "L").conn = c
           /\ c \in DOMAIN db => MaySave(NewMsg(c, CHOOSE x \in Texts : TRUE, "L"), db[c], c)
<1>1. (CHOOSE x \in Texts : TRUE) \in Texts
  BY StoreAssumption
<1>. QED
  BY <1>1 DEF NewMsg, MaySave, HasBucket, Statuses

LEMMA NewMsgIsNew == \A c, x, p : NewMsg(c, x, p).id = 0
BY DEF NewMsg

LEMMA TypesOfSendWrite ==
    ASSUME IInvTypes, NEW h \in Handlers, SendWrite(h)
    PROVE  IInvTypes'
<1>. PICK c : c = req[h].conn
  OBVIOUS
<1>0. PICK m : m = NewMsg(c, CHOOSE x \in Texts : TRUE, "L")
  OBVIOUS
<1>1. /\ req[h] \in RequestRecord /\ RequestFits(req[h]) /\ req[h].op = "send"
      /\ c \in Conns
  BY DEF SendWrite, At, IInvTypes, RequestsFit, RequestFits, ConnFits
<1>2. PICK o \in WriteToOutbox(db, m) :
         /\ db' = o.db
         /\ IF o.fault THEN Fails ELSE Works
         /\ req' = [req EXCEPT ![h].id = o.msg.id,
                               ![h].at = IF o.err THEN "error"
                                         ELSE IF req[h].found THEN "offer" ELSE "panic"]
  BY <1>0 DEF SendWrite
<1>3. m.conn = c /\ m.id = 0 /\ (c \in DOMAIN db => MaySave(m, db[c], c)) /\ DbFits(db)
  BY <1>0, <1>1, NewMsgMayBeSaved, NewMsgIsNew DEF SendWrite, IInvTypes
<1>4. /\ DbFits(o.db) /\ SameBuckets(o.db, db)
      /\ ~o.err => IsMessage(o.msg, c, o.msg.id)
  <2>1. o \in SaveOutcomes(db, m, "outbox", "")
    BY <1>2 DEF WriteToOutbox
  <2>. QED
    BY <1>1, <1>3, <2>1, SavedFits
<1>5. o.msg.id \in LowIds \cup {0}
  BY <1>1, <1>2, <1>3, SavedMessageFits DEF WriteToOutbox
<1>6. PICK r : r = [req[h] EXCEPT !.id = o.msg.id,
                                  !.at = IF o.err THEN "error"
                                         ELSE IF req[h].found THEN "offer" ELSE "panic"]
  OBVIOUS
<1>7. /\ r \in RequestRecord /\ r.op = "send" /\ r.conn = req[h].conn
      /\ r.counts = req[h].counts /\ r.at \in {"error", "offer", "panic"}
      /\ r.at = "offer" => r.id \in LowIds
  BY <1>1, <1>4, <1>5, <1>6 DEF RequestRecord, Steps, Answers, IsMessage
<1>8. RequestFits(r)
  BY <1>1, <1>7 DEF RequestFits, StepsFit, ConnFits, Answers
<1>9. req' = [req EXCEPT ![h] = r]
  BY <1>2, <1>6
<1>11. DOMAIN db' \subseteq saved
  BY <1>2, <1>4 DEF SameBuckets, HasBucket, IInvTypes
<1>10. /\ UNCHANGED <<engines, eng, given, main, starting, valid, known, saved>>
       /\ faults' \in Nat /\ given' \in [Conns -> SUBSET LowIds]
  BY <1>2 DEF SendWrite, engineVars, mainVars, historyVars, Works, Fails, IInvTypes
<1>. QED
  BY <1>2, <1>4, <1>7, <1>8, <1>9, <1>10, <1>11, TypesReplace DEF IInvTypes

LEMMA TypesOfSendOffer ==
    ASSUME IInvTypes, NEW h \in Handlers, SendOffer(h)
    PROVE  IInvTypes'
<1>1. /\ req[h].op = "send" /\ req[h].at = "offer" /\ req[h].id \in LowIds
      /\ req[h].conn \in Conns
  BY RequestHere DEF SendOffer, At, IInvTypes, RequestsFit, RequestFits
<1>2. StepsFit([req[h] EXCEPT !.at = "ok"]) /\ ConnFits([req[h] EXCEPT !.at = "ok"])
  BY <1>1, NextFits DEF Steps, Answers
<1>3. /\ UNCHANGED <<db, main, starting, valid, known, saved, engines, eng, faults>>
      /\ Goes(h, "ok") /\ given' \in [Conns -> SUBSET LowIds]
  BY <1>1 DEF SendOffer, mainVars, historyVars, IInvTypes
<1>4. RequestsFit'
  BY <1>2, <1>3, RequestGoes DEF IInvTypes, Steps, Answers
<1>5. AddsApart'
  BY <1>3, AddsApartGoes DEF IInvTypes
<1>. QED
  BY <1>3, <1>4, <1>5 DEF IInvTypes, DbFits

LEMMA TypesOfSimple ==
    ASSUME IInvTypes, NEW h \in Handlers, ListConnections(h) \/ ReadMessage(h)
    PROVE  IInvTypes'
<1>1. PICK next \in {"ok", "error"} : Goes(h, next)
  BY DEF ListConnections, ReadMessage, At
<1>2. req[h].op \in {"list", "status"} /\ req[h].at = "begin"
  BY DEF ListConnections, ReadMessage, At
<1>3. StepsFit([req[h] EXCEPT !.at = next]) /\ ConnFits([req[h] EXCEPT !.at = next])
  BY <1>2, NextFits DEF Steps, Answers
<1>4. /\ UNCHANGED <<db, given, main, starting, valid, known, saved, engines, eng>>
      /\ faults' \in Nat
  BY DEF ListConnections, ReadMessage, At, engineVars, mainVars, historyVars, Works, Fails, IInvTypes
<1>. QED
  BY <1>1, <1>3, <1>4, TypesGo DEF IInvTypes, Steps, Answers

\* The steps of workers and of main leave the requests alone.
LEMMA TypesKept ==
    ASSUME IInvTypes, UNCHANGED <<req, valid, known, saved>>,
           DbFits(db'), DOMAIN db' \subseteq saved, engines' \subseteq saved,
           starting' \subseteq saved,
           eng' \in [Conns -> {"none", "running", "closed", "stopped"}],
           given' \in [Conns -> SUBSET LowIds], main' \in {"loading", "serving"}, faults' \in Nat
    PROVE  IInvTypes'
<1>1. RequestsFit'
  BY RequestsKept DEF IInvTypes
<1>2. AddsApart'
  BY DEF IInvTypes, AddsApart, IsAdd
<1>. QED
  BY <1>1, <1>2 DEF IInvTypes, DbFits

LEMMA TypesOfFinish ==
    ASSUME IInvTypes, NEW c \in Conns, NEW id \in given[c], Finish(c, id)
    PROVE  IInvTypes'
<1>1. PICK m : m = MsgFromId(db, c, id)
  OBVIOUS
<1>2. PICK o \in (IF id \in BoxOf(c, "outbox") THEN MarkSent(db, m) ELSE MarkHandled(db, m)) :
         db' = o.db /\ (IF o.fault THEN Fails ELSE Works)
  BY <1>1 DEF Finish
<1>3. DbFits(db') /\ DOMAIN db' \subseteq saved
  BY <1>1, <1>2, FinishedFits DEF IInvTypes, SameBuckets, HasBucket
<1>4. /\ UNCHANGED <<engines, eng, main, starting, req, valid, known, saved>>
      /\ given' \in [Conns -> SUBSET LowIds] /\ faults' \in Nat
  BY <1>2 DEF Finish, mainVars, historyVars, Works, Fails, IInvTypes
<1>. QED
  BY <1>3, <1>4, TypesKept DEF IInvTypes

LEMMA TypesOfReceive ==
    ASSUME IInvTypes, NEW c \in Conns, Receive(c)
    PROVE  IInvTypes'
<1>0. PICK m : m = NewMsg(c, CHOOSE x \in Texts : TRUE, "L")
  OBVIOUS
<1>1. PICK o \in WriteToInbox(db, m) :
         /\ db' = o.db
         /\ IF o.fault THEN Fails ELSE Works
         /\ given' = [given EXCEPT ![c] = IF o.err THEN @ ELSE @ \cup {o.msg.id}]
  BY <1>0 DEF Receive
<1>2. m.conn = c /\ (c \in DOMAIN db => MaySave(m, db[c], c)) /\ DbFits(db)
  BY <1>0, NewMsgMayBeSaved DEF Receive, IInvTypes
<1>3. /\ DbFits(o.db) /\ SameBuckets(o.db, db)
      /\ ~o.err => IsMessage(o.msg, c, o.msg.id)
  <2>1. o \in SaveOutcomes(db, m, "inbox", "")
    BY <1>1 DEF WriteToInbox
  <2>. QED
    BY <1>2, <2>1, SavedFits
<1>4. given' \in [Conns -> SUBSET LowIds]
  BY <1>1, <1>3 DEF IInvTypes, IsMessage
<1>5. UNCHANGED <<engines, eng, main, starting, req, valid, known, saved>> /\ faults' \in Nat
  BY <1>1 DEF Receive, mainVars, historyVars, Works, Fails, IInvTypes
<1>6. DOMAIN db' \subseteq saved
  BY <1>1, <1>3 DEF SameBuckets, HasBucket, IInvTypes
<1>. QED
  BY <1>1, <1>3, <1>4, <1>5, <1>6, TypesKept DEF IInvTypes

LEMMA TypesOfEngineExits ==
    ASSUME IInvTypes, NEW c \in Conns, EngineExits(c)
    PROVE  IInvTypes'
<1>1. /\ UNCHANGED <<db, engines, main, starting, req, valid, known, saved, faults>>
      /\ given' \in [Conns -> SUBSET LowIds]
      /\ eng' \in [Conns -> {"none", "running", "closed", "stopped"}]
  BY DEF EngineExits, mainVars, historyVars, IInvTypes
<1>. QED
  BY <1>1, TypesKept DEF IInvTypes

\* Main meets only connections whose configuration makes an engine, so it never gives up.
LEMMA TypesOfStartOne ==
    ASSUME IInvTypes, NEW c \in Conns, StartOne(c)
    PROVE  IInvTypes'
<1>1. c \in starting /\ c \in valid /\ c \in saved
  BY DEF StartOne, IInvTypes
<1>2. BoxOf(c, "outbox") \subseteq LowIds /\ BoxOf(c, "inbox") \subseteq LowIds
  BY BoxOfFits DEF IInvTypes, BoxNames
<1>3. /\ UNCHANGED <<db, main, req, valid, known, saved, faults>>
      /\ starting' = starting \ {c} /\ engines' = engines \cup {c}
      /\ eng' = [eng EXCEPT ![c] = "running"]
      /\ given' = [given EXCEPT ![c] = BoxOf(c, "outbox") \cup BoxOf(c, "inbox")]
  BY <1>1 DEF StartOne, historyVars
<1>4. given' \in [Conns -> SUBSET LowIds]
  BY <1>2, <1>3 DEF IInvTypes
<1>. QED
  BY <1>1, <1>3, <1>4, TypesKept DEF IInvTypes

LEMMA TypesOfServe == IInvTypes /\ Serve => IInvTypes'
<1>. SUFFICES ASSUME IInvTypes, Serve PROVE IInvTypes'
  OBVIOUS
<1>1. /\ UNCHANGED <<db, starting, engines, eng, given, req, valid, known, saved, faults>>
      /\ main' = "serving"
  BY DEF Serve, engineVars, historyVars
<1>. QED
  BY <1>1, TypesKept DEF IInvTypes

LEMMA TypesOfCrash == IInvTypes /\ Crash => IInvTypes'
<1>. SUFFICES ASSUME IInvTypes, Crash PROVE IInvTypes'
  OBVIOUS
<1>1. /\ UNCHANGED <<db, valid, known, saved, faults>>
      /\ engines' = {} /\ starting' = DOMAIN db /\ main' = "loading"
      /\ eng' = [c \in Conns |-> "none"] /\ given' = [c \in Conns |-> {}]
  BY DEF Crash
<1>2. ASSUME NEW h \in Handlers
      PROVE  /\ req'[h] \in RequestRecord /\ RequestFits(req'[h])
             /\ req'[h].op = req[h].op /\ req'[h].conn = req[h].conn
  <2>1. req[h] \in RequestRecord /\ RequestFits(req[h])
    BY DEF IInvTypes, RequestsFit
  <2>2. CASE req'[h] = req[h]
    BY <2>1, <2>2
  <2>3. CASE req'[h] = [req[h] EXCEPT !.at = "lost"] /\ req[h].at # "free"
    <3>. PICK r : r = [req[h] EXCEPT !.at = "lost"]
      OBVIOUS
    <3>1. /\ r \in RequestRecord /\ r.at = "lost" /\ r.op = req[h].op /\ r.conn = req[h].conn
          /\ r.counts = req[h].counts
      BY <2>1 DEF RequestRecord, Steps, Answers
    <3>2. RequestFits(r)
      BY <2>1, <2>3, <3>1 DEF RequestFits, StepsFit, ConnFits, Answers
    <3>. QED
      BY <2>3, <3>1, <3>2
  <2>. QED
    BY <2>2, <2>3 DEF Crash
<1>3. req' \in [Handlers -> RequestRecord]
  BY <1>2 DEF Crash
<1>4. \A h \in Handlers : RequestFits(req[h])'
  BY <1>1, <1>2 DEF RequestFits, StepsFit, ConnFits
<1>5. AddsApart'
  BY <1>2 DEF IInvTypes, AddsApart, IsAdd
<1>. QED
  BY <1>1, <1>3, <1>4, <1>5 DEF IInvTypes, RequestsFit, DbFits

LEMMA TypesNext == IInvTypes /\ [ServerNext]_serverVars => IInvTypes'
<1>. SUFFICES ASSUME IInvTypes, [ServerNext]_serverVars PROVE IInvTypes'
  OBVIOUS
<1>1. ASSUME NEW h \in Handlers, Handle(h) PROVE IInvTypes'
  BY <1>1, TypesOfArrive, TypesOfArriveAdd, TypesOfAddSave, TypesOfAddStart, TypesOfAddStash,
     TypesOfLoad, TypesOfCount, TypesOfLook, TypesOfClose, TypesOfWait, TypesOfForget,
     TypesOfErase, TypesOfSendLook, TypesOfSendWrite, TypesOfSendOffer, TypesOfSimple
     DEF Handle
<1>2. ASSUME NEW c \in Conns, \/ Receive(c) \/ EngineExits(c) \/ StartOne(c)
                              \/ \E id \in given[c] : Finish(c, id)
      PROVE  IInvTypes'
  BY <1>2, TypesOfReceive, TypesOfEngineExits, TypesOfStartOne, TypesOfFinish
<1>3. CASE Serve \/ Crash
  BY <1>3, TypesOfServe, TypesOfCrash
<1>4. CASE UNCHANGED serverVars
  BY <1>4, TypesKept DEF IInvTypes, serverVars
<1>. QED
  BY <1>1, <1>2, <1>3, <1>4 DEF ServerNext

\* What the variables hold is always of its type, and main never gives up.
THEOREM ServerTypes == ServerSpec => [](IInvTypes /\ ServerTypeOK)
<1>1. IInvTypes => ServerTypeOK
  BY DEF IInvTypes, ServerTypeOK, RequestsFit, RequestFits, RequestRecord, LowIds
<1>. QED
  BY <1>1, TypesInit, TypesNext, PTL DEF ServerSpec

-----------------------------------------------------------------------------
(* A connection that is gone stays gone. *)

\* No transaction on messages makes a bucket or removes one.
LEMMA SavingKeepsBuckets ==
    \A d, m, add, del : \A o \in SaveOutcomes(d, m, add, del) : SameBuckets(o.db, d)
BY DEF SaveOutcomes, SameBuckets, HasBucket

LEMMA BucketsOfSendWrite ==
    ASSUME NEW h \in Handlers, SendWrite(h)
    PROVE  SameBuckets(db', db)
<1>1. PICK m, o : o \in WriteToOutbox(db, m) /\ db' = o.db
  BY DEF SendWrite
<1>. QED
  BY <1>1, SavingKeepsBuckets DEF WriteToOutbox

LEMMA BucketsOfReceive ==
    ASSUME NEW c \in Conns, Receive(c)
    PROVE  SameBuckets(db', db)
<1>1. PICK m, o : o \in WriteToInbox(db, m) /\ db' = o.db
  BY DEF Receive
<1>. QED
  BY <1>1, SavingKeepsBuckets DEF WriteToInbox

LEMMA BucketsOfFinish ==
    ASSUME NEW c \in Conns, NEW id \in given[c], Finish(c, id)
    PROVE  SameBuckets(db', db)
<1>1. PICK m, o : o \in MarkSent(db, m) \cup MarkHandled(db, m) /\ db' = o.db
  BY DEF Finish
<1>2. PICK n, add, del : o \in SaveOutcomes(db, n, add, del)
  BY <1>1 DEF MarkSent, MarkHandled
<1>. QED
  BY <1>1, <1>2, SavingKeepsBuckets

\* The buckets there are, but for AddSave and Erase.
LEMMA BucketsKept ==
    ASSUME ServerNext
    PROVE  \/ SameBuckets(db', db)
           \/ \E h \in Handlers : AddSave(h) \/ Erase(h)
<1>1. ASSUME NEW h \in Handlers, Handle(h)
      PROVE  db' = db \/ SameBuckets(db', db) \/ AddSave(h) \/ Erase(h)
  BY <1>1, BucketsOfSendWrite
     DEF Handle, Arrive, ArriveAdd, AddStart, AddStash, Load, Count, Look, Close, Wait, Forget,
         SendLook, SendOffer, ListConnections, ReadMessage
<1>2. ASSUME NEW c \in Conns, \/ Receive(c) \/ EngineExits(c) \/ StartOne(c)
                              \/ \E id \in given[c] : Finish(c, id)
      PROVE  db' = db \/ SameBuckets(db', db)
  BY <1>2, BucketsOfReceive, BucketsOfFinish DEF EngineExits, StartOne
<1>3. CASE Serve \/ Crash
  BY <1>3 DEF Serve, Crash, SameBuckets
<1>. QED
  BY <1>1, <1>2, <1>3 DEF ServerNext, SameBuckets

LEMMA GoneByStep ==
    ASSUME IInvTypes, [ServerNext]_serverVars, NEW c \in saved, c \notin DOMAIN db
    PROVE  c \notin DOMAIN db'
<1>1. ASSUME NEW h \in Handlers, AddSave(h) PROVE c \notin DOMAIN db'
  <2>1. req[h].conn \notin saved
    BY <1>1, RequestHere DEF AddSave, At, ConnFits
  <2>2. db' = db \/ db' = SaveConnection(db, req[h].conn)
    BY <1>1 DEF AddSave
  <2>. QED
    BY <2>1, <2>2 DEF SaveConnection, Put
<1>2. ASSUME NEW h \in Handlers, Erase(h) PROVE c \notin DOMAIN db'
  BY <1>2 DEF Erase, DeleteConnection
<1>3. CASE SameBuckets(db', db)
  BY <1>3 DEF SameBuckets, HasBucket
<1>4. CASE UNCHANGED serverVars
  BY <1>4 DEF serverVars
<1>. QED
  BY <1>1, <1>2, <1>3, <1>4, BucketsKept

\* What workers and handlers save after a DELETE does not bring a connection back.
THEOREM DeletedStaysDeleted == ServerSpec => GoneStaysGone
<1>1. IInvTypes /\ [ServerNext]_serverVars
        => [\A c \in saved : c \notin DOMAIN db => c \notin DOMAIN db']_serverVars
  BY GoneByStep
<1>. QED
  BY <1>1, TypesInit, TypesNext, PTL DEF ServerSpec, GoneStaysGone

-----------------------------------------------------------------------------
(* Every saved connection is attended to, and a deleted one is left alone. *)

IsDelete(h) == req[h].op = "delete"
Making(h, c) == IsAdd(h) /\ req[h].conn = c /\ req[h].at \in {"start", "stash"}
Removing(h, c) == IsDelete(h) /\ req[h].conn = c /\ req[h].at \in {"wait", "forget", "erase"}

\* Its engine runs and is found; or somebody will see to that, or to its removal.
Attended(c) ==
    \/ c \in starting
    \/ c \in engines /\ eng[c] = "running"
    \/ \E h \in Handlers : Making(h, c) \/ Removing(h, c)

\* While a connection is being added nobody finds its engine, and no DELETE has.
Unborn(h) ==
    /\ req[h].conn \notin engines
    /\ eng[req[h].conn] = IF req[h].at = "stash" THEN "running" ELSE "none"
    /\ \A g \in Handlers : IsDelete(g) /\ req[g].conn = req[h].conn => ~req[g].found

\* What a DELETE has done by the step it is at.
Departed(h) ==
    /\ req[h].at \in {"stop", "wait", "forget"} => req[h].found
    /\ req[h].found => req[h].conn \in saved
    /\ faults = 0 /\ req[h].at = "ok" => req[h].conn \notin DOMAIN db
    /\ faults = 0 /\ req[h].found /\ req[h].at \in {"forget", "erase", "ok"}
          => eng[req[h].conn] \in {"stopped", "none"}
    /\ faults = 0 /\ req[h].found /\ req[h].at \in {"erase", "ok"}
          => req[h].conn \notin engines

MainFits ==
    /\ main = "serving" => starting = {}
    /\ main = "loading" => \A h \in Handlers : req[h].at \in Answers \cup {"free"}
    /\ starting \subseteq DOMAIN db
NewFits ==
    /\ \A c \in Conns \ saved : eng[c] = "none"
    /\ \A h \in Handlers : IsAdd(h) /\ req[h].at \in {"begin", "start", "stash"} => Unborn(h)
DeletesFit == \A h \in Handlers : IsDelete(h) => Departed(h)
AllAttended == faults = 0 => \A c \in DOMAIN db : Attended(c)

IInvServed == MainFits /\ NewFits /\ DeletesFit /\ AllAttended

LEMMA ServedInit == ServerInit => IInvServed
<1>. SUFFICES ASSUME ServerInit PROVE IInvServed
  OBVIOUS
<1>1. NoRequest.op = "" /\ NoRequest.at = "free"
  BY DEF NoRequest, Request
<1>2. \A h \in Handlers : req[h].op = ""
  BY <1>1 DEF ServerInit
<1>3. MainFits
  BY DEF ServerInit, MainFits
<1>4. NewFits /\ DeletesFit
  BY <1>2 DEF ServerInit, NewFits, DeletesFit, IsAdd, IsDelete
<1>5. AllAttended
  <2>1. DOMAIN db = {}
    BY DEF ServerInit
  <2>. QED
    BY <2>1 DEF AllAttended
<1>. QED
  BY <1>3, <1>4, <1>5 DEF IInvServed

\* A handler's step that changes neither engines nor the connections there are.
LEMMA ServedByRequest ==
    ASSUME IInvTypes, IInvServed, NEW h \in Handlers, main = "serving",
           UNCHANGED <<engines, eng, starting, main, saved>>, SameBuckets(db', db),
           faults' = 0 => faults = 0,
           \A g \in Handlers \ {h} : req'[g] = req[g],
           req'[h].op = "add" /\ req'[h].at \in {"begin", "start", "stash"} => Unborn(h)',
           req'[h].op = "delete" => Departed(h)',
           req'[h].op = "delete" /\ req'[h].found =>
              \/ req'[h].conn \in engines
              \/ IsDelete(h) /\ req[h].found /\ req[h].conn = req'[h].conn,
           \A c : Making(h, c) \/ Removing(h, c) => (Making(h, c) \/ Removing(h, c))'
    PROVE  IInvServed'
<1>1. \A c : c \in DOMAIN db' <=> c \in DOMAIN db
  BY DEF SameBuckets, HasBucket
<1>2. MainFits'
  BY <1>1 DEF IInvServed, MainFits
<1>3. NewFits'
  <2>1. ASSUME NEW g \in Handlers \ {h}, IsAdd(g)', req'[g].at \in {"begin", "start", "stash"}
        PROVE  Unborn(g)'
    <3>1. Unborn(g) /\ req'[g] = req[g]
      BY <2>1 DEF IInvServed, NewFits, IsAdd
    <3>2. ASSUME NEW k \in Handlers, IsDelete(k)', req'[k].conn = req[g].conn
          PROVE  ~req'[k].found
      BY <3>1, <3>2 DEF Unborn, IsDelete
    <3>. QED
      BY <3>1, <3>2 DEF Unborn
  <2>. QED
    BY <2>1 DEF IInvServed, NewFits, IsAdd
<1>4. DeletesFit'
  BY <1>1 DEF IInvServed, DeletesFit, Departed, IsDelete
<1>5. AllAttended'
  <2>1. ASSUME faults' = 0, NEW c \in DOMAIN db' PROVE Attended(c)'
    <3>1. Attended(c)
      BY <1>1, <2>1 DEF IInvServed, AllAttended
    <3>2. \A g \in Handlers \ {h} : Making(g, c) \/ Removing(g, c) => (Making(g, c) \/ Removing(g, c))'
      BY DEF Making, Removing, IsAdd, IsDelete
    <3>. QED
      BY <3>1, <3>2 DEF Attended
  <2>. QED
    BY <2>1 DEF AllAttended
<1>. QED
  BY <1>2, <1>3, <1>4, <1>5 DEF IInvServed

\* While main still loads, no request is being handled.
LEMMA HandlersServe ==
    ASSUME IInvTypes, IInvServed, NEW h \in Handlers, req[h].at \notin Answers \cup {"free"}
    PROVE  main = "serving" /\ starting = {}
BY DEF IInvTypes, IInvServed, MainFits

\* What a request keeps when it only goes on.
LEMMA WhenItGoes ==
    ASSUME IInvTypes, NEW h \in Handlers, NEW next, Goes(h, next)
    PROVE  /\ req'[h].at = next /\ req'[h].op = req[h].op /\ req'[h].conn = req[h].conn
           /\ req'[h].found = req[h].found /\ req'[h].counts = req[h].counts
           /\ req'[h].incoming = req[h].incoming /\ req'[h].outgoing = req[h].outgoing
           /\ \A g \in Handlers \ {h} : req'[g] = req[g]
BY DEF Goes, IInvTypes, RequestsFit, RequestRecord

\* A step that is no part of an add, nor of a DELETE that has found an engine.
LEMMA ServedBySimple ==
    ASSUME IInvTypes, IInvServed, NEW h \in Handlers, main = "serving",
           UNCHANGED <<engines, eng, starting, main, saved>>, SameBuckets(db', db),
           faults' = 0 => faults = 0,
           \A g \in Handlers \ {h} : req'[g] = req[g],
           req[h].at \in {"free", "begin", "count", "write", "offer"},
           req'[h].op = "add" => req'[h].at \in Answers,
           req'[h].op = "delete" => req'[h].at \in {"begin", "count", "look", "error"},
           req'[h].op = "delete" /\ req'[h].found
              => IsDelete(h) /\ req[h].found /\ req[h].conn = req'[h].conn
    PROVE  IInvServed'
<1>1. ASSUME req'[h].op = "delete" PROVE Departed(h)'
  <2>1. req'[h].at \notin {"stop", "wait", "forget", "erase", "ok"}
    BY <1>1
  <2>2. ASSUME req'[h].found PROVE req'[h].conn \in saved'
    BY <1>1, <2>2 DEF IInvServed, DeletesFit, Departed
  <2>. QED
    BY <2>1, <2>2 DEF Departed
<1>2. \A c : ~(Making(h, c) \/ Removing(h, c))
  BY DEF Making, Removing
<1>3. ~(req'[h].op = "add" /\ req'[h].at \in {"begin", "start", "stash"})
  BY DEF Answers
<1>4. \A c : Making(h, c) \/ Removing(h, c) => (Making(h, c) \/ Removing(h, c))'
  BY <1>2
<1>. QED
  BY <1>1, <1>3, <1>4, ServedByRequest

LEMMA ServedOfArrive ==
    ASSUME IInvTypes, IInvServed, NEW h \in Handlers, Arrive(h)
    PROVE  IInvServed'
<1>1. PICK op \in Ops \ {"add"}, c \in known :
         \E incoming, outgoing :
            req' = [req EXCEPT ![h] = [Request(op, c, "begin") EXCEPT !.outgoing = outgoing,
                                                                     !.incoming = incoming]]
  BY DEF Arrive
<1>2. PICK r, incoming, outgoing :
         /\ r = [Request(op, c, "begin") EXCEPT !.outgoing = outgoing, !.incoming = incoming]
         /\ req' = [req EXCEPT ![h] = r]
  BY <1>1
<1>3. r.op = op /\ r.at = "begin" /\ r.found = FALSE
  BY <1>2 DEF Request
<1>4. req'[h] = r /\ \A g \in Handlers \ {h} : req'[g] = req[g]
  BY <1>2 DEF IInvTypes, RequestsFit
<1>5. /\ main = "serving" /\ UNCHANGED <<db, engines, eng, starting, main, saved, faults>>
      /\ req[h].at = "free"
  BY DEF Arrive, engineVars, mainVars, historyVars
<1>6. req'[h].op # "add" /\ req'[h].at = "begin" /\ ~req'[h].found
  BY <1>3, <1>4 DEF IsAdd
<1>. QED
  BY <1>4, <1>5, <1>6, ServedBySimple DEF SameBuckets

LEMMA ServedOfArriveAdd ==
    ASSUME IInvTypes, IInvServed, NEW h \in Handlers, ArriveAdd(h)
    PROVE  IInvServed'
<1>1. PICK c \in Conns \ known : req' = [req EXCEPT ![h] = Request("add", c, "begin")]
  BY DEF ArriveAdd
<1>2. req'[h] = Request("add", c, "begin") /\ \A g \in Handlers \ {h} : req'[g] = req[g]
  BY <1>1 DEF IInvTypes, RequestsFit
<1>3. req'[h].op = "add" /\ req'[h].conn = c /\ req'[h].at = "begin"
  BY <1>2 DEF Request
<1>4. /\ main = "serving" /\ UNCHANGED <<db, engines, eng, starting, main, saved, faults>>
      /\ req[h].at = "free"
  BY DEF ArriveAdd, engineVars, mainVars
<1>5. c \notin saved /\ c \notin engines /\ eng[c] = "none"
  BY DEF IInvTypes, IInvServed, NewFits
<1>6. \A g \in Handlers : IsDelete(g) /\ req[g].conn = c => ~req[g].found
  BY <1>5 DEF IInvServed, DeletesFit, Departed
<1>7. Unborn(h)'
  BY <1>2, <1>3, <1>4, <1>5, <1>6 DEF Unborn, IsDelete
<1>8. req'[h].op # "delete" /\ \A k : ~Making(h, k) /\ ~Removing(h, k)
  BY <1>3, <1>4 DEF IsDelete, Making, Removing
<1>. QED
  BY <1>2, <1>4, <1>7, <1>8, ServedByRequest DEF SameBuckets

LEMMA ServedOfLoad ==
    ASSUME IInvTypes, IInvServed, NEW h \in Handlers, Load(h)
    PROVE  IInvServed'
<1>1. PICK next \in {"count", "error"} : Goes(h, next)
  BY DEF Load
<1>2. /\ UNCHANGED <<db, engines, eng, starting, main, saved, faults>>
      /\ req[h].at = "begin" /\ req[h].op # "add"
  BY DEF Load, engineVars, mainVars, historyVars
<1>3. main = "serving"
  BY <1>2, HandlersServe DEF Answers
<1>. QED
  BY <1>1, <1>2, <1>3, WhenItGoes, ServedBySimple DEF SameBuckets, IsAdd, IsDelete

LEMMA ServedOfCount ==
    ASSUME IInvTypes, IInvServed, NEW h \in Handlers, Count(h)
    PROVE  IInvServed'
<1>1. PICK next \in {"error", "count", "ok", "look"} :
         /\ \E counts : req' = [req EXCEPT ![h].counts = counts, ![h].at = next]
         /\ next = "ok" => req[h].op = "read"
  <2>1. CASE Goes(h, "error")
    <3>1. req' = [req EXCEPT ![h].counts = req[h].counts, ![h].at = "error"]
      BY <2>1 DEF Goes, IInvTypes, RequestsFit, RequestRecord
    <3>. QED
      BY <3>1
  <2>2. CASE ~Goes(h, "error")
    BY <2>2 DEF Count
  <2>. QED
    BY <2>1, <2>2
<1>2. /\ req'[h].op = req[h].op /\ req'[h].at = next /\ req'[h].found = req[h].found
      /\ req'[h].conn = req[h].conn /\ \A g \in Handlers \ {h} : req'[g] = req[g]
  BY <1>1, ZenonT(30) DEF IInvTypes, RequestsFit, RequestRecord
<1>3. /\ UNCHANGED <<db, engines, eng, starting, main, saved, faults>> /\ req[h].at = "count"
  BY DEF Count, engineVars, mainVars, historyVars
<1>4. main = "serving" /\ req[h].op \in {"read", "delete"}
  BY <1>3, HandlersServe, RequestHere DEF Answers, StepsFit, RequestRecord, Ops
<1>. QED
  BY <1>1, <1>2, <1>3, <1>4, ServedBySimple DEF SameBuckets, IsDelete

LEMMA ServedOfLook ==
    ASSUME IInvTypes, IInvServed, NEW h \in Handlers, Look(h)
    PROVE  IInvServed'
<1>1. PICK found : found = (req[h].conn \in engines)
  OBVIOUS
<1>2. /\ req'[h].op = "delete" /\ req'[h].at = (IF found THEN "stop" ELSE "erase")
      /\ req'[h].found = found /\ req'[h].conn = req[h].conn
      /\ \A g \in Handlers \ {h} : req'[g] = req[g]
  BY <1>1 DEF Look, At, IInvTypes, RequestsFit, RequestRecord
<1>3. /\ UNCHANGED <<db, engines, eng, starting, main, saved, faults>>
      /\ req[h].at = "look" /\ req[h].op = "delete" /\ req[h].conn \in saved
  BY RequestHere DEF Look, At, engineVars, mainVars, historyVars, ConnFits
<1>4. main = "serving"
  BY <1>3, HandlersServe DEF Answers
<1>5. Departed(h)'
  BY <1>1, <1>2, <1>3 DEF Departed
<1>6. \A c : ~(Making(h, c) \/ Removing(h, c))
  BY <1>3 DEF Making, Removing
<1>. QED
  BY <1>1, <1>2, <1>3, <1>4, <1>5, <1>6, ServedByRequest DEF SameBuckets

LEMMA ServedOfWait ==
    ASSUME IInvTypes, IInvServed, NEW h \in Handlers, Wait(h)
    PROVE  IInvServed'
<1>1. /\ UNCHANGED <<db, engines, eng, starting, main, saved, faults>>
      /\ IsDelete(h) /\ req[h].at = "wait" /\ eng[req[h].conn] = "stopped" /\ Goes(h, "forget")
  BY DEF Wait, At, IsDelete, engineVars, mainVars, historyVars
<1>2. main = "serving"
  BY <1>1, HandlersServe DEF Answers
<1>3. Departed(h)'
  BY <1>1, WhenItGoes DEF Departed, IInvServed, DeletesFit
<1>4. req'[h].op = "delete" /\ req'[h].found = req[h].found /\ req'[h].conn = req[h].conn
  BY <1>1, WhenItGoes DEF IsDelete
<1>5. \A c : Making(h, c) \/ Removing(h, c) => (Making(h, c) \/ Removing(h, c))'
  BY <1>1, <1>4, WhenItGoes DEF Making, Removing, IsAdd, IsDelete
<1>. QED
  BY <1>1, <1>2, <1>3, <1>4, <1>5, WhenItGoes, ServedByRequest DEF SameBuckets

LEMMA ServedOfSendLook ==
    ASSUME IInvTypes, IInvServed, NEW h \in Handlers, SendLook(h)
    PROVE  IInvServed'
<1>1. /\ req'[h].op = "send" /\ \A g \in Handlers \ {h} : req'[g] = req[g]
  BY DEF SendLook, At, IInvTypes, RequestsFit, RequestRecord
<1>2. /\ UNCHANGED <<db, engines, eng, starting, main, saved, faults>> /\ req[h].at = "begin"
  BY DEF SendLook, At, engineVars, mainVars, historyVars
<1>3. main = "serving"
  BY <1>2, HandlersServe DEF Answers
<1>. QED
  BY <1>1, <1>2, <1>3, ServedBySimple DEF SameBuckets

LEMMA ServedOfSendWrite ==
    ASSUME IInvTypes, IInvServed, NEW h \in Handlers, SendWrite(h)
    PROVE  IInvServed'
<1>0. PICK id, next : req' = [req EXCEPT ![h].id = id, ![h].at = next]
  BY ZenonT(30) DEF SendWrite
<1>1. req'[h].op = "send" /\ \A g \in Handlers \ {h} : req'[g] = req[g]
  <2>1. req[h].op = "send" /\ req \in [Handlers -> RequestRecord]
    BY DEF SendWrite, At, IInvTypes, RequestsFit
  <2>. QED
    BY <1>0, <2>1 DEF RequestRecord
<1>2. /\ UNCHANGED <<engines, eng, starting, main, saved>> /\ req[h].at = "write"
      /\ faults' = faults \/ faults' = faults + 1
  BY DEF SendWrite, At, engineVars, mainVars, historyVars, Works, Fails
<1>3. main = "serving"
  BY <1>2, HandlersServe DEF Answers
<1>4. faults' = 0 => faults = 0
  BY <1>2 DEF IInvTypes
<1>. QED
  BY <1>1, <1>2, <1>3, <1>4, BucketsOfSendWrite, ServedBySimple

LEMMA ServedOfSendOffer ==
    ASSUME IInvTypes, IInvServed, NEW h \in Handlers, SendOffer(h)
    PROVE  IInvServed'
<1>1. /\ UNCHANGED <<db, engines, eng, starting, main, saved, faults>>
      /\ req[h].op = "send" /\ req[h].at = "offer" /\ Goes(h, "ok")
  BY DEF SendOffer, At, mainVars, historyVars
<1>2. main = "serving"
  BY <1>1, HandlersServe DEF Answers
<1>. QED
  BY <1>1, <1>2, WhenItGoes, ServedBySimple DEF SameBuckets

LEMMA ServedOfSimple ==
    ASSUME IInvTypes, IInvServed, NEW h \in Handlers, ListConnections(h) \/ ReadMessage(h)
    PROVE  IInvServed'
<1>1. PICK next : Goes(h, next)
  BY DEF ListConnections, ReadMessage, At
<1>2. /\ UNCHANGED <<db, engines, eng, starting, main, saved>>
      /\ req[h].op \in {"list", "status"} /\ req[h].at = "begin"
      /\ faults' = faults \/ faults' = faults + 1
  BY DEF ListConnections, ReadMessage, At, engineVars, mainVars, historyVars, Works, Fails
<1>3. main = "serving"
  BY <1>2, HandlersServe DEF Answers
<1>4. faults' = 0 => faults = 0
  BY <1>2 DEF IInvTypes
<1>. QED
  BY <1>1, <1>2, <1>3, <1>4, WhenItGoes, ServedBySimple DEF SameBuckets

\* The DELETE that closes Done waits; another that comes to it panics.
LEMMA ServedOfClose ==
    ASSUME IInvTypes, IInvServed, NEW h \in Handlers, Close(h)
    PROVE  IInvServed'
<1>. PICK c : c = req[h].conn
  OBVIOUS
<1>1. /\ UNCHANGED <<db, engines, starting, main, saved, faults>>
      /\ IsDelete(h) /\ req[h].at = "stop" /\ req[h].found
  BY DEF Close, At, IsDelete, mainVars, historyVars, IInvServed, DeletesFit, Departed
<1>2. main = "serving" /\ starting = {} /\ c \in saved /\ c \in Conns
  BY <1>1, HandlersServe, RequestHere DEF Answers, IInvServed, DeletesFit, Departed, IsDelete
<1>3. CASE eng' = eng /\ Goes(h, "panic")
  <2>1. req'[h].op = "delete" /\ req'[h].at = "panic"
        /\ req'[h].found = req[h].found /\ req'[h].conn = req[h].conn
    BY <1>1, <1>3, WhenItGoes DEF IsDelete
  <2>2. Departed(h)'
    BY <1>1, <1>2, <2>1 DEF Departed
  <2>3. \A k : ~(Making(h, k) \/ Removing(h, k))
    BY <1>1 DEF Making, Removing
  <2>. QED
    BY <1>1, <1>2, <1>3, <2>1, <2>2, <2>3, WhenItGoes, ServedByRequest DEF SameBuckets
<1>4. CASE eng[c] = "running" /\ eng' = [eng EXCEPT ![c] = "closed"] /\ Goes(h, "wait")
  <2>1. /\ req'[h].op = "delete" /\ req'[h].at = "wait"
        /\ req'[h].found = req[h].found /\ req'[h].conn = c
        /\ \A g \in Handlers \ {h} : req'[g] = req[g]
    BY <1>1, <1>4, WhenItGoes DEF IsDelete
  <2>2. \A k \in Conns : k # c => eng'[k] = eng[k]
    BY <1>4
  <2>3. MainFits'
    BY <1>1, <1>2 DEF MainFits, IInvServed
  <2>4. NewFits'
    <3>1. ASSUME NEW g \in Handlers, IsAdd(g)', req'[g].at \in {"begin", "start", "stash"}
          PROVE  Unborn(g)'
      <4>1. g # h /\ req'[g] = req[g] /\ Unborn(g)
        BY <2>1, <3>1 DEF IInvServed, NewFits, IsAdd
      <4>2. req[g].conn # c
        BY <1>1, <4>1 DEF Unborn
      <4>3. eng'[req[g].conn] = eng[req[g].conn]
        BY <1>4, <3>1, <4>1, <4>2, RequestHere DEF IsAdd, IInvTypes
      <4>4. \A k \in Handlers : IsDelete(k)' => IsDelete(k) /\ req'[k].conn = req[k].conn
                                              /\ req'[k].found = req[k].found
        BY <1>1, <2>1 DEF IsDelete
      <4>. QED
        BY <1>1, <4>1, <4>3, <4>4 DEF Unborn
    <3>2. \A k \in Conns \ saved' : eng'[k] = "none"
      BY <1>1, <1>2, <2>2 DEF IInvServed, NewFits
    <3>. QED
      BY <3>1, <3>2 DEF NewFits
  <2>5. DeletesFit'
    <3>1. ASSUME NEW g \in Handlers \ {h}, IsDelete(g)' PROVE Departed(g)'
      <4>1. req'[g] = req[g] /\ Departed(g)
        BY <2>1, <3>1 DEF IInvServed, DeletesFit, IsDelete
      <4>2. faults = 0 /\ req[g].found /\ req[g].at \in {"forget", "erase", "ok"}
              => req[g].conn # c /\ req[g].conn \in Conns
        BY <1>4, <4>1 DEF Departed, IInvTypes
      <4>. QED
        BY <1>1, <2>2, <4>1, <4>2 DEF Departed
    <3>2. Departed(h)'
      BY <1>1, <1>2, <2>1 DEF Departed
    <3>. QED
      BY <3>1, <3>2 DEF DeletesFit
  <2>6. AllAttended'
    <3>1. ASSUME faults = 0, NEW k \in DOMAIN db PROVE Attended(k)'
      <4>1. CASE k = c
        BY <2>1, <4>1 DEF Attended, Removing, IsDelete
      <4>2. CASE k # c
        <5>1. Attended(k) /\ eng'[k] = eng[k]
          BY <2>2, <3>1, <4>2 DEF IInvServed, AllAttended, IInvTypes, DbFits
        <5>2. ASSUME NEW g \in Handlers, Making(g, k) \/ Removing(g, k)
              PROVE  (Making(g, k) \/ Removing(g, k))'
          BY <1>1, <2>1, <5>2 DEF Making, Removing, IsAdd, IsDelete
        <5>. QED
          BY <1>1, <5>1, <5>2 DEF Attended
      <4>. QED
        BY <4>1, <4>2
    <3>. QED
      BY <1>1, <3>1 DEF AllAttended
  <2>. QED
    BY <2>3, <2>4, <2>5, <2>6 DEF IInvServed
<1>. QED
  BY <1>3, <1>4 DEF Close

\* What holds of the other requests when only one goes on.
LEMMA OthersKeep ==
    ASSUME NEW h \in Handlers, \A g \in Handlers \ {h} : req'[g] = req[g],
           NEW g \in Handlers \ {h}, NEW c
    PROVE  /\ IsAdd(g)' <=> IsAdd(g)
           /\ IsDelete(g)' <=> IsDelete(g)
           /\ Making(g, c)' <=> Making(g, c)
           /\ Removing(g, c)' <=> Removing(g, c)
BY DEF IsAdd, IsDelete, Making, Removing

LEMMA ServedOfAddSave ==
    ASSUME IInvTypes, IInvServed, NEW h \in Handlers, AddSave(h)
    PROVE  IInvServed'
<1>. PICK c : c = req[h].conn
  OBVIOUS
<1>1. /\ UNCHANGED <<engines, eng, starting, main>>
      /\ IsAdd(h) /\ req[h].at = "begin" /\ c \notin saved /\ c \in Conns
  BY RequestHere DEF AddSave, At, IsAdd, engineVars, mainVars, ConnFits
<1>2. main = "serving" /\ starting = {} /\ Unborn(h)
  BY <1>1, HandlersServe DEF Answers, IInvServed, NewFits
<1>3. CASE Goes(h, "error") /\ UNCHANGED <<db, saved>> /\ (faults' = 0 => faults = 0)
  <2>1. req'[h].op = "add" /\ req'[h].at = "error"
    BY <1>1, <1>3, WhenItGoes DEF IsAdd
  <2>. QED
    BY <1>1, <1>2, <1>3, <2>1, WhenItGoes, ServedBySimple DEF SameBuckets, Answers
<1>4. CASE /\ db' = SaveConnection(db, c) /\ saved' = saved \cup {c}
           /\ Goes(h, "start") /\ faults' = faults
  <2>1. /\ req'[h].op = "add" /\ req'[h].at = "start" /\ req'[h].conn = c
        /\ \A g \in Handlers \ {h} : req'[g] = req[g]
    BY <1>1, <1>4, WhenItGoes DEF IsAdd
  <2>2. \A k : k \in DOMAIN db' => k \in DOMAIN db \/ k = c
    BY <1>4 DEF SaveConnection, Put
  <2>3. MainFits'
    BY <1>1, <1>2, <1>4 DEF MainFits
  <2>4. NewFits'
    <3>1. ASSUME NEW g \in Handlers, IsAdd(g)', req'[g].at \in {"begin", "start", "stash"}
          PROVE  Unborn(g)'
      <4>1. Unborn(g) /\ req'[g].conn = req[g].conn /\ (req'[g].at = "stash" <=> req[g].at = "stash")
        BY <1>1, <1>2, <2>1, <3>1 DEF IInvServed, NewFits, IsAdd
      <4>2. \A k \in Handlers : IsDelete(k)' => IsDelete(k) /\ req'[k].conn = req[k].conn
                                              /\ req'[k].found = req[k].found
        BY <2>1 DEF IsDelete
      <4>. QED
        BY <1>1, <4>1, <4>2 DEF Unborn
    <3>. QED
      BY <1>1, <1>4, <3>1 DEF NewFits, IInvServed
  <2>5. DeletesFit'
    <3>1. ASSUME NEW g \in Handlers, IsDelete(g)' PROVE Departed(g)'
      <4>1. g # h /\ req'[g] = req[g] /\ Departed(g) /\ ConnFits(req[g]) /\ IsDelete(g)
        BY <2>1, <3>1, RequestHere DEF IInvServed, DeletesFit, IsDelete
      <4>2. req[g].at = "ok" => req[g].conn # c
        BY <1>1, <4>1 DEF ConnFits, IsDelete
      <4>. QED
        BY <1>1, <1>4, <2>2, <4>1, <4>2 DEF Departed
    <3>. QED
      BY <3>1 DEF DeletesFit
  <2>6. AllAttended'
    <3>1. ASSUME faults = 0, NEW k \in DOMAIN db' PROVE Attended(k)'
      <4>1. CASE k = c
        BY <2>1, <4>1 DEF Attended, Making, IsAdd
      <4>2. CASE k # c
        <5>1. Attended(k)
          BY <2>2, <3>1, <4>2 DEF IInvServed, AllAttended
        <5>2. ~(Making(h, k) \/ Removing(h, k))
          BY <1>1 DEF Making, Removing
        <5>. QED
          BY <1>1, <2>1, <5>1, <5>2, OthersKeep DEF Attended
      <4>. QED
        BY <4>1, <4>2
    <3>. QED
      BY <1>4, <3>1 DEF AllAttended
  <2>. QED
    BY <2>3, <2>4, <2>5, <2>6 DEF IInvServed
<1>5. faults' = 0 => faults = 0
  BY DEF AddSave, Works, Fails, IInvTypes
<1>. QED
  BY <1>3, <1>4, <1>5 DEF AddSave, Works

\* Nobody else has to do with a connection that is being added.
LEMMA ServedOfAddStart ==
    ASSUME IInvTypes, IInvServed, NEW h \in Handlers, AddStart(h)
    PROVE  IInvServed'
<1>. PICK c : c = req[h].conn
  OBVIOUS
<1>1. /\ UNCHANGED <<db, engines, starting, main, saved, faults>>
      /\ eng' = [eng EXCEPT ![c] = "running"] /\ Goes(h, "stash")
      /\ IsAdd(h) /\ req[h].at = "start" /\ c \in saved /\ c \in Conns
  BY RequestHere DEF AddStart, At, IsAdd, mainVars, historyVars, ConnFits
<1>2. main = "serving" /\ starting = {} /\ Unborn(h)
  BY <1>1, HandlersServe DEF Answers, IInvServed, NewFits
<1>3. /\ req'[h].op = "add" /\ req'[h].at = "stash" /\ req'[h].conn = c
      /\ \A g \in Handlers \ {h} : req'[g] = req[g]
  BY <1>1, WhenItGoes DEF IsAdd
<1>4. eng'[c] = "running" /\ \A k \in Conns : k # c => eng'[k] = eng[k]
  BY <1>1 DEF IInvTypes
<1>5. MainFits'
  BY <1>1, <1>2 DEF MainFits, IInvServed
<1>6. NewFits'
  <2>1. \A k \in Handlers : IsDelete(k)' => IsDelete(k) /\ req'[k].conn = req[k].conn
                                          /\ req'[k].found = req[k].found
    BY <1>3 DEF IsDelete
  <2>2. ASSUME NEW g \in Handlers \ {h}, IsAdd(g)', req'[g].at \in {"begin", "start", "stash"}
        PROVE  Unborn(g)'
    <3>1. req'[g] = req[g] /\ IsAdd(g) /\ Unborn(g) /\ req[g].conn \in Conns
      BY <1>3, <2>2, RequestHere DEF IInvServed, NewFits, IsAdd
    <3>2. req[g].conn # c
      BY <1>1, <3>1 DEF IInvTypes, AddsApart
    <3>. QED
      BY <1>1, <1>4, <2>1, <3>1, <3>2 DEF Unborn
  <2>3. Unborn(h)'
    BY <1>1, <1>2, <1>3, <1>4, <2>1 DEF Unborn
  <2>. QED
    BY <1>1, <1>4, <2>2, <2>3 DEF NewFits, IInvServed
<1>7. DeletesFit'
  <2>1. ASSUME NEW g \in Handlers, IsDelete(g)' PROVE Departed(g)'
    <3>1. req'[g] = req[g] /\ Departed(g) /\ IsDelete(g) /\ req[g].conn \in Conns
      BY <1>3, <2>1, RequestHere DEF IInvServed, DeletesFit, IsDelete
    <3>2. req[g].found => req[g].conn # c
      BY <1>2, <3>1 DEF Unborn
    <3>. QED
      BY <1>1, <1>4, <3>1, <3>2 DEF Departed
  <2>. QED
    BY <2>1 DEF DeletesFit
<1>8. AllAttended'
  <2>1. ASSUME faults = 0, NEW k \in DOMAIN db PROVE Attended(k)'
    <3>1. CASE k = c
      BY <1>3, <3>1 DEF Attended, Making, IsAdd
    <3>2. CASE k # c
      <4>1. Attended(k) /\ eng'[k] = eng[k]
        BY <1>4, <2>1, <3>2 DEF IInvServed, AllAttended, IInvTypes, DbFits
      <4>2. ~(Making(h, k) \/ Removing(h, k))
        BY <1>1, <3>2 DEF Making, Removing
      <4>. QED
        BY <1>1, <1>3, <4>1, <4>2, OthersKeep DEF Attended
    <3>. QED
      BY <3>1, <3>2
  <2>. QED
    BY <1>1, <2>1 DEF AllAttended
<1>. QED
  BY <1>5, <1>6, <1>7, <1>8 DEF IInvServed

LEMMA ServedOfAddStash ==
    ASSUME IInvTypes, IInvServed, NEW h \in Handlers, AddStash(h)
    PROVE  IInvServed'
<1>. PICK c : c = req[h].conn
  OBVIOUS
<1>1. /\ UNCHANGED <<db, eng, starting, main, saved, faults>>
      /\ engines' = engines \cup {c} /\ Goes(h, "ok")
      /\ IsAdd(h) /\ req[h].at = "stash" /\ c \in saved /\ c \in Conns
  BY RequestHere DEF AddStash, At, IsAdd, mainVars, historyVars, ConnFits
<1>2. main = "serving" /\ starting = {} /\ Unborn(h)
  BY <1>1, HandlersServe DEF Answers, IInvServed, NewFits
<1>3. /\ req'[h].op = "add" /\ req'[h].at = "ok" /\ req'[h].conn = c
      /\ \A g \in Handlers \ {h} : req'[g] = req[g]
  BY <1>1, WhenItGoes DEF IsAdd
<1>4. MainFits'
  BY <1>1, <1>2 DEF MainFits, IInvServed
<1>5. NewFits'
  <2>1. \A k \in Handlers : IsDelete(k)' => IsDelete(k) /\ req'[k].conn = req[k].conn
                                          /\ req'[k].found = req[k].found
    BY <1>3 DEF IsDelete
  <2>2. ASSUME NEW g \in Handlers, IsAdd(g)', req'[g].at \in {"begin", "start", "stash"}
        PROVE  Unborn(g)'
    <3>1. g # h /\ req'[g] = req[g] /\ IsAdd(g) /\ Unborn(g)
      BY <1>3, <2>2 DEF IInvServed, NewFits, IsAdd
    <3>2. req[g].conn # c
      BY <1>1, <3>1 DEF IInvTypes, AddsApart
    <3>. QED
      BY <1>1, <2>1, <3>1, <3>2 DEF Unborn
  <2>. QED
    BY <1>1, <2>2 DEF NewFits, IInvServed
<1>6. DeletesFit'
  <2>1. ASSUME NEW g \in Handlers, IsDelete(g)' PROVE Departed(g)'
    <3>1. req'[g] = req[g] /\ Departed(g) /\ IsDelete(g)
      BY <1>3, <2>1 DEF IInvServed, DeletesFit, IsDelete
    <3>2. req[g].found => req[g].conn # c
      BY <1>2, <3>1 DEF Unborn
    <3>. QED
      BY <1>1, <3>1, <3>2 DEF Departed
  <2>. QED
    BY <2>1 DEF DeletesFit
<1>7. AllAttended'
  <2>1. ASSUME faults = 0, NEW k \in DOMAIN db PROVE Attended(k)'
    <3>1. CASE k = c
      BY <1>1, <1>2, <3>1 DEF Attended, Unborn
    <3>2. CASE k # c
      <4>1. Attended(k)
        BY <2>1 DEF IInvServed, AllAttended
      <4>2. ~(Making(h, k) \/ Removing(h, k))
        BY <1>1, <3>2 DEF Making, Removing
      <4>. QED
        BY <1>1, <1>3, <4>1, <4>2, OthersKeep DEF Attended
    <3>. QED
      BY <3>1, <3>2
  <2>. QED
    BY <1>1, <2>1 DEF AllAttended
<1>. QED
  BY <1>4, <1>5, <1>6, <1>7 DEF IInvServed

LEMMA ServedOfForget ==
    ASSUME IInvTypes, IInvServed, NEW h \in Handlers, Forget(h)
    PROVE  IInvServed'
<1>. PICK c : c = req[h].conn
  OBVIOUS
<1>1. /\ UNCHANGED <<db, eng, starting, main, saved, faults>>
      /\ engines' = engines \ {c} /\ Goes(h, "erase")
      /\ IsDelete(h) /\ req[h].at = "forget" /\ Departed(h)
  BY DEF Forget, At, IsDelete, mainVars, historyVars, IInvServed, DeletesFit
<1>2. main = "serving" /\ starting = {}
  BY <1>1, HandlersServe DEF Answers
<1>3. /\ req'[h].op = "delete" /\ req'[h].at = "erase" /\ req'[h].conn = c
      /\ req'[h].found = req[h].found /\ \A g \in Handlers \ {h} : req'[g] = req[g]
  BY <1>1, WhenItGoes DEF IsDelete
<1>4. MainFits'
  BY <1>1, <1>2 DEF MainFits, IInvServed
<1>5. NewFits'
  <2>1. \A k \in Handlers : IsDelete(k)' => IsDelete(k) /\ req'[k].conn = req[k].conn
                                          /\ req'[k].found = req[k].found
    BY <1>1, <1>3 DEF IsDelete
  <2>2. ASSUME NEW g \in Handlers, IsAdd(g)', req'[g].at \in {"begin", "start", "stash"}
        PROVE  Unborn(g)'
    <3>1. g # h /\ req'[g] = req[g] /\ Unborn(g)
      BY <1>3, <2>2 DEF IInvServed, NewFits, IsAdd
    <3>. QED
      BY <1>1, <2>1, <3>1 DEF Unborn
  <2>. QED
    BY <1>1, <2>2 DEF NewFits, IInvServed
<1>6. DeletesFit'
  <2>1. ASSUME NEW g \in Handlers \ {h}, IsDelete(g)' PROVE Departed(g)'
    <3>1. req'[g] = req[g] /\ Departed(g)
      BY <1>3, <2>1 DEF IInvServed, DeletesFit, IsDelete
    <3>. QED
      BY <1>1, <3>1 DEF Departed
  <2>2. Departed(h)'
    BY <1>1, <1>3 DEF Departed
  <2>. QED
    BY <2>1, <2>2 DEF DeletesFit
<1>7. AllAttended'
  <2>1. ASSUME faults = 0, NEW k \in DOMAIN db PROVE Attended(k)'
    <3>1. CASE k = c
      BY <1>3, <3>1 DEF Attended, Removing, IsDelete
    <3>2. CASE k # c
      <4>1. Attended(k)
        BY <2>1 DEF IInvServed, AllAttended
      <4>2. ~(Making(h, k) \/ Removing(h, k))
        BY <1>1, <3>2 DEF Making, Removing
      <4>. QED
        BY <1>1, <1>3, <3>2, <4>1, <4>2, OthersKeep DEF Attended
    <3>. QED
      BY <3>1, <3>2
  <2>. QED
    BY <1>1, <2>1 DEF AllAttended
<1>. QED
  BY <1>4, <1>5, <1>6, <1>7 DEF IInvServed

LEMMA ServedOfErase ==
    ASSUME IInvTypes, IInvServed, NEW h \in Handlers, Erase(h)
    PROVE  IInvServed'
<1>. PICK c : c = req[h].conn
  OBVIOUS
<1>1. /\ UNCHANGED <<engines, eng, starting, main, saved>> /\ Goes(h, "ok")
      /\ IsDelete(h) /\ req[h].at = "erase" /\ Departed(h)
  BY DEF Erase, At, IsDelete, engineVars, mainVars, historyVars, IInvServed, DeletesFit
<1>2. main = "serving" /\ starting = {}
  BY <1>1, HandlersServe DEF Answers
<1>3. /\ req'[h].op = "delete" /\ req'[h].at = "ok" /\ req'[h].conn = c
      /\ req'[h].found = req[h].found /\ \A g \in Handlers \ {h} : req'[g] = req[g]
  BY <1>1, WhenItGoes DEF IsDelete
<1>0. faults' = 0 => /\ faults = 0
                     /\ \A k : k \in DOMAIN db' <=> k \in DOMAIN db /\ k # c
  BY DEF Erase, Works, Fails, IInvTypes, DeleteConnection
<1>4. MainFits'
  BY <1>1, <1>2 DEF MainFits
<1>5. NewFits'
  <2>1. \A k \in Handlers : IsDelete(k)' => IsDelete(k) /\ req'[k].conn = req[k].conn
                                          /\ req'[k].found = req[k].found
    BY <1>1, <1>3 DEF IsDelete
  <2>2. ASSUME NEW g \in Handlers, IsAdd(g)', req'[g].at \in {"begin", "start", "stash"}
        PROVE  Unborn(g)'
    <3>1. g # h /\ req'[g] = req[g] /\ Unborn(g)
      BY <1>3, <2>2 DEF IInvServed, NewFits, IsAdd
    <3>. QED
      BY <1>1, <2>1, <3>1 DEF Unborn
  <2>. QED
    BY <1>1, <2>2 DEF NewFits, IInvServed
<1>6. DeletesFit'
  <2>1. ASSUME NEW g \in Handlers \ {h}, IsDelete(g)' PROVE Departed(g)'
    <3>1. req'[g] = req[g] /\ Departed(g)
      BY <1>3, <2>1 DEF IInvServed, DeletesFit, IsDelete
    <3>. QED
      BY <1>0, <1>1, <3>1 DEF Departed
  <2>2. Departed(h)'
    BY <1>0, <1>1, <1>3 DEF Departed
  <2>. QED
    BY <2>1, <2>2 DEF DeletesFit
<1>7. AllAttended'
  <2>1. ASSUME faults' = 0, NEW k \in DOMAIN db' PROVE Attended(k)'
    <3>1. Attended(k) /\ k # c
      BY <1>0, <2>1 DEF IInvServed, AllAttended
    <3>2. ~(Making(h, k) \/ Removing(h, k))
      BY <1>1, <3>1 DEF Making, Removing
    <3>. QED
      BY <1>1, <1>3, <3>1, <3>2, OthersKeep DEF Attended
  <2>. QED
    BY <2>1 DEF AllAttended
<1>. QED
  BY <1>4, <1>5, <1>6, <1>7 DEF IInvServed

\* The steps of workers change no connection and no request.
LEMMA ServedByWorker ==
    ASSUME IInvTypes, IInvServed,
           UNCHANGED <<engines, eng, starting, main, req, saved>>, SameBuckets(db', db),
           faults' = 0 => faults = 0
    PROVE  IInvServed'
<1>1. \A c : c \in DOMAIN db' <=> c \in DOMAIN db
  BY DEF SameBuckets, HasBucket
<1>2. MainFits'
  BY <1>1 DEF IInvServed, MainFits
<1>3. NewFits'
  BY DEF IInvServed, NewFits, Unborn, IsAdd, IsDelete
<1>4. DeletesFit'
  BY <1>1 DEF IInvServed, DeletesFit, Departed, IsDelete
<1>5. AllAttended'
  BY <1>1 DEF IInvServed, AllAttended, Attended, Making, Removing, IsAdd, IsDelete
<1>. QED
  BY <1>2, <1>3, <1>4, <1>5 DEF IInvServed

LEMMA ServedOfEngineExits ==
    ASSUME IInvTypes, IInvServed, NEW c \in Conns, EngineExits(c)
    PROVE  IInvServed'
<1>1. /\ UNCHANGED <<db, engines, starting, main, req, saved, faults>>
      /\ eng[c] = "closed" /\ eng' = [eng EXCEPT ![c] = "stopped"]
  BY DEF EngineExits, mainVars, historyVars
<1>2. eng'[c] = "stopped" /\ \A k \in Conns : k # c => eng'[k] = eng[k]
  BY <1>1 DEF IInvTypes
<1>3. \A h \in Handlers : req[h].op # "" => req[h].conn \in Conns
  BY RequestHere
<1>4. MainFits'
  BY <1>1 DEF MainFits, IInvServed
<1>5. NewFits'
  <2>1. ASSUME NEW h \in Handlers, IsAdd(h), req[h].at \in {"begin", "start", "stash"}
        PROVE  Unborn(h)'
    <3>1. Unborn(h) /\ req[h].conn \in Conns
      BY <1>3, <2>1 DEF IInvServed, NewFits, IsAdd
    <3>2. req[h].conn # c
      BY <1>1, <3>1 DEF Unborn
    <3>. QED
      BY <1>1, <1>2, <3>1, <3>2 DEF Unborn, IsDelete
  <2>2. \A k \in Conns \ saved : eng'[k] = "none"
    BY <1>1, <1>2 DEF IInvServed, NewFits
  <2>. QED
    BY <1>1, <2>1, <2>2 DEF NewFits, IsAdd
<1>6. DeletesFit'
  <2>1. ASSUME NEW h \in Handlers, IsDelete(h) PROVE Departed(h)'
    <3>1. Departed(h) /\ req[h].conn \in Conns
      BY <1>3, <2>1 DEF IInvServed, DeletesFit, IsDelete
    <3>. QED
      BY <1>1, <1>2, <3>1 DEF Departed
  <2>. QED
    BY <1>1, <2>1 DEF DeletesFit, IsDelete
<1>7. AllAttended'
  <2>1. ASSUME faults = 0, NEW k \in DOMAIN db PROVE Attended(k)'
    <3>1. Attended(k) /\ k \in Conns
      BY <2>1 DEF IInvServed, AllAttended, IInvTypes, DbFits
    <3>. QED
      BY <1>1, <1>2, <3>1 DEF Attended, Making, Removing, IsAdd, IsDelete
  <2>. QED
    BY <1>1, <2>1 DEF AllAttended
<1>. QED
  BY <1>4, <1>5, <1>6, <1>7 DEF IInvServed

\* While main loads nobody handles a request; it starts what is saved.
LEMMA ServedOfStartOne ==
    ASSUME IInvTypes, IInvServed, NEW c \in Conns, StartOne(c)
    PROVE  IInvServed'
<1>1. main = "loading" /\ c \in starting /\ c \in valid /\ c \in saved /\ c \in DOMAIN db
  BY DEF StartOne, IInvTypes, IInvServed, MainFits
<1>2. /\ UNCHANGED <<db, main, req, saved, faults>>
      /\ starting' = starting \ {c} /\ engines' = engines \cup {c}
      /\ eng' = [eng EXCEPT ![c] = "running"]
  BY <1>1 DEF StartOne, historyVars
<1>3. eng'[c] = "running" /\ \A k \in Conns : k # c => eng'[k] = eng[k]
  BY <1>2 DEF IInvTypes
<1>4. \A h \in Handlers : req[h].at \in Answers \cup {"free"}
  BY <1>1 DEF IInvServed, MainFits
<1>5. MainFits'
  BY <1>1, <1>2 DEF MainFits, IInvServed
<1>6. NewFits'
  <2>1. \A k \in Conns \ saved : eng'[k] = "none"
    BY <1>1, <1>3 DEF IInvServed, NewFits
  <2>. QED
    BY <1>2, <1>4, <2>1 DEF NewFits, Answers
<1>7. DeletesFit'
  <2>1. ASSUME NEW h \in Handlers, IsDelete(h) PROVE Departed(h)'
    <3>1. Departed(h) /\ req[h].conn \in Conns
      BY <2>1, RequestHere DEF IInvServed, DeletesFit, IsDelete
    <3>2. faults = 0 /\ req[h].at = "ok" => req[h].conn # c
      BY <1>1, <3>1 DEF Departed
    <3>. QED
      BY <1>2, <1>3, <1>4, <3>1, <3>2 DEF Departed, Answers
  <2>. QED
    BY <1>2, <2>1 DEF DeletesFit, IsDelete
<1>8. AllAttended'
  <2>1. ASSUME faults = 0, NEW k \in DOMAIN db PROVE Attended(k)'
    <3>1. Attended(k) /\ k \in Conns
      BY <2>1 DEF IInvServed, AllAttended, IInvTypes, DbFits
    <3>. QED
      BY <1>2, <1>3, <3>1 DEF Attended, Making, Removing, IsAdd, IsDelete
  <2>. QED
    BY <1>2, <2>1 DEF AllAttended
<1>. QED
  BY <1>5, <1>6, <1>7, <1>8 DEF IInvServed

LEMMA ServedOfServe == IInvTypes /\ IInvServed /\ Serve => IInvServed'
<1>. SUFFICES ASSUME IInvTypes, IInvServed, Serve PROVE IInvServed'
  OBVIOUS
<1>1. /\ UNCHANGED <<db, starting, engines, eng, req, saved, faults>>
      /\ starting = {} /\ main' = "serving"
  BY DEF Serve, engineVars, historyVars
<1>2. MainFits'
  BY <1>1 DEF MainFits, IInvServed
<1>3. NewFits'
  BY <1>1 DEF IInvServed, NewFits, Unborn, IsAdd, IsDelete
<1>4. DeletesFit'
  BY <1>1 DEF IInvServed, DeletesFit, Departed, IsDelete
<1>5. AllAttended'
  BY <1>1 DEF IInvServed, AllAttended, Attended, Making, Removing, IsAdd, IsDelete
<1>. QED
  BY <1>2, <1>3, <1>4, <1>5 DEF IInvServed

LEMMA ServedOfCrash == IInvTypes /\ IInvServed /\ Crash => IInvServed'
<1>. SUFFICES ASSUME IInvTypes, IInvServed, Crash PROVE IInvServed'
  OBVIOUS
<1>1. /\ UNCHANGED <<db, saved, faults>>
      /\ engines' = {} /\ starting' = DOMAIN db /\ main' = "loading"
      /\ eng' = [c \in Conns |-> "none"]
  BY DEF Crash
<1>2. ASSUME NEW h \in Handlers
      PROVE  /\ req'[h].op = req[h].op /\ req'[h].conn = req[h].conn
             /\ req'[h].found = req[h].found
             /\ req'[h].at \in Answers \cup {"free"}
             /\ req'[h].at = "ok" => req[h].at = "ok"
  <2>1. \/ req'[h] = req[h] /\ req[h].at \in Answers \cup {"free"}
        \/ req'[h] = [req[h] EXCEPT !.at = "lost"]
    BY DEF Crash
  <2>2. req[h] \in RequestRecord
    BY RequestHere
  <2>. QED
    BY <2>1, <2>2 DEF RequestRecord, Answers
<1>3. MainFits'
  BY <1>1, <1>2 DEF MainFits
<1>4. NewFits'
  BY <1>1, <1>2 DEF NewFits, Answers
<1>5. DeletesFit'
  <2>1. ASSUME NEW h \in Handlers, IsDelete(h)' PROVE Departed(h)'
    <3>1. Departed(h) /\ req[h].conn \in Conns
      BY <1>2, <2>1, RequestHere DEF IInvServed, DeletesFit, IsDelete
    <3>. QED
      BY <1>1, <1>2, <3>1 DEF Departed, Answers
  <2>. QED
    BY <2>1 DEF DeletesFit
<1>6. AllAttended'
  BY <1>1 DEF AllAttended, Attended
<1>. QED
  BY <1>3, <1>4, <1>5, <1>6 DEF IInvServed

LEMMA ServedNext == IInvTypes /\ IInvServed /\ [ServerNext]_serverVars => IInvServed'
<1>. SUFFICES ASSUME IInvTypes, IInvServed, [ServerNext]_serverVars PROVE IInvServed'
  OBVIOUS
<1>1. ASSUME NEW h \in Handlers, Handle(h) PROVE IInvServed'
  BY <1>1, ServedOfArrive, ServedOfArriveAdd, ServedOfAddSave, ServedOfAddStart,
     ServedOfAddStash, ServedOfLoad, ServedOfCount, ServedOfLook, ServedOfClose, ServedOfWait,
     ServedOfForget, ServedOfErase, ServedOfSendLook, ServedOfSendWrite, ServedOfSendOffer,
     ServedOfSimple
     DEF Handle
<1>2. ASSUME NEW c \in Conns, Receive(c) \/ \E id \in given[c] : Finish(c, id)
      PROVE  IInvServed'
  <2>1. UNCHANGED <<engines, eng, starting, main, req, saved>> /\ (faults' = 0 => faults = 0)
    BY <1>2 DEF Receive, Finish, mainVars, historyVars, Works, Fails, IInvTypes
  <2>2. SameBuckets(db', db)
    BY <1>2, BucketsOfReceive, BucketsOfFinish
  <2>. QED
    BY <2>1, <2>2, ServedByWorker
<1>3. ASSUME NEW c \in Conns, EngineExits(c) \/ StartOne(c) PROVE IInvServed'
  BY <1>3, ServedOfEngineExits, ServedOfStartOne
<1>4. CASE Serve \/ Crash
  BY <1>4, ServedOfServe, ServedOfCrash
<1>5. CASE UNCHANGED serverVars
  <2>1. UNCHANGED <<db, engines, eng, starting, main, req, saved, faults>>
    BY <1>5 DEF serverVars
  <2>. QED
    BY <2>1, ServedByWorker DEF SameBuckets
<1>. QED
  BY <1>1, <1>2, <1>3, <1>4, <1>5 DEF ServerNext

\* No saved connection is left without an engine that is found, whatever requests
\* meet and whenever the program restarts.
THEOREM EverySavedIsServed == ServerSpec => []SavedIsServed
<1>1. IInvTypes /\ IInvServed => SavedIsServed
  <2>. SUFFICES ASSUME IInvTypes, IInvServed PROVE SavedIsServed
    OBVIOUS
  <2>1. ASSUME main = "serving", faults = 0, NEW c \in DOMAIN db, ~InTheMiddle(c)
        PROVE  c \in engines /\ eng[c] = "running"
    <3>1. Attended(c) /\ c \notin starting
      BY <2>1 DEF IInvServed, AllAttended, MainFits
    <3>2. \A h \in Handlers : ~(Making(h, c) \/ Removing(h, c))
      BY <2>1 DEF InTheMiddle, Making, Removing, IsAdd, IsDelete, Answers
    <3>. QED
      BY <3>1, <3>2 DEF Attended
  <2>2. main # "fatal"
    BY DEF IInvTypes
  <2>. QED
    BY <2>1, <2>2 DEF SavedIsServed
<1>. QED
  BY <1>1, TypesInit, TypesNext, ServedInit, ServedNext, PTL DEF ServerSpec

\* A DELETE that was answered has removed the connection and stopped its engine.
THEOREM EveryDeletedIsGone == ServerSpec => []DeletedIsGone
<1>1. IInvServed => DeletedIsGone
  BY DEF IInvServed, DeletesFit, Departed, DeletedIsGone, At, IsDelete
<1>. QED
  BY <1>1, TypesInit, TypesNext, ServedInit, ServedNext, PTL DEF ServerSpec

-----------------------------------------------------------------------------
(* The four counts of a status leave no message out *)

\* What a request found when it came is still in the boxes of its connection.
StillThere(r, box) ==
    /\ r.incoming \subseteq box["inbox"] \cup box["handled"]
    /\ r.outgoing \subseteq box["outbox"] \cup box["sent"]

\* A count of the box messages leave: what it left out has gone where it is counted later.
FirstCounts(r, box) ==
    /\ Len(r.counts) >= 1 => r.counts[1] >= Cardinality(r.incoming \ box["handled"])
    /\ Len(r.counts) >= 2 => r.counts[2] >= Cardinality(r.outgoing \ box["sent"])

LastCounts(r) ==
    /\ Len(r.counts) >= 3 => r.counts[1] + r.counts[3] >= Cardinality(r.incoming)
    /\ Len(r.counts) >= 4 => r.counts[2] + r.counts[4] >= Cardinality(r.outgoing)
    /\ r.op = "read" /\ r.at = "ok" => Len(r.counts) = 4

CountsFit(r, d, ever) ==
    /\ r.conn \notin ever => r.incoming = {} /\ r.outgoing = {} /\ r.counts = << >>
    /\ r.conn \in DOMAIN d => StillThere(r, d[r.conn].box) /\ FirstCounts(r, d[r.conn].box)
    /\ LastCounts(r)

IInvCounts == \A h \in Handlers : CountsFit(req[h], db, saved)

\* A step of the database moves messages forwards only: into a pair of boxes,
\* and from its first box to its second.  Whole connections may go.
BoxesGrow(d, e) ==
    \A c \in DOMAIN e :
        /\ c \in DOMAIN d
        /\ d[c].box["inbox"] \cup d[c].box["handled"] \subseteq e[c].box["inbox"] \cup e[c].box["handled"]
        /\ d[c].box["outbox"] \cup d[c].box["sent"] \subseteq e[c].box["outbox"] \cup e[c].box["sent"]
        /\ d[c].box["handled"] \subseteq e[c].box["handled"]
        /\ d[c].box["sent"] \subseteq e[c].box["sent"]

\* The boxes a message is put into and taken from.
Forwards(add, del) ==
    \/ add \in {"outbox", "inbox"} /\ del = ""
    \/ add = "sent" /\ del = "outbox"
    \/ add = "handled" /\ del = "inbox"

LEMMA SavingMovesForwards ==
    \A d, m, add, del : Forwards(add, del) =>
        \A o \in SaveOutcomes(d, m, add, del) : BoxesGrow(d, o.db)
<1>. SUFFICES ASSUME NEW d, NEW m, NEW add, NEW del, Forwards(add, del),
                     NEW o \in SaveOutcomes(d, m, add, del)
              PROVE  BoxesGrow(d, o.db)
  OBVIOUS
<1>1. CASE o.db = d
  BY <1>1 DEF BoxesGrow
<1>2. CASE o.db # d
  <2>. PICK new : new = Committed(d[m.conn], m, add, del)
    OBVIOUS
  <2>1. m.conn \in DOMAIN d /\ o.db = [d EXCEPT ![m.conn] = new]
    BY <1>2 DEF SaveOutcomes, HasBucket
  <2>. PICK id : id = AssignId(d[m.conn], m).id
    OBVIOUS
  <2>2. \A b \in BoxNames :
           new.box[b] = IF b = add THEN d[m.conn].box[b] \cup {id}
                        ELSE IF b = del THEN d[m.conn].box[b] \ {id}
                        ELSE d[m.conn].box[b]
    BY DEF Committed
  <2>. PICK box : box = d[m.conn].box
    OBVIOUS
  <2>3. /\ box["inbox"] \cup box["handled"] \subseteq new.box["inbox"] \cup new.box["handled"]
        /\ box["outbox"] \cup box["sent"] \subseteq new.box["outbox"] \cup new.box["sent"]
        /\ box["handled"] \subseteq new.box["handled"]
        /\ box["sent"] \subseteq new.box["sent"]
    BY <2>2 DEF BoxNames, Forwards
  <2>4. ASSUME NEW c \in DOMAIN o.db
        PROVE  c \in DOMAIN d /\ o.db[c] = (IF c = m.conn THEN new ELSE d[c])
    BY <2>1, <2>4
  <2>. QED
    BY <2>3, <2>4 DEF BoxesGrow
<1>. QED
  BY <1>1, <1>2

LEMMA SetsOfIdsAreFinite ==
    ASSUME NEW S \in SUBSET LowIds
    PROVE  IsFiniteSet(S) /\ Cardinality(S) \in Nat
<1>1. LowIds \subseteq LowPriorityMask + 1 .. LowPriorityMask + MaxSeq
  BY MaskAssumption, ServerAssumption DEF LowIds
<1>2. IsFiniteSet(LowPriorityMask + 1 .. LowPriorityMask + MaxSeq)
  BY FS_Interval, MaskAssumption, ServerAssumption
<1>3. IsFiniteSet(S)
  BY <1>1, <1>2, FS_Subset
<1>. QED
  BY <1>3, FS_CardinalityType

LEMMA FewerIds ==
    ASSUME NEW S \in SUBSET LowIds, NEW T \in SUBSET S
    PROVE  /\ Cardinality(T) \in Nat /\ Cardinality(S) \in Nat
           /\ Cardinality(T) <= Cardinality(S)
BY SetsOfIdsAreFinite, FS_Subset

\* What two boxes hold between them covers a set: counted one by one it is no smaller.
LEMMA CountedApart ==
    ASSUME NEW S \in SUBSET LowIds, NEW T \in SUBSET LowIds
    PROVE  /\ Cardinality(S \ T) \in Nat /\ Cardinality(T) \in Nat /\ Cardinality(S) \in Nat
           /\ Cardinality(S) <= Cardinality(S \ T) + Cardinality(T)
<1>1. IsFiniteSet(S \ T) /\ IsFiniteSet(T) /\ S \ T \in SUBSET LowIds
  BY SetsOfIdsAreFinite
<1>2. Cardinality((S \ T) \cup T) = Cardinality(S \ T) + Cardinality(T) - Cardinality((S \ T) \cap T)
  BY <1>1, FS_Union
<1>3. Cardinality((S \ T) \cap T) \in Nat
  BY SetsOfIdsAreFinite
<1>4. Cardinality(S) <= Cardinality((S \ T) \cup T)
  <2>1. S \subseteq (S \ T) \cup T /\ (S \ T) \cup T \in SUBSET LowIds
    OBVIOUS
  <2>. QED
    BY <2>1, FewerIds
<1>5. Cardinality(S \ T) \in Nat /\ Cardinality(T) \in Nat /\ Cardinality(S) \in Nat
  BY <1>1, SetsOfIdsAreFinite
<1>6. Cardinality((S \ T) \cup T) \in Nat
  BY SetsOfIdsAreFinite
<1>. QED
  BY <1>2, <1>3, <1>4, <1>5, <1>6

-----------------------------------------------------------------------------
\* A request that has not counted meanwhile.
SameCounts(r, q) ==
    /\ q.conn = r.conn /\ q.counts = r.counts
    /\ q.incoming = r.incoming /\ q.outgoing = r.outgoing
    /\ q.op = "read" /\ q.at = "ok" => r.op = "read" /\ r.at = "ok"

LEMMA CountsGrow ==
    ASSUME NEW r \in RequestRecord, NEW q, SameCounts(r, q), NEW d, NEW e, NEW ever,
           CountsFit(r, d, ever), BoxesGrow(d, e)
    PROVE  CountsFit(q, e, ever)
<1>1. LastCounts(q)
  BY DEF CountsFit, LastCounts, SameCounts
<1>2. ASSUME r.conn \in DOMAIN e
      PROVE  StillThere(q, e[r.conn].box) /\ FirstCounts(q, e[r.conn].box)
  <2>. DEFINE old == d[r.conn].box  new == e[r.conn].box
  <2>1. StillThere(r, old) /\ FirstCounts(r, old)
    BY <1>2 DEF CountsFit, BoxesGrow
  <2>2. StillThere(q, new)
    BY <1>2, <2>1 DEF StillThere, SameCounts, BoxesGrow
  <2>3. /\ r.incoming \ new["handled"] \subseteq r.incoming \ old["handled"]
        /\ r.outgoing \ new["sent"] \subseteq r.outgoing \ old["sent"]
        /\ r.incoming \in SUBSET LowIds /\ r.outgoing \in SUBSET LowIds
    BY <1>2 DEF BoxesGrow, RequestRecord
  <2>4. /\ Cardinality(r.incoming \ new["handled"]) <= Cardinality(r.incoming \ old["handled"])
        /\ Cardinality(r.incoming \ new["handled"]) \in Nat
        /\ Cardinality(r.incoming \ old["handled"]) \in Nat
    <3>1. r.incoming \ old["handled"] \in SUBSET LowIds
      BY <2>3
    <3>. QED
      BY <2>3, <3>1, FewerIds
  <2>5. /\ Cardinality(r.outgoing \ new["sent"]) <= Cardinality(r.outgoing \ old["sent"])
        /\ Cardinality(r.outgoing \ new["sent"]) \in Nat
        /\ Cardinality(r.outgoing \ old["sent"]) \in Nat
    <3>1. r.outgoing \ old["sent"] \in SUBSET LowIds
      BY <2>3
    <3>. QED
      BY <2>3, <3>1, FewerIds
  <2>6. /\ r.counts \in Seq(Nat) /\ q.counts = r.counts
        /\ q.incoming = r.incoming /\ q.outgoing = r.outgoing
    BY DEF RequestRecord, SameCounts
  <2>7. FirstCounts(q, new)
    <3>1. Len(r.counts) \in Nat /\ \A i \in 1 .. Len(r.counts) : r.counts[i] \in Nat
      BY <2>6
    <3>2. Len(r.counts) >= 1 => r.counts[1] >= Cardinality(r.incoming \ new["handled"])
      BY <2>1, <2>4, <3>1 DEF FirstCounts
    <3>3. Len(r.counts) >= 2 => r.counts[2] >= Cardinality(r.outgoing \ new["sent"])
      BY <2>1, <2>5, <3>1 DEF FirstCounts
    <3>. QED
      BY <2>6, <3>2, <3>3 DEF FirstCounts
  <2>. QED
    BY <2>2, <2>7
<1>. QED
  BY <1>1, <1>2 DEF CountsFit, SameCounts

\* A step in which nobody counts.
LEMMA CountsKept ==
    ASSUME IInvTypes, IInvCounts, BoxesGrow(db, db'), UNCHANGED saved,
           \A h \in Handlers : SameCounts(req[h], req'[h])
    PROVE  IInvCounts'
<1>1. \A h \in Handlers : req[h] \in RequestRecord
  BY DEF IInvTypes, RequestsFit
<1>. QED
  BY <1>1, CountsGrow DEF IInvCounts

LEMMA SameBoxes == ASSUME NEW d PROVE BoxesGrow(d, d)
BY DEF BoxesGrow

LEMMA SameWhenItGoes ==
    ASSUME IInvTypes, NEW h \in Handlers, NEW next, Goes(h, next),
           req[h].op # "read" \/ next # "ok"
    PROVE  \A g \in Handlers : SameCounts(req[g], req'[g])
BY WhenItGoes DEF SameCounts

\* Only the step, the engine that was found and the id of the message change.
LEMMA SameWhenReplaced ==
    ASSUME IInvTypes, NEW h \in Handlers, NEW found, NEW id, NEW next,
           req' = [req EXCEPT ![h] = [req[h] EXCEPT !.found = found, !.id = id, !.at = next]],
           req[h].op # "read" \/ next # "ok"
    PROVE  \A g \in Handlers : SameCounts(req[g], req'[g])
<1>1. req \in [Handlers -> RequestRecord]
  BY DEF IInvTypes, RequestsFit
<1>2. /\ req'[h].conn = req[h].conn /\ req'[h].counts = req[h].counts
      /\ req'[h].incoming = req[h].incoming /\ req'[h].outgoing = req[h].outgoing
      /\ req'[h].op = req[h].op /\ req'[h].at = next
  BY <1>1 DEF RequestRecord
<1>3. \A g \in Handlers \ {h} : req'[g] = req[g]
  BY <1>1
<1>. QED
  BY <1>2, <1>3 DEF SameCounts

\* A new request has counted nothing; what it notes is what there is.
LEMMA CountsOfNew ==
    ASSUME IInvTypes, IInvCounts, NEW h \in Handlers, NEW r,
           req' = [req EXCEPT ![h] = r], r.at = "begin", r.counts = << >>,
           r.conn \notin DOMAIN db => r.incoming = {} /\ r.outgoing = {},
           r.conn \in DOMAIN db => StillThere(r, db[r.conn].box),
           UNCHANGED <<db, saved>>
    PROVE  IInvCounts'
<1>1. req'[h] = r /\ \A g \in Handlers \ {h} : req'[g] = req[g]
  BY DEF IInvTypes, RequestsFit
<1>2. Len(r.counts) = 0
  <2>1. Len(<< >>) = 0
    OBVIOUS
  <2>. QED
    BY <2>1, Zenon
<1>3. LastCounts(r)
  BY <1>2 DEF LastCounts
<1>4. r.conn \in DOMAIN db => FirstCounts(r, db[r.conn].box)
  BY <1>2 DEF FirstCounts
<1>5. CountsFit(r, db, saved)
  BY <1>3, <1>4 DEF CountsFit, IInvTypes
<1>. QED
  BY <1>1, <1>5 DEF IInvCounts

LEMMA CountsOfArrive ==
    ASSUME IInvTypes, IInvCounts, NEW h \in Handlers, Arrive(h)
    PROVE  IInvCounts'
<1>1. PICK op \in Ops \ {"add"}, c \in known :
          req' = [req EXCEPT ![h] =
                    [Request(op, c, "begin") EXCEPT
                        !.outgoing = BoxOf(c, "outbox") \cup BoxOf(c, "sent"),
                        !.incoming = BoxOf(c, "inbox") \cup BoxOf(c, "handled")]]
  BY DEF Arrive
<1>. PICK r : r = [Request(op, c, "begin") EXCEPT
                        !.outgoing = BoxOf(c, "outbox") \cup BoxOf(c, "sent"),
                        !.incoming = BoxOf(c, "inbox") \cup BoxOf(c, "handled")]
  OBVIOUS
<1>2. /\ r.conn = c /\ r.at = "begin" /\ r.counts = << >>
      /\ r.outgoing = BoxOf(c, "outbox") \cup BoxOf(c, "sent")
      /\ r.incoming = BoxOf(c, "inbox") \cup BoxOf(c, "handled")
  BY DEF Request
<1>3. UNCHANGED <<db, saved>>
  BY DEF Arrive, historyVars
<1>4. c \notin DOMAIN db => r.incoming = {} /\ r.outgoing = {}
  BY <1>2 DEF BoxOf, HasBucket
<1>5. c \in DOMAIN db => StillThere(r, db[c].box)
  BY <1>2 DEF BoxOf, HasBucket, BoxIds, StillThere
<1>. QED
  BY <1>1, <1>2, <1>3, <1>4, <1>5, CountsOfNew

LEMMA CountsOfArriveAdd ==
    ASSUME IInvTypes, IInvCounts, NEW h \in Handlers, ArriveAdd(h)
    PROVE  IInvCounts'
<1>1. PICK c \in Conns \ known : req' = [req EXCEPT ![h] = Request("add", c, "begin")]
  BY DEF ArriveAdd
<1>. PICK r : r = Request("add", c, "begin")
  OBVIOUS
<1>2. /\ r.conn = c /\ r.at = "begin" /\ r.counts = << >> /\ r.incoming = {} /\ r.outgoing = {}
  BY DEF Request
<1>3. UNCHANGED <<db, saved>> /\ StillThere(r, db[c].box)
  BY <1>2 DEF ArriveAdd, StillThere
<1>. QED
  BY <1>1, <1>2, <1>3, CountsOfNew

\* The buckets of a connection that never was are empty, and so is what requests noted of it.
LEMMA CountsOfAddSave ==
    ASSUME IInvTypes, IInvCounts, NEW h \in Handlers, AddSave(h)
    PROVE  IInvCounts'
<1>. PICK c : c = req[h].conn
  OBVIOUS
<1>1. PICK next \in {"start", "error"} : Goes(h, next)
  BY DEF AddSave
<1>2. req[h].op = "add" /\ req[h].at = "begin" /\ c \notin saved
  BY RequestHere DEF AddSave, At, ConnFits
<1>3. \A g \in Handlers : SameCounts(req[g], req'[g])
  BY <1>1, SameWhenItGoes
<1>4. CASE UNCHANGED <<db, saved>>
  BY <1>3, <1>4, SameBoxes, CountsKept
<1>5. CASE db' = SaveConnection(db, c) /\ saved' = saved \cup {c}
  <2>1. c \notin DOMAIN db /\ db' = Put(db, c, NewBucket)
    BY <1>2, <1>5 DEF IInvTypes, SaveConnection, HasBucket
  <2>2. ASSUME NEW g \in Handlers PROVE CountsFit(req'[g], db', saved')
    <3>1. req[g] \in RequestRecord /\ CountsFit(req'[g], db, saved)
      BY <1>3, CountsGrow, SameBoxes DEF IInvCounts, IInvTypes, RequestsFit
    <3>2. CASE req'[g].conn # c
      BY <1>5, <2>1, <3>1, <3>2 DEF CountsFit, Put
    <3>3. CASE req'[g].conn = c
      <4>1. req'[g].incoming = {} /\ req'[g].outgoing = {} /\ req'[g].counts = << >> /\ LastCounts(req'[g])
        BY <1>2, <3>1, <3>3 DEF CountsFit
      <4>2. StillThere(req'[g], db'[c].box)
        BY <4>1 DEF StillThere
      <4>3. Len(req'[g].counts) = 0
        <5>1. Len(<< >>) = 0
          OBVIOUS
        <5>. QED
          BY <4>1, <5>1, Zenon
      <4>4. FirstCounts(req'[g], db'[c].box)
        BY <4>3 DEF FirstCounts
      <4>. QED
        BY <1>5, <3>3, <4>1, <4>2, <4>4 DEF CountsFit
    <3>. QED
      BY <3>2, <3>3
  <2>. QED
    BY <2>2 DEF IInvCounts
<1>6. \/ db' = db /\ saved' = saved
      \/ db' = SaveConnection(db, c) /\ saved' = saved \cup {c}
  BY DEF AddSave
<1>. QED
  BY <1>4, <1>5, <1>6


-----------------------------------------------------------------------------
LEMMA FourBoxes ==
    \A n \in 0 .. 3 : /\ n \in Nat /\ n + 1 \in {1, 2, 3, 4}
                      /\ n < 3 \/ n = 3
                      /\ n = 2 \/ n = 3 => n >= 2
<1>1. \A n \in 0 .. 3 : n = 0 \/ n = 1 \/ n = 2 \/ n = 3
  OBVIOUS
<1>. QED
  BY <1>1

\* The n-th count, k, is of the n-th of the boxes in the order of Counted.
LEMMA OneMoreCount ==
    ASSUME NEW r \in RequestRecord, NEW q, NEW d, DbFits(d), NEW ever,
           CountsFit(r, d, ever), r.conn \in DOMAIN d, r.conn \in ever,
           NEW n \in 0 .. 3, n = Len(r.counts),
           NEW k, k = Cardinality(d[r.conn].box[Counted[n + 1]]),
           q.counts = Append(r.counts, k), q.conn = r.conn,
           q.incoming = r.incoming, q.outgoing = r.outgoing,
           q.op = "read" /\ q.at = "ok" => n = 3
    PROVE  CountsFit(q, d, ever)
<1>. DEFINE box == d[r.conn].box
<1>1. /\ box["inbox"] \in SUBSET LowIds /\ box["handled"] \in SUBSET LowIds
      /\ box["outbox"] \in SUBSET LowIds /\ box["sent"] \in SUBSET LowIds
  BY DEF DbFits, BucketFits, BoxNames
<1>2. r.incoming \in SUBSET LowIds /\ r.outgoing \in SUBSET LowIds /\ r.counts \in Seq(Nat)
  BY DEF RequestRecord
<1>3. StillThere(r, box) /\ FirstCounts(r, box) /\ LastCounts(r)
  BY DEF CountsFit
<1>4. Counted[1] = "inbox" /\ Counted[2] = "outbox" /\ Counted[3] = "handled" /\ Counted[4] = "sent"
  BY DEF Counted
<1>5. n = 0 \/ n = 1 \/ n = 2 \/ n = 3
  OBVIOUS
<1>6. k \in Nat
  <2>1. n + 1 \in {1, 2, 3, 4}
    BY FourBoxes
  <2>2. \A i \in {1, 2, 3, 4} : box[Counted[i]] \in SUBSET LowIds
    BY <1>1, <1>4
  <2>. QED
    BY <2>1, <2>2, SetsOfIdsAreFinite
<1>7. /\ Len(q.counts) = n + 1 /\ q.counts[n + 1] = k
      /\ \A i \in 1 .. n : q.counts[i] = r.counts[i] /\ r.counts[i] \in Nat
  BY SMTT(30), <1>2, <1>6, AppendProperties
<1>8. StillThere(q, box)
  BY <1>3 DEF StillThere
<1>9. FirstCounts(q, box)
  <2>1. Len(q.counts) >= 1 => q.counts[1] >= Cardinality(q.incoming \ box["handled"])
    <3>1. CASE n = 0
      <4>1. r.incoming \ box["handled"] \in SUBSET box["inbox"]
        BY <1>3 DEF StillThere
      <4>2. /\ Cardinality(r.incoming \ box["handled"]) <= Cardinality(box["inbox"])
            /\ Cardinality(r.incoming \ box["handled"]) \in Nat /\ Cardinality(box["inbox"]) \in Nat
        BY <1>1, <4>1, FewerIds
      <4>3. q.counts[1] = Cardinality(box["inbox"])
        BY <1>4, <1>7, <3>1
      <4>. QED
        BY <4>2, <4>3
    <3>2. CASE n # 0
      BY SMTT(30), <1>3, <1>5, <1>7, <3>2 DEF FirstCounts
    <3>. QED
      BY <3>1, <3>2
  <2>2. Len(q.counts) >= 2 => q.counts[2] >= Cardinality(q.outgoing \ box["sent"])
    <3>1. CASE n = 0
      BY <1>7, <3>1
    <3>2. CASE n = 1
      <4>1. r.outgoing \ box["sent"] \in SUBSET box["outbox"]
        BY <1>3 DEF StillThere
      <4>2. /\ Cardinality(r.outgoing \ box["sent"]) <= Cardinality(box["outbox"])
            /\ Cardinality(r.outgoing \ box["sent"]) \in Nat /\ Cardinality(box["outbox"]) \in Nat
        BY <1>1, <4>1, FewerIds
      <4>3. q.counts[2] = Cardinality(box["outbox"])
        BY <1>4, <1>7, <3>2
      <4>. QED
        BY <4>2, <4>3
    <3>3. CASE n = 2 \/ n = 3
      <4>1. Len(r.counts) >= 2
        BY <3>3, FourBoxes
      <4>2. r.counts[2] >= Cardinality(r.outgoing \ box["sent"])
        BY <1>3, <4>1 DEF FirstCounts
      <4>3. q.counts[2] = r.counts[2]
        BY <1>7, <3>3
      <4>. QED
        BY <4>2, <4>3
    <3>. QED
      BY <1>5, <3>1, <3>2, <3>3
  <2>. QED
    BY <2>1, <2>2 DEF FirstCounts
<1>10. LastCounts(q)
  <2>1. Len(q.counts) >= 3 => q.counts[1] + q.counts[3] >= Cardinality(q.incoming)
    <3>1. CASE n = 0 \/ n = 1
      BY <1>5, <1>7, <3>1
    <3>2. CASE n = 2
      <4>1. q.counts[1] \in Nat /\ q.counts[1] >= Cardinality(r.incoming \ box["handled"])
        BY <1>3, <1>7, <3>2 DEF FirstCounts
      <4>2. q.counts[3] = Cardinality(box["handled"])
        BY <1>4, <1>7, <3>2
      <4>3. /\ Cardinality(r.incoming \ box["handled"]) \in Nat /\ Cardinality(box["handled"]) \in Nat
            /\ Cardinality(r.incoming) \in Nat
            /\ Cardinality(r.incoming) <= Cardinality(r.incoming \ box["handled"]) + Cardinality(box["handled"])
        BY <1>1, <1>2, CountedApart
      <4>. QED
        BY <4>1, <4>2, <4>3
    <3>3. CASE n = 3
      BY <1>3, <1>7, <3>3 DEF LastCounts
    <3>. QED
      BY <1>5, <3>1, <3>2, <3>3
  <2>2. Len(q.counts) >= 4 => q.counts[2] + q.counts[4] >= Cardinality(q.outgoing)
    <3>1. CASE n = 0 \/ n = 1 \/ n = 2
      BY <1>5, <1>7, <3>1
    <3>2. CASE n = 3
      <4>1. q.counts[2] \in Nat /\ q.counts[2] >= Cardinality(r.outgoing \ box["sent"])
        BY <1>3, <1>7, <3>2 DEF FirstCounts
      <4>2. q.counts[4] = Cardinality(box["sent"])
        BY <1>4, <1>7, <3>2
      <4>3. /\ Cardinality(r.outgoing \ box["sent"]) \in Nat /\ Cardinality(box["sent"]) \in Nat
            /\ Cardinality(r.outgoing) \in Nat
            /\ Cardinality(r.outgoing) <= Cardinality(r.outgoing \ box["sent"]) + Cardinality(box["sent"])
        BY <1>1, <1>2, CountedApart
      <4>. QED
        BY <4>1, <4>2, <4>3
    <3>. QED
      BY <1>5, <3>1, <3>2
  <2>3. q.op = "read" /\ q.at = "ok" => Len(q.counts) = 4
    <3>1. n = 3 => Len(q.counts) = 4
      BY <1>7
    <3>. QED
      BY <3>1
  <2>. QED
    BY <2>1, <2>2, <2>3 DEF LastCounts
<1>. QED
  BY <1>8, <1>9, <1>10 DEF CountsFit

LEMMA CountsOfCount ==
    ASSUME IInvTypes, IInvCounts, NEW h \in Handlers, Count(h)
    PROVE  IInvCounts'
<1>5. PICK c : c = req[h].conn
  OBVIOUS
<1>6. PICK n : n = Len(req[h].counts)
  OBVIOUS
<1>1. UNCHANGED <<db, saved>>
  BY DEF Count, historyVars
<1>2. CASE ~HasBucket(db, c)
  <2>1. Goes(h, "error")
    BY <1>5, <1>2 DEF Count
  <2>. QED
    BY <1>1, <2>1, SameWhenItGoes, SameBoxes, CountsKept
<1>3. CASE HasBucket(db, c)
  <2>8. PICK k : k = Cardinality(db[c].box[Counted[n + 1]])
    OBVIOUS
  <2>9. PICK next : next = IF n < 3 THEN "count" ELSE IF req[h].op = "read" THEN "ok" ELSE "look"
    OBVIOUS
  <2>1. req' = [req EXCEPT ![h].counts = Append(@, k), ![h].at = next]
    BY <1>5, <1>6, <1>3, <2>8, <2>9 DEF Count, BoxIds
  <2>2. /\ req[h] \in RequestRecord /\ req[h].counts \in Seq(Nat) /\ Len(req[h].counts) <= 3
        /\ CountsFit(req[h], db, saved) /\ req \in [Handlers -> RequestRecord]
    BY DEF Count, IInvTypes, RequestsFit, RequestFits, IInvCounts, RequestRecord
  <2>3. n \in 0 .. 3
    <3>1. n \in Nat
      BY <1>6, <2>2, LenProperties
    <3>2. n <= 3
      BY <1>6, <2>2
    <3>. QED
      BY <3>1, <3>2
  <2>4. /\ req'[h].counts = Append(req[h].counts, k) /\ req'[h].conn = c
        /\ req'[h].incoming = req[h].incoming /\ req'[h].outgoing = req[h].outgoing
        /\ req'[h].at = next
        /\ \A g \in Handlers \ {h} : req'[g] = req[g]
    BY <1>5, <2>1, <2>2 DEF RequestRecord
  <2>5. req'[h].at = "ok" => n = 3
    <3>1. n < 3 \/ n = 3
      BY <2>3, FourBoxes
    <3>2. n < 3 => next = "count"
      BY <2>9
    <3>. QED
      BY <2>4, <3>1, <3>2
  <2>6. c \in DOMAIN db /\ c \in saved /\ DbFits(db)
    BY <1>3 DEF HasBucket, IInvTypes
  <2>7. CountsFit(req'[h], db, saved)
    BY <1>5, <1>6, <2>8, <2>2, <2>3, <2>4, <2>5, <2>6, OneMoreCount, ZenonT(30)
  <2>. QED
    BY <1>1, <2>4, <2>7 DEF IInvCounts
<1>. QED
  BY <1>2, <1>3

-----------------------------------------------------------------------------
LEMMA CountsOfErase ==
    ASSUME IInvTypes, IInvCounts, NEW h \in Handlers, Erase(h)
    PROVE  IInvCounts'
<1>1. Goes(h, "ok") /\ UNCHANGED saved /\ req[h].op = "delete"
  BY DEF Erase, At, historyVars
<1>2. BoxesGrow(db, db')
  BY DEF Erase, BoxesGrow, DeleteConnection
<1>. QED
  BY <1>1, <1>2, SameWhenItGoes, CountsKept

LEMMA CountsOfSendWrite ==
    ASSUME IInvTypes, IInvCounts, NEW h \in Handlers, SendWrite(h)
    PROVE  IInvCounts'
<1>1. PICK id, next : req' = [req EXCEPT ![h].id = id, ![h].at = next]
  BY ZenonT(30) DEF SendWrite
<1>2. /\ req'[h].conn = req[h].conn /\ req'[h].counts = req[h].counts
      /\ req'[h].incoming = req[h].incoming /\ req'[h].outgoing = req[h].outgoing
      /\ req'[h].op = req[h].op /\ \A g \in Handlers \ {h} : req'[g] = req[g]
  <2>1. req \in [Handlers -> RequestRecord]
    BY DEF IInvTypes, RequestsFit
  <2>. QED
    BY <1>1, <2>1 DEF RequestRecord
<1>3. req[h].op = "send" /\ UNCHANGED saved
  BY DEF SendWrite, At, historyVars
<1>4. \A g \in Handlers : SameCounts(req[g], req'[g])
  BY <1>2, <1>3 DEF SameCounts
<1>5. BoxesGrow(db, db')
  <2>1. PICK m, o : o \in WriteToOutbox(db, m) /\ db' = o.db
    BY DEF SendWrite
  <2>. QED
    BY <2>1, SavingMovesForwards DEF WriteToOutbox, Forwards
<1>. QED
  BY <1>3, <1>4, <1>5, CountsKept

LEMMA CountsOfHandle ==
    ASSUME IInvTypes, IInvCounts, NEW h \in Handlers, Handle(h)
    PROVE  IInvCounts'
<1>1. CASE AddStart(h) \/ AddStash(h) \/ Load(h) \/ Close(h) \/ Wait(h) \/ Forget(h)
           \/ SendOffer(h) \/ ListConnections(h) \/ ReadMessage(h)
  <2>1. PICK next : Goes(h, next) /\ (req[h].op # "read" \/ next # "ok")
    BY <1>1 DEF AddStart, AddStash, Load, Close, Wait, Forget, SendOffer,
               ListConnections, ReadMessage, At
  <2>2. UNCHANGED <<db, saved>>
    BY <1>1 DEF AddStart, AddStash, Load, Close, Wait, Forget, SendOffer,
               ListConnections, ReadMessage, historyVars
  <2>. QED
    BY <2>1, <2>2, SameWhenItGoes, SameBoxes, CountsKept
<1>2. CASE Look(h) \/ SendLook(h)
  <2>1. PICK found, next : req' = [req EXCEPT ![h].found = found, ![h].at = next]
    BY <1>2 DEF Look, SendLook
  <2>2. /\ req'[h].conn = req[h].conn /\ req'[h].counts = req[h].counts
        /\ req'[h].incoming = req[h].incoming /\ req'[h].outgoing = req[h].outgoing
        /\ req'[h].op = req[h].op /\ \A g \in Handlers \ {h} : req'[g] = req[g]
    <3>1. req \in [Handlers -> RequestRecord]
      BY DEF IInvTypes, RequestsFit
    <3>. QED
      BY <2>1, <3>1 DEF RequestRecord
  <2>3. req[h].op # "read" /\ UNCHANGED <<db, saved>>
    BY <1>2 DEF Look, SendLook, At, historyVars
  <2>4. \A g \in Handlers : SameCounts(req[g], req'[g])
    BY <2>2, <2>3 DEF SameCounts
  <2>. QED
    BY <2>3, <2>4, SameBoxes, CountsKept
<1>3. Arrive(h) \/ ArriveAdd(h) \/ AddSave(h) \/ Count(h) \/ Erase(h) \/ SendWrite(h)
      => IInvCounts'
  BY CountsOfArrive, CountsOfArriveAdd, CountsOfAddSave, CountsOfCount, CountsOfErase,
     CountsOfSendWrite
<1>. QED
  BY <1>1, <1>2, <1>3 DEF Handle

\* A step in which no request is concerned.
LEMMA CountsOfWorker ==
    ASSUME IInvTypes, IInvCounts, UNCHANGED <<req, saved>>, BoxesGrow(db, db')
    PROVE  IInvCounts'
<1>1. \A g \in Handlers : SameCounts(req[g], req'[g])
  BY DEF SameCounts
<1>. QED
  BY <1>1, CountsKept

LEMMA CountsOfCrash == IInvTypes /\ IInvCounts /\ Crash => IInvCounts'
<1>. SUFFICES ASSUME IInvTypes, IInvCounts, Crash PROVE IInvCounts'
  OBVIOUS
<1>1. ASSUME NEW g \in Handlers PROVE SameCounts(req[g], req'[g])
  <2>1. req'[g] = req[g] \/ req'[g] = [req[g] EXCEPT !.at = "lost"]
    BY DEF Crash
  <2>2. req[g] \in RequestRecord
    BY DEF IInvTypes, RequestsFit
  <2>. QED
    BY <2>1, <2>2 DEF SameCounts, RequestRecord
<1>2. UNCHANGED <<db, saved>>
  BY DEF Crash
<1>. QED
  BY <1>1, <1>2, SameBoxes, CountsKept

LEMMA CountsNext == IInvTypes /\ IInvCounts /\ [ServerNext]_serverVars => IInvCounts'
<1>. SUFFICES ASSUME IInvTypes, IInvCounts, [ServerNext]_serverVars PROVE IInvCounts'
  OBVIOUS
<1>1. ASSUME NEW h \in Handlers, Handle(h) PROVE IInvCounts'
  BY <1>1, CountsOfHandle
<1>2. ASSUME NEW c \in Conns, Receive(c) PROVE IInvCounts'
  <2>1. BoxesGrow(db, db')
    <3>1. PICK m, o : o \in WriteToInbox(db, m) /\ db' = o.db
      BY <1>2 DEF Receive
    <3>. QED
      BY <3>1, SavingMovesForwards DEF WriteToInbox, Forwards
  <2>2. UNCHANGED <<req, saved>>
    BY <1>2 DEF Receive, historyVars
  <2>. QED
    BY <2>1, <2>2, CountsOfWorker
<1>3. ASSUME NEW c \in Conns, NEW id \in given[c], Finish(c, id) PROVE IInvCounts'
  <2>1. BoxesGrow(db, db')
    BY <1>3, SavingMovesForwards DEF Finish, MarkSent, MarkHandled, Forwards
  <2>2. UNCHANGED <<req, saved>>
    BY <1>3 DEF Finish, historyVars
  <2>. QED
    BY <2>1, <2>2, CountsOfWorker
<1>4. ASSUME NEW c \in Conns, EngineExits(c) \/ StartOne(c) PROVE IInvCounts'
  <2>1. UNCHANGED <<db, req, saved>>
    BY <1>4 DEF EngineExits, StartOne, historyVars
  <2>. QED
    BY <2>1, SameBoxes, CountsOfWorker
<1>5. CASE Serve \/ UNCHANGED serverVars
  <2>1. UNCHANGED <<db, req, saved>>
    BY <1>5 DEF Serve, serverVars, historyVars
  <2>. QED
    BY <2>1, SameBoxes, CountsOfWorker
<1>6. CASE Crash
  BY <1>6, CountsOfCrash
<1>. QED
  BY <1>1, <1>2, <1>3, <1>4, <1>5, <1>6 DEF ServerNext

LEMMA CountsInit == ServerInit => IInvCounts
<1>. SUFFICES ASSUME ServerInit, NEW h \in Handlers PROVE CountsFit(req[h], db, saved)
  BY DEF IInvCounts
<1>1. /\ req[h].incoming = {} /\ req[h].outgoing = {} /\ req[h].counts = << >> /\ req[h].op = ""
      /\ DOMAIN db = {}
  <2>1. DOMAIN << >> = {}
    OBVIOUS
  <2>. QED
    BY <2>1 DEF ServerInit, NoRequest, Request
<1>2. Len(req[h].counts) = 0
  <2>1. Len(<< >>) = 0
    OBVIOUS
  <2>. QED
    BY <1>1, <2>1, Zenon
<1>3. LastCounts(req[h])
  <2>1. ~(Len(req[h].counts) >= 3) /\ ~(Len(req[h].counts) >= 4)
    BY <1>2
  <2>. QED
    BY <1>1, <2>1 DEF LastCounts
<1>. QED
  BY <1>1, <1>3 DEF CountsFit

\* The counts of a GET are of four moments, while workers move messages from box
\* to box and crashes come between: no message that was there when the request
\* came is left out of their sum (bolt.go:450-472).
THEOREM NoMessageIsLeftOut == ServerSpec => []StatusCountsEach
<1>1. IInvTypes /\ IInvCounts => StatusCountsEach
  <2>. SUFFICES ASSUME IInvTypes, IInvCounts, NEW h \in Handlers, At(h, "read", "ok")
                PROVE  /\ req[h].counts[1] + req[h].counts[3] >= Cardinality(req[h].incoming)
                       /\ req[h].counts[2] + req[h].counts[4] >= Cardinality(req[h].outgoing)
    BY DEF StatusCountsEach
  <2>. QED
    BY DEF IInvCounts, CountsFit, LastCounts, At
<1>2. ServerSpec => []IInvCounts
  <2>1. ServerSpec => [](IInvTypes /\ ServerTypeOK)
    BY ServerTypes
  <2>. QED
    BY <2>1, CountsInit, CountsNext, PTL DEF ServerSpec
<1>. QED
  BY <1>1, <1>2, ServerTypes, PTL
=============================================================================
