---------------------------- MODULE MessageProofs ----------------------------
(***************************************************************************)
(* Module Engine again, proved for every number of senders, receivers,     *)
(* requests, messages, crashes and deletions: the boxes tell of each       *)
(* message what its record says, no queued message is forgotten, high      *)
(* priority goes first until the first crash, and no message is sent or    *)
(* posted again within a run.                                              *)
(***************************************************************************)
EXTENDS EngineProofs

-----------------------------------------------------------------------------
(* What a transaction does to the boxes *)

Incoming(b) == b.box["inbox"] \cup b.box["handled"]

\* No message went both ways, and the status of each is that of its box.
BoxesTell(b) ==
    /\ Outgoing(b) \cap b.box["handled"] = {}
    /\ \A x \in BoxNames : \A id \in b.box[x] : b.msgs[id].status = BoxOfStatus[x]

\* A new message is put into a box.
NewIn(d, e, id, add) ==
    /\ Files(d, e, id, add, "") /\ id \notin Filed(d[Conn])
    /\ e[Conn].msgs[id].status = "Q"

\* A worker's message goes from a box to another.
MarkedIn(d, e, id, add, del) ==
    /\ Files(d, e, id, add, del)
    /\ e[Conn].msgs[id].status = BoxOfStatus[add]
    /\ del = "outbox" => id \in Outgoing(d[Conn])
    /\ del = "inbox" => id \in Incoming(d[Conn])

LEMMA NewTells ==
    ASSUME NEW d, NEW e, NEW id, NEW add \in {"outbox", "inbox"},
           NewIn(d, e, id, add), BoxesTell(d[Conn])
    PROVE  /\ BoxesTell(e[Conn])
           /\ Incoming(d[Conn]) \subseteq Incoming(e[Conn])
           /\ add = "inbox" => id \in Incoming(e[Conn])
<1>. PICK b : b = d[Conn]
  OBVIOUS
<1>. PICK n : n = e[Conn]
  OBVIOUS
<1>1. /\ \A x \in BoxNames : n.box[x] = IF x = add THEN b.box[x] \cup {id} ELSE b.box[x]
      /\ \A k \in Filed(b) \ {id} : n.msgs[k] = b.msgs[k]
      /\ id \notin Filed(b) /\ n.msgs[id].status = "Q"
  BY DEF NewIn, Files, BoxNames
<1>2. ASSUME NEW x \in BoxNames, NEW k \in n.box[x] PROVE n.msgs[k].status = BoxOfStatus[x]
  <2>1. CASE k = id
    <3>1. x = add
      BY <1>1, <2>1 DEF Filed, Outgoing, BoxNames
    <3>. QED
      BY <1>1, <2>1, <3>1 DEF BoxOfStatus
  <2>2. CASE k # id
    <3>1. k \in b.box[x] /\ k \in Filed(b)
      BY <1>1, <2>2 DEF Filed, Outgoing, BoxNames
    <3>. QED
      BY <1>1, <2>2, <3>1 DEF BoxesTell
  <2>. QED
    BY <2>1, <2>2
<1>3. Outgoing(n) \cap n.box["handled"] = {}
  BY <1>1 DEF BoxesTell, Outgoing, Filed, BoxNames
<1>4. Incoming(b) \subseteq Incoming(n) /\ (add = "inbox" => id \in Incoming(n))
  BY <1>1 DEF Incoming, BoxNames
<1>. QED
  BY <1>2, <1>3, <1>4 DEF BoxesTell

LEMMA MarkTells ==
    ASSUME NEW d, NEW e, NEW id, NEW add, NEW del,
           \/ add = "sent" /\ del = "outbox"
           \/ add = "handled" /\ del = "inbox",
           MarkedIn(d, e, id, add, del), BoxesFit(d[Conn]), BoxesTell(d[Conn])
    PROVE  BoxesTell(e[Conn]) /\ Incoming(d[Conn]) \subseteq Incoming(e[Conn])
<1>. PICK b : b = d[Conn]
  OBVIOUS
<1>. PICK n : n = e[Conn]
  OBVIOUS
<1>1. /\ \A x \in BoxNames : n.box[x] = IF x = add THEN b.box[x] \cup {id}
                                        ELSE IF x = del THEN b.box[x] \ {id} ELSE b.box[x]
      /\ \A k \in Filed(b) \ {id} : n.msgs[k] = b.msgs[k]
      /\ n.msgs[id].status = BoxOfStatus[add]
      /\ del = "outbox" => id \in Outgoing(b)
      /\ del = "inbox" => id \in Incoming(b)
  BY DEF MarkedIn, Files, BoxNames
<1>2. /\ b.box["outbox"] \cap b.box["sent"] = {} /\ Outgoing(b) \cap b.box["inbox"] = {}
      /\ b.box["inbox"] \cap b.box["handled"] = {} /\ Outgoing(b) \cap b.box["handled"] = {}
  BY DEF BoxesFit, BoxesTell
<1>3. ASSUME NEW x \in BoxNames, NEW k \in n.box[x] PROVE n.msgs[k].status = BoxOfStatus[x]
  <2>1. CASE k = id
    <3>1. x = add
      BY <1>1, <1>2, <2>1 DEF Outgoing, Incoming, BoxNames
    <3>. QED
      BY <1>1, <2>1, <3>1
  <2>2. CASE k # id
    <3>1. k \in b.box[x] /\ k \in Filed(b)
      BY <1>1, <2>2 DEF Filed, Outgoing, BoxNames
    <3>. QED
      BY <1>1, <2>2, <3>1 DEF BoxesTell
  <2>. QED
    BY <2>1, <2>2
<1>4. Outgoing(n) \cap n.box["handled"] = {}
  BY <1>1, <1>2 DEF Outgoing, Incoming, BoxNames
<1>5. Incoming(b) \subseteq Incoming(n)
  BY <1>1 DEF Incoming, BoxNames
<1>. QED
  BY <1>3, <1>4, <1>5 DEF BoxesTell

-----------------------------------------------------------------------------
(* The inductive invariant *)

\* Workers that have marked their message, and hold the echo they made of it.
Late == {w \in Workers : phase[w] \in {"echo", "post"}}
Posts == {held[w].id : w \in {v \in Senders : phase[v] = "post"}}

\* Who is still to send or to handle a message: a goroutine that has it in hand, or
\* main, which has read it from the box.  Others than this engine's goroutines may
\* hold messages to handle.
ToSend == HandsBut("outgoing", Late) \cup (IF mpc = "outbox" THEN backlog ELSE {})
ToHandle(others) ==
    Hands("incoming") \cup Posts \cup others \cup (IF mpc = "inbox" THEN backlog ELSE {})

\* What the boxes say, and what the receivers are given came in.
BoxesSay(d, toHandle) == BoxesTell(d[Conn]) /\ toHandle \subseteq Incoming(d[Conn])

\* What waits in a box waits for somebody.
Awaited(d, at, toSend, toHandle) ==
    /\ at # "start" => d[Conn].box["outbox"] \subseteq toSend
    /\ at \in {"inbox", "serving"} => d[Conn].box["inbox"] \subseteq toHandle

Trusted == Exists /\ faults = 0

StopFits == (done <=> deletion # "none") /\ (\A r \in Requests : rpc[r] = "missing" => done)
MarksFit == Trusted => \A w \in Workers : phase[w] = "mark" => held[w] # BlankMsg

IInvBacklog(others) ==
    /\ StopFits /\ MarksFit
    /\ Trusted => BoxesSay(db, ToHandle(others))
    /\ Trusted /\ ~done => Awaited(db, mpc, ToSend, ToHandle(others))

LEMMA BacklogStarts == EngineInit => IInvBacklog({})
<1>. SUFFICES ASSUME EngineInit PROVE IInvBacklog({})
  OBVIOUS
<1>0. IInvEngine
  BY EngineStarts
<1>1. db[Conn] = NewBucket
  <2>1. DOMAIN << >> = {}
    OBVIOUS
  <2>2. ~HasBucket(<< >>, Conn)
    BY <2>1, Zenon DEF HasBucket
  <2>3. db = Put(<< >>, Conn, NewBucket)
    BY <2>2 DEF EngineInit, SaveConnection
  <2>. QED
    BY <2>3 DEF Put
<1>2. \A x \in BoxNames : db[Conn].box[x] = {}
  BY <1>1 DEF NewBucket
<1>3. BoxesTell(db[Conn])
  BY <1>2 DEF BoxesTell, Outgoing, BoxNames
<1>4. ToHandle({}) = {}
  <2>1. chIncoming = <<>> /\ queue["incoming"] = EmptyQueue /\ \A w \in Workers : wpc[w] = "new"
    BY DEF EngineInit, Init, Directions
  <2>2. JobsBut("incoming", {}) = {}
    BY <2>1 DEF JobsBut, WorkersOf, Workers
  <2>3. QueueIds(EmptyQueue) = {}
    BY EmptyIsWellFormed
  <2>4. Elements(<<>>) = {}
    <3>1. DOMAIN <<>> = {}
      OBVIOUS
    <3>. QED
      BY <3>1, Zenon DEF Elements
  <2>5. Posts = {}
    BY DEF EngineInit, Posts, Workers
  <2>. QED
    BY <2>1, <2>2, <2>3, <2>4, <2>5 DEF ToHandle, Hands, HandsBut, OnChannel, EngineInit
<1>5. BoxesSay(db, ToHandle({})) /\ Awaited(db, mpc, ToSend, ToHandle({}))
  BY <1>2, <1>3, <1>4 DEF BoxesSay, Awaited, BoxNames
<1>6. StopFits /\ MarksFit
  BY DEF EngineInit, Init, StopFits, MarksFit
<1>. QED
  BY <1>5, <1>6 DEF IInvBacklog

\* A step that leaves the database alone and takes no message from who has it.
LEMMA BacklogStays ==
    ASSUME NEW others, NEW after, IInvEngine, IInvBacklog(others), UNCHANGED <<db, faults>>, StopFits',
           Trusted => \A w \in Workers : phase'[w] = "mark" =>
                          held'[w] # BlankMsg \/ (phase[w] = "mark" /\ held'[w] = held[w]),
           Trusted => ToHandle(after)' \subseteq ToHandle(others) \cup Box("inbox"),
           Trusted /\ ~done' => \/ mpc' = "start"
                                \/ /\ ~done /\ (mpc # "start" \/ Box("outbox") \subseteq ToSend')
                                   /\ mpc # "start" => ToSend \subseteq ToSend'
                                   /\ mpc' \in {"inbox", "serving"} =>
                                         \/ mpc \in {"inbox", "serving"} /\ ToHandle(others) \subseteq ToHandle(after)'
                                         \/ Box("inbox") \subseteq ToHandle(after)'
    PROVE  IInvBacklog(after)'
<1>1. Trusted' <=> Trusted
  BY DEF Trusted, Exists
<1>2. MarksFit'
  BY <1>1 DEF IInvBacklog, MarksFit
<1>3. Trusted => BoxesSay(db', ToHandle(after)')
  <2>. SUFFICES ASSUME Trusted PROVE BoxesSay(db', ToHandle(after)')
    OBVIOUS
  <2>1. Box("inbox") \subseteq Incoming(db[Conn])
    BY DEF Box, BoxIds, Incoming, Trusted
  <2>. QED
    BY <2>1 DEF IInvBacklog, BoxesSay
<1>4. Trusted /\ ~done' => Awaited(db', mpc', ToSend', ToHandle(after)')
  <2>. SUFFICES ASSUME Trusted, ~done' PROVE Awaited(db', mpc', ToSend', ToHandle(after)')
    OBVIOUS
  <2>1. Box("inbox") = db[Conn].box["inbox"] /\ Box("outbox") = db[Conn].box["outbox"]
    BY DEF Box, BoxIds, Trusted
  <2>2. ~done => Awaited(db, mpc, ToSend, ToHandle(others))
    BY DEF IInvBacklog
  <2>. QED
    BY <2>1, <2>2 DEF Awaited
<1>. QED
  BY <1>1, <1>2, <1>3, <1>4 DEF IInvBacklog

\* Who has a message in hand, after a step that leaves all workers' bodies alone.
LEMMA BodiesStay ==
    ASSUME NEW others, UNCHANGED <<phase, held, mpc, backlog>>,
           HandsBut("outgoing", Late)' = HandsBut("outgoing", Late),
           Hands("incoming")' = Hands("incoming")
    PROVE  ToSend' = ToSend /\ ToHandle(others)' = ToHandle(others)
BY DEF ToSend, ToHandle, Posts

LEMMA LateAreBusy == IInvEngine => \A w \in Late \cap Workers : wpc[w] = "busy"
BY DEF IInvEngine, WorkerFits, BodyFits, Late

LEMMA BacklogOfLoop ==
    ASSUME NEW others, IInvEngine, IInvBacklog(others), QuietLoopStep, done => done', StopFits',
           UNCHANGED <<db, faults, phase, held, mpc, backlog>>
    PROVE  IInvBacklog(others)'
<1>. PICK L : L = Late
  OBVIOUS
<1>0. IInvTokens /\ Late' = L /\ (\A w \in L \cap Workers : wpc[w] = "busy")
  BY LateAreBusy DEF IInvEngine, Late
<1>1. HandsBut("outgoing", L)' = HandsBut("outgoing", L)
  BY <1>0, HandsOfLoop DEF Directions
<1>2. Hands("incoming")' = Hands("incoming")
  <2>1. \A w \in {} \cap Workers : wpc[w] = "busy"
    OBVIOUS
  <2>. QED
    BY <1>0, <2>1, HandsOfLoop DEF Hands, Directions
<1>3. HandsBut("outgoing", Late)' = HandsBut("outgoing", Late)
  BY <1>0, <1>1 DEF HandsBut, JobsBut, OnChannel
<1>4. ToSend' = ToSend /\ ToHandle(others)' = ToHandle(others)
  BY <1>2, <1>3, BodiesStay
<1>. QED
  BY <1>4, BacklogStays

\* The outside does nothing to the goroutines of the engine.
LEMMA HandsUntouched ==
    ASSUME UNCHANGED <<vars, phase, held>>
    PROVE  /\ HandsBut("outgoing", Late)' = HandsBut("outgoing", Late)
           /\ Hands("incoming")' = Hands("incoming") /\ Posts' = Posts
<1>. USE DEF vars, dispatcherVars, channelVars, workerVars
<1>1. \A d \in Directions : Hands(d)' = Hands(d)
  BY HandsStay DEF Hands
<1>2. Late' = Late /\ Posts' = Posts
  BY DEF Late, Posts
<1>3. JobsBut("outgoing", Late)' = JobsBut("outgoing", Late)
  BY <1>2 DEF JobsBut, WorkersOf
<1>. QED
  BY <1>1, <1>2, <1>3 DEF HandsBut, OnChannel, Directions

LEMMA BacklogOfOutside ==
    ASSUME NEW others, IInvEngine, IInvBacklog(others),
           \/ ReadOutbox \/ ReadInbox \/ StartServer \/ ForgetEngine \/ EndDelete
           \/ \E r \in Requests : LookUp(r) \/ Respond(r)
           \/ UNCHANGED allVars
    PROVE  IInvBacklog(others)'
<1>. USE DEF mainVars, requestVars, outsideVars, countVars, bodyVars
<1>0. /\ MainFits /\ EngineTypes /\ StopFits
  BY DEF IInvEngine, IInvBacklog
<1>1. UNCHANGED <<vars, phase, held, faults, done>>
  BY DEF ReadOutbox, ReadInbox, StartServer, ForgetEngine, EndDelete, LookUp, Respond,
         allVars, engineVars, vars, stopVars
<1>2. StopFits'
  <2>1. deletion' # "none" <=> deletion # "none"
    BY DEF ReadOutbox, ReadInbox, StartServer, ForgetEngine, EndDelete, LookUp, Respond,
           allVars, engineVars
  <2>2. ASSUME NEW r \in Requests, LookUp(r) PROVE \A q \in Requests : rpc'[q] = "missing" => done
    BY <1>0, <2>2 DEF LookUp, EngineTypes, StopFits
  <2>3. ASSUME NEW r \in Requests, Respond(r) PROVE \A q \in Requests : rpc'[q] = "missing" => done
    BY <1>0, <2>3 DEF Respond, EngineTypes, StopFits
  <2>4. rpc' = rpc \/ \E r \in Requests : LookUp(r) \/ Respond(r)
    BY DEF ReadOutbox, ReadInbox, StartServer, ForgetEngine, EndDelete, allVars, engineVars
  <2>5. \A q \in Requests : rpc'[q] = "missing" => done
    BY <1>0, <2>2, <2>3, <2>4 DEF StopFits
  <2>6. done' = done /\ (done <=> deletion' # "none")
    BY <1>0, <1>1, <2>1 DEF StopFits
  <2>. QED
    BY <2>5, <2>6, Zenon DEF StopFits
<1>3. /\ HandsBut("outgoing", Late)' = HandsBut("outgoing", Late)
      /\ Hands("incoming")' = Hands("incoming") /\ Posts' = Posts
  BY <1>1, HandsUntouched
<1>4. CASE ReadOutbox
  <2>1. UNCHANGED db /\ mpc = "start" /\ mpc' = "outbox" /\ backlog' = BoxIds(db, Conn, "outbox")
    BY <1>4 DEF ReadOutbox
  <2>2. ToHandle(others)' = ToHandle(others) /\ (Trusted => Box("outbox") \subseteq ToSend')
    BY <1>3, <2>1 DEF ToHandle, ToSend, Box, Trusted
  <2>. QED
    BY <1>0, <1>1, <1>2, <2>1, <2>2, BacklogStays DEF MainFits, StopFits
<1>5. CASE ReadInbox
  <2>1. /\ UNCHANGED db /\ mpc = "outbox" /\ mpc' = "inbox" /\ backlog = {}
        /\ backlog' = BoxIds(db, Conn, "inbox")
    BY <1>5 DEF ReadInbox
  <2>2. ToSend' = ToSend
    BY <1>3, <2>1 DEF ToSend
  <2>3. Trusted => Box("inbox") \subseteq ToHandle(others)' /\ ToHandle(others)' = ToHandle(others) \cup Box("inbox")
    BY <1>3, <2>1 DEF ToHandle, Box, Trusted
  <2>. QED
    BY <1>1, <1>2, <2>1, <2>2, <2>3, BacklogStays
<1>6. CASE StartServer
  <2>1. UNCHANGED <<db, backlog>> /\ mpc = "inbox" /\ mpc' = "serving" /\ backlog = {}
    BY <1>6 DEF StartServer
  <2>2. ToSend' = ToSend /\ ToHandle(others)' = ToHandle(others)
    BY <1>3, <2>1 DEF ToSend, ToHandle
  <2>. QED
    BY <1>1, <1>2, <2>1, <2>2, BacklogStays
<1>7. CASE ForgetEngine \/ UNCHANGED allVars \/ \E r \in Requests : LookUp(r) \/ Respond(r)
  <2>1. UNCHANGED <<db, backlog, mpc>>
    BY <1>7 DEF ForgetEngine, LookUp, Respond, allVars, engineVars
  <2>2. ToSend' = ToSend /\ ToHandle(others)' = ToHandle(others)
    BY <1>3, <2>1 DEF ToSend, ToHandle
  <2>. QED
    BY <1>1, <1>2, <2>1, <2>2, BacklogStays
<1>8. CASE EndDelete
  <2>1. db' = DeleteConnection(db, Conn)
    BY <1>8 DEF EndDelete
  <2>2. ~Trusted'
    BY <2>1 DEF DeleteConnection, Trusted, Exists, HasBucket
  <2>. QED
    BY <1>2, <2>2 DEF IInvBacklog, MarksFit
<1>. QED
  BY <1>4, <1>5, <1>6, <1>7, <1>8

-----------------------------------------------------------------------------
(* The bodies of the workers' loops *)

LEMMA FiledIsLoaded ==
    ASSUME NEW d, DbFits(d), HasBucket(d, Conn), NEW j \in Filed(d[Conn])
    PROVE  MsgFromId(d, Conn, j) # BlankMsg
<1>1. BucketFits(d[Conn])
  BY DEF DbFits
<1>2. j \in DOMAIN d[Conn].msgs /\ d[Conn].msgs[j].id = j /\ 0 \notin Drawn(d[Conn].seq)
  BY <1>1, DrawnAreIds DEF BucketFits, MessagesFit
<1>3. j # 0
  BY <1>1, <1>2 DEF BucketFits, BoxesFit, Filed, Outgoing, BoxNames
<1>4. MsgFromId(d, Conn, j).id = j
  BY <1>2 DEF MsgFromId
<1>5. BlankMsg.id = 0
  BY DEF BlankMsg
<1>. QED
  BY <1>3, <1>4, <1>5

LEMMA IncomingIsFiled == \A b : Incoming(b) \subseteq Filed(b) /\ Outgoing(b) \subseteq Filed(b)
BY DEF Incoming, Filed

LEMMA BacklogOfLoad ==
    ASSUME NEW others, IInvEngine, IInvBacklog(others), NEW w \in Workers,
           \/ w \in Senders /\ EchoSend(w)
           \/ w \in Receivers /\ HttpForward(w)
    PROVE  IInvBacklog(others)'
<1>. USE DEF mainVars, requestVars, outsideVars, countVars
<1>0. /\ EngineTypes /\ DbFits(db) /\ HandsFit /\ StopFits /\ MarksFit
      /\ Trusted => ToHandle(others) \subseteq Incoming(db[Conn])
  BY DEF IInvEngine, IInvBacklog, BoxesSay
<1>1. /\ wpc[w] = "busy" /\ phase[w] = "load" /\ phase' = [phase EXCEPT ![w] = "mark"]
      /\ held' = [held EXCEPT ![w] = MsgFromId(db, Conn, job[w])]
      /\ UNCHANGED <<vars, db, faults, mpc, backlog, rpc, rid, deletion, crashes>>
  BY DEF EchoSend, HttpForward
<1>2. Trusted => MsgFromId(db, Conn, job[w]) # BlankMsg
  <2>. SUFFICES ASSUME Trusted PROVE MsgFromId(db, Conn, job[w]) # BlankMsg
    OBVIOUS
  <2>1. CASE w \in Senders
    <3>1. job[w] \in Outgoing(db[Conn])
      BY <1>0, <1>1, <2>1, JobIsInHand DEF HandsFit, OnTheWay, Trusted
    <3>. QED
      BY <1>0, <3>1, IncomingIsFiled, FiledIsLoaded DEF Trusted, Exists
  <2>2. CASE w \in Receivers
    <3>1. job[w] \in Hands("incoming")
      BY <1>1, <2>2 DEF Hands, HandsBut, JobsBut, WorkersOf
    <3>2. job[w] \in Incoming(db[Conn])
      BY <1>0, <3>1 DEF ToHandle
    <3>. QED
      BY <1>0, <3>2, IncomingIsFiled, FiledIsLoaded DEF Trusted, Exists
  <2>. QED
    BY <2>1, <2>2
<1>3. /\ \A v \in Workers \ {w} : phase'[v] = phase[v] /\ held'[v] = held[v]
      /\ phase'[w] = "mark" /\ held'[w] = MsgFromId(db, Conn, job[w])
      /\ Senders \subseteq Workers
  BY <1>0, <1>1 DEF EngineTypes, Workers
<1>4. Late' = Late /\ Posts' = Posts
  <2>1. \A v \in Workers : phase'[v] \in {"echo", "post"} <=> phase[v] \in {"echo", "post"}
    BY <1>1, <1>3
  <2>2. {v \in Senders : phase'[v] = "post"} = {v \in Senders : phase[v] = "post"}
    BY <1>1, <1>3
  <2>3. \A v \in Senders : phase[v] = "post" => held'[v] = held[v]
    BY <1>1, <1>3
  <2>. QED
    BY <2>1, <2>2, <2>3 DEF Late, Posts
<1>5. ToSend' = ToSend /\ ToHandle(others)' = ToHandle(others)
  <2>1. UNCHANGED <<offered, chIncoming, queue, wpc, job>>
    BY <1>1 DEF vars, dispatcherVars, channelVars, workerVars
  <2>2. \A d \in Directions : Hands(d)' = Hands(d)
    BY <2>1, HandsStay DEF Hands
  <2>3. HandsBut("outgoing", Late)' = HandsBut("outgoing", Late)
    BY <1>4, <2>1 DEF HandsBut, JobsBut, OnChannel, WorkersOf
  <2>. QED
    BY <1>1, <1>4, <2>2, <2>3 DEF ToSend, ToHandle, Directions
<1>6. UNCHANGED <<db, faults, done, mpc>> /\ StopFits'
  BY <1>0, <1>1 DEF StopFits, vars, stopVars
<1>7. Trusted => \A v \in Workers : phase'[v] = "mark" =>
                          held'[v] # BlankMsg \/ (phase[v] = "mark" /\ held'[v] = held[v])
  BY <1>2, <1>3
<1>. QED
  BY <1>5, <1>6, <1>7, BacklogStays

\* Nothing failed, and the connection is still there.
LEMMA TrustBefore ==
    ASSUME EngineTypes, NEW o, Transact(o), SameBuckets(db, db'), Trusted'
    PROVE  Trusted /\ ~o.fault
<1>1. faults \in Nat /\ faults' = 0
  <2>1. MaxFaults \in Nat
    BY EngineAssumption
  <2>. QED
    BY <2>1 DEF EngineTypes, Trusted
<1>2. ~o.fault
  <2>. SUFFICES ASSUME o.fault PROVE FALSE
    OBVIOUS
  <2>1. faults' = faults + 1
    BY DEF Transact
  <2>. QED
    BY <1>1, <2>1
<1>3. faults = 0
  <2>1. faults' = faults + 0
    BY <1>2 DEF Transact
  <2>. QED
    BY <1>1, <2>1
<1>. QED
  BY <1>2, <1>3 DEF Trusted, Exists, SameBuckets

LEMMA ErrorsAreFaults ==
    \A d, m, add, del : \A o \in SaveOutcomes(d, m, add, del) :
        o.err /\ HasBucket(d, m.conn) => o.fault
BY DEF SaveOutcomes

LEMMA BacklogOfEchoMark ==
    ASSUME NEW others, IInvEngine, IInvBacklog(others), NEW w \in Senders, EchoMark(w)
    PROVE  IInvBacklog(others)'
<1>. USE DEF mainVars, requestVars, outsideVars, countVars
<1>0. /\ EngineTypes /\ DbFits(db) /\ HandsFit /\ StopFits /\ MarksFit /\ w \in Workers
      /\ BodyFits(w, wpc[w], phase[w], held[w], job[w], db)
      /\ Trusted => BoxesSay(db, ToHandle(others))
      /\ Trusted /\ ~done => Awaited(db, mpc, ToSend, ToHandle(others))
  BY DEF IInvEngine, IInvBacklog, Workers, WorkerFits
<1>1. /\ wpc[w] = "busy" /\ phase[w] = "mark" /\ phase' = [phase EXCEPT ![w] = "echo"]
      /\ UNCHANGED <<vars, held, mpc, backlog, rpc, rid, deletion, crashes>>
  BY DEF EchoMark
<1>2. PICK o \in SaveOutcomes(db, [held[w] EXCEPT !.status = "S"], "sent", "outbox") : Transact(o)
  BY DEF EchoMark, MarkSent
<1>3. /\ SameBuckets(db, o.db) /\ db' = o.db
      /\ held[w] # BlankMsg => Marked(db, o, held[w], "S", "sent", "outbox")
  <2>1. StepFits(db, o.db) /\ (held[w] # BlankMsg => Marked(db, o, held[w], "S", "sent", "outbox"))
    BY <1>0, <1>1, <1>2, MarkOfHeld DEF Statuses
  <2>. QED
    BY <1>2, <2>1 DEF StepFits, Transact
<1>4. /\ phase'[w] = "echo" /\ \A v \in Workers \ {w} : phase'[v] = phase[v]
      /\ UNCHANGED <<offered, chIncoming, queue, wpc, job, done>> /\ Senders \subseteq Workers
  BY <1>0, <1>1 DEF EngineTypes, vars, dispatcherVars, channelVars, workerVars, stopVars, Workers
<1>5. Late' = Late \cup {w} /\ Posts' = Posts
  <2>1. {v \in Senders : phase'[v] = "post"} = {v \in Senders : phase[v] = "post"}
    BY <1>1, <1>4
  <2>2. held' = held
    BY <1>1
  <2>3. \A v \in Workers : phase'[v] \in {"echo", "post"} <=> phase[v] \in {"echo", "post"} \/ v = w
    BY <1>4
  <2>. QED
    BY <1>0, <2>1, <2>2, <2>3 DEF Late, Posts
<1>6. ToHandle(others)' = ToHandle(others)
  <2>1. \A d \in Directions : Hands(d)' = Hands(d)
    BY <1>4, HandsStay DEF Hands
  <2>. QED
    BY <1>1, <1>5, <2>1 DEF ToHandle, Directions
<1>7. ToSend \subseteq ToSend' \cup {job[w]}
  <2>1. JobsBut("outgoing", Late) \subseteq JobsBut("outgoing", Late)' \cup {job[w]}
    BY <1>4, <1>5 DEF JobsBut, WorkersOf
  <2>2. HandsBut("outgoing", Late) \subseteq HandsBut("outgoing", Late)' \cup {job[w]}
    BY <1>4, <2>1 DEF HandsBut, OnChannel
  <2>. QED
    BY <1>1, <2>2 DEF ToSend
<1>8. StopFits' /\ MarksFit'
  <2>1. Trusted' => Trusted
    BY <1>0, <1>2, <1>3, TrustBefore
  <2>2. \A v \in Workers : phase'[v] = "mark" => phase[v] = "mark" /\ held'[v] = held[v]
    BY <1>1, <1>4
  <2>3. MarksFit'
    BY <1>0, <2>1, <2>2 DEF MarksFit
  <2>. QED
    BY <1>0, <1>1, <1>4, <2>3 DEF StopFits
<1>9. ASSUME Trusted' PROVE BoxesSay(db', ToHandle(others)') /\ (~done' => Awaited(db', mpc', ToSend', ToHandle(others)'))
  <2>1. Trusted /\ ~o.fault
    BY <1>0, <1>2, <1>3, <1>9, TrustBefore
  <2>2. held[w] # BlankMsg /\ Loaded(held[w], db) /\ held[w].id = job[w]
    BY <1>0, <1>1, <2>1 DEF MarksFit, BodyFits
  <2>3. Files(db, db', job[w], "sent", "outbox") /\ db'[Conn].msgs[job[w]].status = "S"
    BY <1>3, <2>1, <2>2 DEF Marked, Trusted, Exists
  <2>4. job[w] \in Outgoing(db[Conn])
    BY <1>0, <1>1, <2>1, JobIsInHand DEF HandsFit, OnTheWay, Trusted
  <2>5. MarkedIn(db, db', job[w], "sent", "outbox")
    BY <2>3, <2>4 DEF MarkedIn, BoxOfStatus
  <2>6. BoxesFit(db[Conn]) /\ BoxesSay(db, ToHandle(others))
    BY <1>0, <2>1 DEF DbFits, BucketFits, Trusted, Exists
  <2>7. BoxesSay(db', ToHandle(others)')
    BY <1>6, <2>5, <2>6, MarkTells DEF BoxesSay
  <2>8. /\ db'[Conn].box["outbox"] = db[Conn].box["outbox"] \ {job[w]}
        /\ db'[Conn].box["inbox"] = db[Conn].box["inbox"]
    BY <2>3 DEF Files, BoxNames
  <2>9. ~done' => Awaited(db', mpc', ToSend', ToHandle(others)')
    BY <1>0, <1>1, <1>4, <1>6, <1>7, <2>1, <2>8 DEF Awaited
  <2>. QED
    BY <2>7, <2>9
<1>. QED
  BY <1>8, <1>9 DEF IInvBacklog

LEMMA BacklogOfEchoWrite ==
    ASSUME NEW others, IInvEngine, IInvBacklog(others), NEW w \in Senders, EchoWrite(w)
    PROVE  IInvBacklog(others)'
<1>. USE DEF mainVars, requestVars, outsideVars, countVars
<1>0. /\ EngineTypes /\ DbFits(db) /\ StopFits /\ MarksFit /\ w \in Workers
      /\ Trusted => BoxesSay(db, ToHandle(others))
      /\ Trusted /\ ~done => Awaited(db, mpc, ToSend, ToHandle(others))
  BY DEF IInvEngine, IInvBacklog, Workers
<1>1. /\ wpc[w] = "busy" /\ phase[w] = "echo" /\ phase' = [phase EXCEPT ![w] = "post"]
      /\ UNCHANGED <<vars, mpc, backlog, rpc, rid, deletion, crashes>>
  BY DEF EchoWrite
<1>2. PICK text \in Texts : \E o \in SaveOutcomes(db, NewMsg(Conn, text, "L"), "inbox", "") :
          Transact(o) /\ Written(db, o, text, "L", "inbox") /\ held' = [held EXCEPT ![w] = o.msg]
  BY EchoOutcome
<1>3. PICK o \in SaveOutcomes(db, NewMsg(Conn, text, "L"), "inbox", "") :
          Transact(o) /\ Written(db, o, text, "L", "inbox") /\ held' = [held EXCEPT ![w] = o.msg]
  BY <1>2
<1>4. SameBuckets(db, db') /\ db' = o.db
  BY <1>3 DEF Written, StepFits, Transact
<1>5. /\ phase'[w] = "post" /\ held'[w] = o.msg
      /\ \A v \in Workers \ {w} : phase'[v] = phase[v] /\ held'[v] = held[v]
      /\ UNCHANGED <<offered, chIncoming, queue, wpc, job, done>> /\ Senders \subseteq Workers
  BY <1>0, <1>1, <1>3 DEF EngineTypes, vars, dispatcherVars, channelVars, workerVars, stopVars, Workers
<1>6. Late' = Late /\ Posts' = Posts \cup {o.msg.id}
  <2>1. \A v \in Workers : phase'[v] \in {"echo", "post"} <=> phase[v] \in {"echo", "post"}
    BY <1>1, <1>5
  <2>2. \A x : x \in Posts' <=> \E v \in Senders : phase'[v] = "post" /\ held'[v].id = x
    BY DEF Posts
  <2>3. \A x : x \in Posts <=> \E v \in Senders : phase[v] = "post" /\ held[v].id = x
    BY DEF Posts
  <2>4. Posts' \subseteq Posts \cup {o.msg.id} /\ o.msg.id \in Posts'
    BY <1>5, <2>2, <2>3, ZenonT(30)
  <2>5. Posts \subseteq Posts'
    <3>1. \A v \in Senders : phase[v] = "post" => phase'[v] = "post" /\ held'[v] = held[v]
      BY <1>1, <1>5
    <3>. QED
      BY <2>2, <2>3, <3>1
  <2>. QED
    BY <2>1, <2>4, <2>5 DEF Late
<1>7. ToSend' = ToSend /\ ToHandle(others)' = ToHandle(others) \cup {o.msg.id}
  <2>1. \A d \in Directions : Hands(d)' = Hands(d)
    BY <1>5, HandsStay DEF Hands
  <2>2. HandsBut("outgoing", Late)' = HandsBut("outgoing", Late)
    BY <1>5, <1>6 DEF HandsBut, JobsBut, OnChannel, WorkersOf
  <2>. QED
    BY <1>1, <1>6, <2>1, <2>2 DEF ToSend, ToHandle, Directions
<1>8. StopFits' /\ MarksFit'
  <2>1. Trusted' => Trusted
    BY <1>0, <1>3, <1>4, TrustBefore
  <2>2. \A v \in Workers : phase'[v] = "mark" => phase[v] = "mark" /\ held'[v] = held[v]
    BY <1>5
  <2>3. MarksFit'
    BY <1>0, <2>1, <2>2 DEF MarksFit
  <2>. QED
    BY <1>0, <1>1, <1>5, <2>3 DEF StopFits
<1>9. ASSUME Trusted' PROVE BoxesSay(db', ToHandle(others)') /\ (~done' => Awaited(db', mpc', ToSend', ToHandle(others)'))
  <2>1. Trusted /\ ~o.fault
    BY <1>0, <1>3, <1>4, <1>9, TrustBefore
  <2>2. ~o.err
    <3>1. NewMsg(Conn, text, "L").conn = Conn
      BY DEF NewMsg
    <3>. QED
      BY <1>3, <2>1, <3>1, ErrorsAreFaults DEF Trusted, Exists
  <2>3. NewIn(db, db', o.msg.id, "inbox")
    BY <1>3, <1>4, <2>2 DEF Written, NewIn
  <2>4. BoxesSay(db, ToHandle(others))
    BY <1>0, <2>1
  <2>5. BoxesSay(db', ToHandle(others)')
    BY <1>7, <2>3, <2>4, NewTells DEF BoxesSay
  <2>6. /\ db'[Conn].box["outbox"] = db[Conn].box["outbox"]
        /\ db'[Conn].box["inbox"] = db[Conn].box["inbox"] \cup {o.msg.id}
    BY <2>3 DEF NewIn, Files, BoxNames
  <2>7. ~done' => Awaited(db', mpc', ToSend', ToHandle(others)')
    BY <1>0, <1>1, <1>5, <1>7, <2>1, <2>6 DEF Awaited
  <2>. QED
    BY <2>5, <2>7
<1>. QED
  BY <1>8, <1>9 DEF IInvBacklog

LEMMA BacklogOfEchoPost ==
    ASSUME NEW others, IInvEngine, IInvBacklog(others), NEW w \in Senders, EchoPost(w)
    PROVE  IInvBacklog(others)'
<1>. USE DEF mainVars, requestVars, outsideVars, countVars
<1>0. /\ EngineTypes /\ StopFits /\ w \in Workers /\ chIncoming \in Seq(Id)
      /\ wpc \in [Workers -> {"new", "announce", "idle", "busy", "exited"}]
      /\ job \in [Workers -> Id \cup {NoJob}]
      /\ BodyFits(w, wpc[w], phase[w], held[w], job[w], db)
      /\ Senders \subseteq Workers /\ \A v \in Receivers : v \in Workers /\ v # w
  BY WorkersAssumption
  DEF IInvEngine, IInvTokens, IInvTypes, TypeOK, IInvBacklog, Workers, WorkerFits
<1>1. /\ phase[w] = "post" /\ SendIncoming(held[w].id) /\ FinishJob("outgoing", w)
      /\ phase' = [phase EXCEPT ![w] = "load"] /\ held' = [held EXCEPT ![w] = BlankMsg]
      /\ UNCHANGED <<dispatcherVars, ready, offered, stopVars, db, faults, mpc, backlog,
                     rpc, rid, deletion, crashes>>
  BY DEF EchoPost
<1>2. held[w].id \in Id
  <2>1. held[w].id \in MsgIds \cup {0}
    BY <1>0, <1>1 DEF BodyFits, HeldMsg
  <2>2. 0 \in Id
    BY DEF Id
  <2>. QED
    BY <2>1, <2>2, IdsAreNumbers
<1>3. /\ phase'[w] = "load" /\ wpc'[w] = "announce" /\ wpc[w] = "busy"
      /\ \A v \in Workers \ {w} : /\ phase'[v] = phase[v] /\ held'[v] = held[v]
                                  /\ wpc'[v] = wpc[v] /\ job'[v] = job[v]
      /\ UNCHANGED <<offered, queue, done>>
  BY <1>0, <1>1 DEF EngineTypes, FinishJob, dispatcherVars, stopVars
<1>4. Elements(chIncoming') = Elements(chIncoming) \cup {held[w].id}
  <2>1. chIncoming' = Append(chIncoming, held[w].id)
    BY <1>1 DEF SendIncoming
  <2>. QED
    BY <1>0, <1>2, <2>1, ElementsOfAppend
<1>5. Posts = Posts' \cup {held[w].id}
  <2>1. \A x : x \in Posts' <=> \E v \in Senders : phase'[v] = "post" /\ held'[v].id = x
    BY DEF Posts
  <2>2. \A x : x \in Posts <=> \E v \in Senders : phase[v] = "post" /\ held[v].id = x
    BY DEF Posts
  <2>3. \A v \in Senders : phase'[v] = "post" <=> phase[v] = "post" /\ v # w
    BY <1>0, <1>3
  <2>4. \A v \in Senders : v # w => held'[v] = held[v]
    BY <1>0, <1>3
  <2>. QED
    BY <1>1, <2>1, <2>2, <2>3, <2>4
<1>6. JobsBut("incoming", {})' = JobsBut("incoming", {})
  <2>1. \A v \in Receivers : wpc'[v] = wpc[v] /\ job'[v] = job[v]
    BY <1>0, <1>3
  <2>2. WorkersOf("incoming") = Receivers
    BY DEF WorkersOf
  <2>. QED
    BY <2>1, <2>2 DEF JobsBut
<1>7. ToHandle(others)' = ToHandle(others)
  <2>1. Hands("incoming")' = Hands("incoming") \cup {held[w].id}
    BY <1>3, <1>4, <1>6 DEF Hands, HandsBut, OnChannel
  <2>. QED
    BY <1>1, <1>5, <2>1 DEF ToHandle
<1>8. ToSend' = ToSend
  <2>1. \A v \in Senders \ {w} : v \in Late' <=> v \in Late
    BY <1>0, <1>3 DEF Late
  <2>2. w \in Late
    BY <1>0, <1>1 DEF Late
  <2>3. {v \in Senders \ Late' : wpc'[v] = "busy"} = {v \in Senders \ Late : wpc[v] = "busy"}
    BY <1>0, <1>3, <2>1, <2>2
  <2>4. \A v \in Senders \ Late : job'[v] = job[v]
    BY <1>0, <1>3, <2>2
  <2>5. JobsBut("outgoing", Late)' = JobsBut("outgoing", Late)
    BY <2>3, <2>4 DEF JobsBut, WorkersOf
  <2>. QED
    BY <1>1, <1>3, <2>5 DEF ToSend, HandsBut, OnChannel
<1>9. StopFits'
  BY <1>0, <1>1, <1>3 DEF StopFits
<1>10. \A v \in Workers : phase'[v] = "mark" => phase[v] = "mark" /\ held'[v] = held[v]
  BY <1>3
<1>11. UNCHANGED <<db, faults, mpc>>
  BY <1>1
<1>. QED
  BY <1>3, <1>7, <1>8, <1>9, <1>10, <1>11, BacklogStays

LEMMA BacklogOfHttpMark ==
    ASSUME NEW others, IInvEngine, IInvBacklog(others), NEW w \in Receivers, HttpMark(w)
    PROVE  IInvBacklog(others)'
<1>. USE DEF mainVars, requestVars, outsideVars, countVars
<1>0. /\ EngineTypes /\ DbFits(db) /\ StopFits /\ MarksFit /\ w \in Workers
      /\ wpc \in [Workers -> {"new", "announce", "idle", "busy", "exited"}]
      /\ job \in [Workers -> Id \cup {NoJob}]
      /\ BodyFits(w, wpc[w], phase[w], held[w], job[w], db)
      /\ Trusted => BoxesSay(db, ToHandle(others))
      /\ Trusted /\ ~done => Awaited(db, mpc, ToSend, ToHandle(others))
      /\ Receivers \subseteq Workers /\ \A v \in Senders : v \in Workers /\ v # w
  BY WorkersAssumption
  DEF IInvEngine, IInvTokens, IInvTypes, TypeOK, IInvBacklog, Workers, WorkerFits
<1>1. /\ phase[w] = "mark" /\ FinishJob("incoming", w)
      /\ phase' = [phase EXCEPT ![w] = "load"] /\ held' = [held EXCEPT ![w] = BlankMsg]
      /\ UNCHANGED <<dispatcherVars, channelVars, stopVars, mpc, backlog, rpc, rid, deletion, crashes>>
  BY DEF HttpMark
<1>2. PICK o \in SaveOutcomes(db, [held[w] EXCEPT !.status = "H"], "handled", "inbox") : Transact(o)
  BY DEF HttpMark, MarkHandled
<1>3. /\ SameBuckets(db, o.db) /\ db' = o.db
      /\ held[w] # BlankMsg => Marked(db, o, held[w], "H", "handled", "inbox")
  <2>1. StepFits(db, o.db) /\ (held[w] # BlankMsg => Marked(db, o, held[w], "H", "handled", "inbox"))
    BY <1>0, <1>1, <1>2, MarkOfHeld DEF Statuses
  <2>. QED
    BY <1>2, <2>1 DEF StepFits, Transact
<1>4. /\ phase'[w] = "load" /\ wpc'[w] = "announce" /\ wpc[w] = "busy"
      /\ \A v \in Workers \ {w} : /\ phase'[v] = phase[v] /\ held'[v] = held[v]
                                  /\ wpc'[v] = wpc[v] /\ job'[v] = job[v]
      /\ UNCHANGED <<offered, chIncoming, queue, done>>
  BY <1>0, <1>1 DEF EngineTypes, FinishJob, dispatcherVars, channelVars, stopVars
<1>5. Posts' = Posts
  <2>1. {v \in Senders : phase'[v] = "post"} = {v \in Senders : phase[v] = "post"}
    BY <1>0, <1>4
  <2>2. \A v \in Senders : held'[v] = held[v]
    BY <1>0, <1>4
  <2>. QED
    BY <2>1, <2>2 DEF Posts
<1>6. ToSend' = ToSend
  <2>1. \A v \in Senders : v \in Late' <=> v \in Late
    BY <1>0, <1>4 DEF Late
  <2>2. {v \in Senders \ Late' : wpc'[v] = "busy"} = {v \in Senders \ Late : wpc[v] = "busy"}
    BY <1>0, <1>4, <2>1
  <2>3. \A v \in Senders : job'[v] = job[v]
    BY <1>0, <1>4
  <2>4. JobsBut("outgoing", Late)' = JobsBut("outgoing", Late)
    BY <2>2, <2>3 DEF JobsBut, WorkersOf
  <2>. QED
    BY <1>1, <1>4, <2>4 DEF ToSend, HandsBut, OnChannel
<1>7. ToHandle(others)' \subseteq ToHandle(others) /\ ToHandle(others) \subseteq ToHandle(others)' \cup {job[w]}
  <2>1. \A v \in Receivers : wpc'[v] = "busy" <=> wpc[v] = "busy" /\ v # w
    BY <1>0, <1>4
  <2>2. \A v \in Receivers : v # w => job'[v] = job[v]
    BY <1>0, <1>4
  <2>3. \A x : x \in JobsBut("incoming", {})' <=> \E v \in Receivers : wpc'[v] = "busy" /\ job'[v] = x
    BY DEF JobsBut, WorkersOf
  <2>4. \A x : x \in JobsBut("incoming", {}) <=> \E v \in Receivers : wpc[v] = "busy" /\ job[v] = x
    BY DEF JobsBut, WorkersOf
  <2>5. /\ JobsBut("incoming", {})' \subseteq JobsBut("incoming", {})
        /\ JobsBut("incoming", {}) \subseteq JobsBut("incoming", {})' \cup {job[w]}
    BY <2>1, <2>2, <2>3, <2>4
  <2>6. /\ Hands("incoming")' \subseteq Hands("incoming")
        /\ Hands("incoming") \subseteq Hands("incoming")' \cup {job[w]}
    BY <1>4, <2>5 DEF Hands, HandsBut, OnChannel
  <2>. QED
    BY <1>1, <1>5, <2>6 DEF ToHandle
<1>8. StopFits' /\ MarksFit'
  <2>1. Trusted' => Trusted
    BY <1>0, <1>2, <1>3, TrustBefore
  <2>2. \A v \in Workers : phase'[v] = "mark" => phase[v] = "mark" /\ held'[v] = held[v]
    BY <1>4
  <2>3. MarksFit'
    BY <1>0, <2>1, <2>2 DEF MarksFit
  <2>. QED
    BY <1>0, <1>1, <1>4, <2>3 DEF StopFits
<1>9. ASSUME Trusted' PROVE BoxesSay(db', ToHandle(others)') /\ (~done' => Awaited(db', mpc', ToSend', ToHandle(others)'))
  <2>1. Trusted /\ ~o.fault
    BY <1>0, <1>2, <1>3, <1>9, TrustBefore
  <2>2. held[w] # BlankMsg /\ Loaded(held[w], db) /\ held[w].id = job[w]
    BY <1>0, <1>1, <2>1 DEF MarksFit, BodyFits
  <2>3. Files(db, db', job[w], "handled", "inbox") /\ db'[Conn].msgs[job[w]].status = "H"
    BY <1>3, <2>1, <2>2 DEF Marked, Trusted, Exists
  <2>4. job[w] \in Incoming(db[Conn])
    <3>1. job[w] \in ToHandle(others)
      BY <1>4 DEF ToHandle, Hands, HandsBut, JobsBut, WorkersOf
    <3>. QED
      BY <1>0, <2>1, <3>1 DEF BoxesSay
  <2>5. MarkedIn(db, db', job[w], "handled", "inbox")
    BY <2>3, <2>4 DEF MarkedIn, BoxOfStatus
  <2>6. BoxesFit(db[Conn]) /\ BoxesSay(db, ToHandle(others))
    BY <1>0, <2>1 DEF DbFits, BucketFits, Trusted, Exists
  <2>7. BoxesSay(db', ToHandle(others)')
    BY <1>7, <2>5, <2>6, MarkTells DEF BoxesSay
  <2>8. /\ db'[Conn].box["outbox"] = db[Conn].box["outbox"]
        /\ db'[Conn].box["inbox"] = db[Conn].box["inbox"] \ {job[w]}
    BY <2>3 DEF Files, BoxNames
  <2>9. ~done' => Awaited(db', mpc', ToSend', ToHandle(others)')
    BY <1>0, <1>1, <1>4, <1>6, <1>7, <2>1, <2>8 DEF Awaited
  <2>. QED
    BY <2>7, <2>9
<1>. QED
  BY <1>8, <1>9 DEF IInvBacklog

-----------------------------------------------------------------------------
(* Requests, the backlog, loops and crashes *)

LEMMA BacklogOfPut ==
    ASSUME NEW others, IInvEngine, IInvBacklog(others), NEW r \in Requests, PutMessage(r)
    PROVE  IInvBacklog(others)'
<1>. USE DEF mainVars, requestVars, outsideVars, countVars, bodyVars
<1>0. /\ EngineTypes /\ DbFits(db) /\ StopFits /\ MarksFit
      /\ Trusted => BoxesSay(db, ToHandle(others))
      /\ Trusted /\ ~done => Awaited(db, mpc, ToSend, ToHandle(others))
  BY DEF IInvEngine, IInvBacklog
<1>1. UNCHANGED <<dispatcherVars, ready, chIncoming, workerVars, stopVars, finished, phase, held,
                  mpc, backlog, deletion, crashes>>
  BY DEF PutMessage
<1>2. PICK o \in SaveOutcomes(db, NewMsg(Conn, r, PriorityOf(r)), "outbox", "") :
               /\ Transact(o) /\ Written(db, o, r, PriorityOf(r), "outbox")
               /\ rid' = [rid EXCEPT ![r] = o.msg.id]
               /\ \/ /\ o.err \/ rpc[r] = "missing"
                     /\ rpc' = [rpc EXCEPT ![r] = "error"] /\ UNCHANGED <<offered, posted>>
                  \/ /\ ~o.err /\ rpc[r] = "found"
                     /\ rpc' = [rpc EXCEPT ![r] = "offering"] /\ OfferOutgoing(o.msg.id)
  BY PutOutcome
<1>3. SameBuckets(db, db') /\ db' = o.db
  BY <1>2 DEF Written, StepFits, Transact
<1>4. UNCHANGED <<chIncoming, queue, wpc, job, done>>
  BY <1>1 DEF dispatcherVars, workerVars, stopVars
<1>5. ToHandle(others)' = ToHandle(others)
  BY <1>1, <1>4 DEF ToHandle, Posts, Hands, HandsBut, JobsBut, OnChannel, WorkersOf
<1>6. \/ offered' = offered /\ ToSend' = ToSend
      \/ offered' = offered \cup {o.msg.id} /\ ToSend' = ToSend \cup {o.msg.id}
  <2>1. JobsBut("outgoing", Late)' = JobsBut("outgoing", Late)
    BY <1>1, <1>4 DEF JobsBut, Late, WorkersOf
  <2>2. \A x : offered' = offered \cup x =>
            HandsBut("outgoing", Late)' = HandsBut("outgoing", Late) \cup x
    BY <1>4, <2>1 DEF HandsBut, OnChannel
  <2>3. offered' = offered \cup {} \/ offered' = offered \cup {o.msg.id}
    BY <1>2 DEF OfferOutgoing
  <2>. QED
    BY <1>1, <2>2, <2>3 DEF ToSend
<1>7. StopFits' /\ MarksFit'
  <2>1. Trusted' => Trusted
    BY <1>0, <1>2, <1>3, TrustBefore
  <2>2. MarksFit'
    BY <1>0, <1>1, <2>1 DEF MarksFit
  <2>3. \A q \in Requests : rpc'[q] = "missing" => rpc[q] = "missing"
    BY <1>0, <1>2 DEF EngineTypes
  <2>. QED
    BY <1>0, <1>1, <1>4, <2>2, <2>3 DEF StopFits
<1>8. ASSUME Trusted' PROVE BoxesSay(db', ToHandle(others)') /\ (~done' => Awaited(db', mpc', ToSend', ToHandle(others)'))
  <2>1. Trusted /\ ~o.fault
    BY <1>0, <1>2, <1>3, <1>8, TrustBefore
  <2>2. ~o.err
    <3>1. NewMsg(Conn, r, PriorityOf(r)).conn = Conn
      BY DEF NewMsg
    <3>. QED
      BY <1>2, <2>1, <3>1, ErrorsAreFaults DEF Trusted, Exists
  <2>3. NewIn(db, db', o.msg.id, "outbox")
    BY <1>2, <1>3, <2>2 DEF Written, NewIn
  <2>4. BoxesSay(db, ToHandle(others))
    BY <1>0, <2>1
  <2>5. BoxesSay(db', ToHandle(others)')
    BY ZenonT(60), <1>5, <2>3, <2>4, NewTells DEF BoxesSay
  <2>6. /\ db'[Conn].box["outbox"] = db[Conn].box["outbox"] \cup {o.msg.id}
        /\ db'[Conn].box["inbox"] = db[Conn].box["inbox"]
    BY <2>3 DEF NewIn, Files, BoxNames
  <2>7. ASSUME ~done' PROVE ToSend' = ToSend \cup {o.msg.id}
    <3>1. rpc[r] # "missing"
      BY <1>0, <1>4, <2>7 DEF StopFits
    <3>2. OfferOutgoing(o.msg.id)
      BY <1>2, <2>2, <3>1
    <3>3. o.msg.id \in ToSend'
      BY <3>2 DEF OfferOutgoing, ToSend, HandsBut, OnChannel
    <3>. QED
      BY <1>6, <3>3
  <2>8. ~done' => Awaited(db', mpc', ToSend', ToHandle(others)')
    BY <1>0, <1>1, <1>4, <1>5, <2>1, <2>6, <2>7 DEF Awaited
  <2>. QED
    BY <2>5, <2>8
<1>. QED
  BY <1>7, <1>8 DEF IInvBacklog

LEMMA BacklogOfDispatch ==
    ASSUME NEW others, IInvEngine, IInvBacklog(others), NEW id \in backlog, DispatchOutgoing(id) \/ DispatchIncoming(id)
    PROVE  IInvBacklog(others)'
<1>. USE DEF mainVars, requestVars, outsideVars, countVars, bodyVars
<1>0. EngineTypes /\ StopFits /\ chIncoming \in Seq(Id) /\ id \in Id
  BY IdsAreNumbers DEF IInvEngine, IInvTokens, IInvTypes, TypeOK, IInvBacklog, EngineTypes
<1>1. /\ UNCHANGED <<dispatcherVars, ready, workerVars, stopVars, finished, db, faults, phase, held,
                     mpc, rpc, rid, deletion, crashes>>
      /\ backlog' = backlog \ {id}
  BY DEF DispatchOutgoing, DispatchIncoming
<1>2. UNCHANGED <<queue, wpc, job, done, db, faults, mpc, rpc, deletion>>
  BY <1>1 DEF dispatcherVars, workerVars, stopVars
<1>3. /\ JobsBut("outgoing", Late)' = JobsBut("outgoing", Late)
      /\ JobsBut("incoming", {})' = JobsBut("incoming", {}) /\ Posts' = Posts
  BY <1>1, <1>2 DEF JobsBut, Late, Posts, WorkersOf
<1>4. ToSend' = ToSend /\ ToHandle(others)' = ToHandle(others)
  <2>1. CASE DispatchOutgoing(id)
    <3>1. mpc = "outbox" /\ offered' = offered \cup {id} /\ chIncoming' = chIncoming
      BY <2>1 DEF DispatchOutgoing, OfferOutgoing
    <3>2. ToHandle(others)' = ToHandle(others)
      BY <1>2, <1>3, <3>1 DEF ToHandle, Hands, HandsBut, OnChannel
    <3>3. ToSend' = ToSend
      BY <1>1, <1>2, <1>3, <3>1 DEF ToSend, HandsBut, OnChannel
    <3>. QED
      BY <3>2, <3>3
  <2>2. CASE DispatchIncoming(id)
    <3>1. mpc = "inbox" /\ offered' = offered /\ chIncoming' = Append(chIncoming, id)
      BY <2>2 DEF DispatchIncoming, SendIncoming
    <3>2. Elements(chIncoming') = Elements(chIncoming) \cup {id}
      BY <1>0, <3>1, ElementsOfAppend
    <3>3. mpc = "inbox" /\ offered' = offered
      BY <3>1
    <3>4. ToHandle(others)' = ToHandle(others)
      BY <1>1, <1>2, <1>3, <3>2, <3>3 DEF ToHandle, Hands, HandsBut, OnChannel
    <3>5. ToSend' = ToSend
      BY <1>2, <1>3, <3>3 DEF ToSend, HandsBut, OnChannel
    <3>. QED
      BY <3>4, <3>5
  <2>. QED
    BY <2>1, <2>2
<1>5. StopFits'
  BY <1>0, <1>2 DEF StopFits
<1>. QED
  BY <1>1, <1>2, <1>4, <1>5, BacklogStays

LEMMA BacklogOfDeath ==
    ASSUME NEW others, IInvEngine, IInvBacklog(others), Dies
    PROVE  IInvBacklog({})'
<1>0. EngineTypes /\ Dies
  BY DEF IInvEngine
<1>1. UNCHANGED <<db, faults>> /\ mpc' = "start"
  BY <1>0 DEF Dies
<1>2. StopFits'
  <2>1. deletion' = "none" /\ done' = FALSE
    BY <1>0 DEF Dies
  <2>2. \A r \in Requests : rpc'[r] # "missing"
    BY <1>0 DEF Dies, EngineTypes
  <2>. QED
    BY <2>1, <2>2 DEF StopFits
<1>3. ToHandle({})' = {}
  <2>1. /\ chIncoming' = <<>> /\ queue'["incoming"] = EmptyQueue /\ mpc' = "start"
        /\ \A w \in Workers : wpc'[w] = "new" /\ phase'[w] = "load"
    BY <1>0 DEF Dies, Directions
  <2>2. JobsBut("incoming", {})' = {}
    BY <2>1 DEF JobsBut, WorkersOf, Workers
  <2>3. QueueIds(EmptyQueue) = {}
    BY EmptyIsWellFormed
  <2>4. Elements(<<>>) = {}
    <3>1. DOMAIN <<>> = {}
      OBVIOUS
    <3>. QED
      BY <3>1, Zenon DEF Elements
  <2>5. Posts' = {}
    BY <2>1 DEF Posts, Workers
  <2>. QED
    BY <2>1, <2>2, <2>3, <2>4, <2>5 DEF ToHandle, Hands, HandsBut, OnChannel
<1>4. \A w \in Workers : phase'[w] # "mark"
  BY <1>0 DEF Dies
<1>. QED
  BY <1>1, <1>2, <1>3, <1>4, BacklogStays

LEMMA BacklogOfLoops ==
    ASSUME NEW others, IInvEngine, IInvBacklog(others),
           \/ DispatcherRuns \/ BeginDelete \/ WaitForWorkers
           \/ \E d \in Directions : \E w \in WorkersOf(d) : WorkerRuns(d, w)
    PROVE  IInvBacklog(others)'
<1>. USE DEF mainVars, requestVars, outsideVars, countVars, bodyVars
<1>0. StopFits
  BY DEF IInvBacklog
<1>1. CASE BeginDelete
  <2>1. /\ QuietLoopStep /\ deletion' = "stopping" /\ done' = TRUE
        /\ UNCHANGED <<db, faults, phase, held, mpc, backlog, rpc>>
    BY <1>1 DEF BeginDelete, QuietLoopStep, StopClose
  <2>2. StopFits'
    BY <2>1 DEF StopFits
  <2>. QED
    BY <2>1, <2>2, BacklogOfLoop
<1>2. CASE ~BeginDelete
  <2>1. QuietLoopStep /\ UNCHANGED engineVars
    BY <1>2 DEF DispatcherRuns, WaitForWorkers, WorkerRuns, QuietLoopStep
  <2>2. UNCHANGED <<db, faults, phase, held, mpc, backlog, rpc, deletion>>
    BY <2>1 DEF engineVars
  <2>3. done' = done
    BY <1>2 DEF DispatcherRuns, WaitForWorkers, WorkerRuns, DispatcherStep, DispatcherBegin, ReceiveOutgoing,
                ReceiveIncoming, ReceiveReady, GiveJob, MatchEnd, DispatcherExit, StopWait, WorkerBegin,
                Announce, WorkerExit, WaitGroupAdd, WaitGroupDone, stopVars
  <2>4. StopFits'
    BY <1>0, <2>2, <2>3 DEF StopFits
  <2>. QED
    BY <2>1, <2>2, <2>3, <2>4, BacklogOfLoop
<1>. QED
  BY <1>1, <1>2

\* Whoever else there is that holds messages to handle.
LEMMA BacklogKeeps ==
    ASSUME NEW others, IInvEngine, IInvBacklog(others), [EngineNext]_allVars, ~Crash
    PROVE  IInvBacklog(others)'
<1>1. CASE EngineNext
  <2>1. /\ "outgoing" \in Directions /\ "incoming" \in Directions /\ Senders \subseteq Workers
        /\ WorkersOf("outgoing") = Senders /\ WorkersOf("incoming") = Receivers /\ Receivers \subseteq Workers
    BY DEF Directions, WorkersOf, Workers
  <2>2. ASSUME NEW w \in Senders, SenderStep(w) PROVE IInvBacklog(others)'
    <3>1. CASE WorkerRuns("outgoing", w)
      BY <2>1, <3>1, BacklogOfLoops
    <3>2. CASE EchoSend(w)
      BY <2>1, <3>2, BacklogOfLoad
    <3>3. CASE EchoMark(w) \/ EchoWrite(w) \/ EchoPost(w)
      BY <3>3, BacklogOfEchoMark, BacklogOfEchoWrite, BacklogOfEchoPost
    <3>. QED
      BY <2>2, <3>1, <3>2, <3>3 DEF SenderStep
  <2>3. ASSUME NEW w \in Receivers, ReceiverStep(w) PROVE IInvBacklog(others)'
    <3>1. CASE WorkerRuns("incoming", w)
      BY <2>1, <3>1, BacklogOfLoops
    <3>2. CASE HttpForward(w)
      BY <2>1, <3>2, BacklogOfLoad
    <3>3. CASE HttpMark(w)
      BY <3>3, BacklogOfHttpMark
    <3>. QED
      BY <2>3, <3>1, <3>2, <3>3 DEF ReceiverStep
  <2>4. CASE MainStep
    BY <2>4, BacklogOfOutside, BacklogOfDispatch DEF MainStep
  <2>5. ASSUME NEW r \in Requests, LookUp(r) \/ PutMessage(r) \/ Respond(r) PROVE IInvBacklog(others)'
    BY <2>5, BacklogOfOutside, BacklogOfPut
  <2>6. CASE DeleteStep
    BY <2>6, BacklogOfOutside, BacklogOfLoops DEF DeleteStep
  <2>7. CASE DispatcherRuns
    BY <2>7, BacklogOfLoops
  <2>. QED
    BY <1>1, <2>2, <2>3, <2>4, <2>5, <2>6, <2>7 DEF EngineNext, EngineRun
<1>2. CASE UNCHANGED allVars
  BY <1>2, BacklogOfOutside
<1>. QED
  BY <1>1, <1>2

LEMMA BacklogAlways == DeleteSpec => []IInvBacklog({})
<1>1. DeleteSpec => []IInvEngine
  BY EngineAlways
<1>2. IInvEngine /\ IInvBacklog({}) /\ [EngineNext]_allVars => IInvBacklog({})'
  BY BacklogKeeps, BacklogOfDeath DEF Crash
<1>. QED
  BY <1>1, <1>2, BacklogStarts, PTL DEF DeleteSpec

-----------------------------------------------------------------------------
(* What follows *)

\* The four boxes never share an id and each message's status is that of its box,
\* as long as no transaction has failed: saveMsgToBucket writes the record and the
\* boxes by different statements, and its callers name boxes that fit.
THEOREM BoxesAlwaysAgree == DeleteSpec => []BoxesAgreeWithMessages
<1>1. IInvEngine /\ IInvBacklog({}) => BoxesAgreeWithMessages
  <2>. SUFFICES ASSUME IInvEngine, IInvBacklog({}), Trusted
                PROVE  /\ \A b1, b2 \in BoxNames : b1 # b2 => Box(b1) \cap Box(b2) = {}
                       /\ \A b \in BoxNames : \A id \in Box(b) : StatusOf(id) = BoxOfStatus[b]
                       /\ DOMAIN db[Conn].msgs = UNION {Box(b) : b \in BoxNames}
    BY DEF BoxesAgreeWithMessages, Trusted
  <2>1. /\ BoxesFit(db[Conn]) /\ MessagesFit(db[Conn]) /\ BoxesTell(db[Conn])
        /\ \A b : Box(b) = db[Conn].box[b]
    BY DEF IInvEngine, IInvBacklog, DbFits, BucketFits, Trusted, Exists, BoxesSay, Box, BoxIds
  <2>2. \A b1, b2 \in BoxNames : b1 # b2 => Box(b1) \cap Box(b2) = {}
    BY <2>1 DEF BoxesFit, BoxesTell, Outgoing, BoxNames
  <2>3. \A b \in BoxNames : \A id \in Box(b) : StatusOf(id) = BoxOfStatus[b]
    BY <2>1 DEF BoxesTell, StatusOf
  <2>4. UNION {Box(b) : b \in BoxNames} = Filed(db[Conn])
    BY <2>1 DEF Filed, Outgoing, BoxNames
  <2>. QED
    BY <2>1, <2>2, <2>3, <2>4 DEF MessagesFit
<1>. QED
  BY <1>1, EngineAlways, BacklogAlways, PTL

\* No queued message is forgotten, at any point of a start or after it: what is
\* still in a box is in the hands of a goroutine, on a channel, in a queue or in the
\* backlog main is dispatching.
THEOREM NobodyIsForgotten == DeleteSpec => []NobodyForgotten
<1>1. IInvEngine /\ IInvBacklog({}) => NobodyForgotten
  <2>. SUFFICES ASSUME IInvEngine, IInvBacklog({}), faults = 0,
                       ~done \/ mpc \in {"outbox", "inbox"}
                PROVE  /\ mpc = "serving" => /\ Box("outbox") \subseteq OutgoingInHand
                                             /\ Box("inbox") \subseteq IncomingInHand
                       /\ mpc = "outbox" => Box("outbox") \subseteq OutgoingInHand \cup backlog
                       /\ mpc = "inbox" => Box("inbox") \subseteq IncomingInHand \cup backlog
    BY DEF NobodyForgotten, ServedIsInHand, BacklogCoversRest
  <2>1. ~done
    BY DEF IInvEngine, MainFits, IInvBacklog, StopFits
  <2>2. Exists => Awaited(db, mpc, ToSend, ToHandle({}))
    BY <2>1 DEF IInvBacklog, Trusted
  <2>3. HandsBut("outgoing", Late) \subseteq OutgoingInHand
    BY DEF HandsBut, OnChannel, JobsBut, OutgoingInHand, Taken
  <2>4. Hands("incoming") \cup Posts \subseteq IncomingInHand
    BY DEF Hands, HandsBut, OnChannel, JobsBut, IncomingInHand, Taken, Posts
  <2>. QED
    BY <2>2, <2>3, <2>4 DEF Awaited, ToSend, ToHandle, Box, BoxIds
<1>. QED
  BY <1>1, EngineAlways, BacklogAlways, PTL

-----------------------------------------------------------------------------
(* High priority goes first *)

\* Workers in the body of their loop: what they have in hand has been sent.
Working == {w \in Workers : phase[w] # "load"}

\* What the dispatcher has received and, but for the workers in S, nobody has sent.
Past(S) == QueueIds(queue["outgoing"]) \cup JobsBut("outgoing", S)

\* Until the first crash, a message of high priority that was accepted has an id
\* below the mask and is on the channel, has reached the dispatcher or has been sent.
UnsentFits ==
    Exists /\ crashes = 0 =>
        \A r \in HighRequests : rpc[r] \in {"offering", "ok"} =>
            /\ rid[r] < LowPriorityMask
            /\ \/ transmitted[rid[r]] > 0 \/ rid[r] \in Past(Working)
               \/ rpc[r] = "offering" /\ rid[r] \in offered

LEMMA AnswersAreIds ==
    ASSUME IInvEngine, Exists, NEW r \in Requests, rpc[r] \in {"offering", "ok"}
    PROVE  rid[r] \in MsgIds
BY BoxesOfIds, IncomingIsFiled DEF IInvEngine, AnswersFit

LEMMA UnsentKept ==
    ASSUME IInvEngine, UnsentFits,
           Exists' => Exists, crashes' = 0 => crashes = 0,
           \A id \in MsgIds : transmitted[id] > 0 => transmitted'[id] > 0,
           Exists => \A id \in Past(Working) : id \in Past(Working)' \/ transmitted'[id] > 0,
           \A id \in offered : id \in offered' \cup Past(Working)',
           \A r \in HighRequests : rpc'[r] \in {"offering", "ok"} =>
               \/ rpc'[r] = rpc[r] /\ rid'[r] = rid[r]
               \/ rpc[r] = "offering" /\ rid[r] \notin offered /\ rid'[r] = rid[r]
               \/ Exists' /\ rid'[r] < LowPriorityMask /\ rpc'[r] = "offering" /\ rid'[r] \in offered'
    PROVE  UnsentFits'
<1>. SUFFICES ASSUME Exists', crashes' = 0, NEW r \in HighRequests, rpc'[r] \in {"offering", "ok"}
              PROVE  /\ rid'[r] < LowPriorityMask
                     /\ \/ transmitted'[rid'[r]] > 0 \/ rid'[r] \in Past(Working)'
                        \/ rpc'[r] = "offering" /\ rid'[r] \in offered'
  BY DEF UnsentFits
<1>0. r \in Requests
  BY DEF Requests
<1>1. CASE rpc[r] \in {"offering", "ok"} /\ rid'[r] = rid[r]
           /\ (rpc'[r] = rpc[r] \/ rid[r] \notin offered)
  <2>1. rid[r] \in MsgIds
    BY <1>0, <1>1, AnswersAreIds
  <2>2. /\ rid[r] < LowPriorityMask
        /\ \/ transmitted[rid[r]] > 0 \/ rid[r] \in Past(Working)
           \/ rpc[r] = "offering" /\ rid[r] \in offered
    BY <1>1 DEF UnsentFits
  <2>. QED
    BY <1>1, <2>1, <2>2
<1>. QED
  BY <1>1

LEMMA NothingAccepted == EngineInit => UnsentFits
BY DEF EngineInit, UnsentFits, Requests

LEMMA PastGrows ==
    ASSUME IInvTokens, QuietLoopStep, NEW S, \A w \in S \cap Workers : wpc[w] = "busy"
    PROVE  Past(S) \subseteq Past(S)' /\ offered \subseteq offered' \cup Past(S)'
<1>. USE DEF dispatcherVars, channelVars, workerVars, stopVars, historyVars
<1>0. /\ queue \in [Directions -> [high : Seq(Id), low : Seq(Id)]]
      /\ wpc \in [Workers -> {"new", "announce", "idle", "busy", "exited"}]
      /\ job \in [Workers -> Id \cup {NoJob}]
      /\ offered \subseteq Id
      /\ \A d \in Directions : /\ available[d] \in Seq(Workers) /\ ready[d] \in Seq(Workers)
                               /\ WellFormedQueue(queue[d])
                               /\ TokensFit(Tokens(d), wpc, d)
      /\ "outgoing" \in Directions /\ "incoming" \in Directions /\ WorkersOf("outgoing") \subseteq Workers
  BY OneTokenIsTokensFit, SendersAndReceivers
  DEF IInvTokens, IInvTypes, TypeOK, QueuesWellFormed, Directions
<1>1. JobsBut("outgoing", S) \subseteq JobsBut("outgoing", S)'
  <2>1. \A v \in WorkersOf("outgoing") : wpc[v] = "busy" => wpc'[v] = "busy" /\ job'[v] = job[v]
    BY <1>0, BusyStays
  <2>2. \A x : x \in JobsBut("outgoing", S)' <=>
                 \E v \in WorkersOf("outgoing") \ S : wpc'[v] = "busy" /\ job'[v] = x
    BY DEF JobsBut, WorkersOf
  <2>3. \A x : x \in JobsBut("outgoing", S) <=>
                 \E v \in WorkersOf("outgoing") \ S : wpc[v] = "busy" /\ job[v] = x
    BY DEF JobsBut
  <2>. QED
    BY <2>1, <2>2, <2>3
<1>2. CASE \/ DispatcherBegin \/ MatchEnd \/ DispatcherExit \/ StopClose \/ StopWait
           \/ (\E d \in Directions : ReceiveReady(d))
           \/ \E d \in Directions : \E w \in WorkersOf(d) :
                 WorkerBegin(w) \/ Announce(d, w) \/ WorkerExit(w)
  <2>1. UNCHANGED <<offered, queue>>
    BY <1>2 DEF DispatcherBegin, MatchEnd, DispatcherExit, StopClose, StopWait, ReceiveReady,
                WorkerBegin, Announce, WorkerExit
  <2>. QED
    BY <1>1, <2>1 DEF Past
<1>3. ASSUME NEW id \in offered, ReceiveOutgoing(id)
      PROVE  Past(S) \subseteq Past(S)' /\ offered \subseteq offered' \cup Past(S)'
  <2>1. offered' = offered \ {id} /\ queue'["outgoing"] = Insert(queue["outgoing"], id)
    BY <1>0, <1>3 DEF ReceiveOutgoing
  <2>2. QueueIds(queue'["outgoing"]) = QueueIds(queue["outgoing"]) \cup {id}
    BY <1>0, <2>1, InsertKeepsWellFormed
  <2>. QED
    BY <1>1, <2>1, <2>2 DEF Past
<1>4. CASE ReceiveIncoming
  <2>1. offered' = offered /\ queue'["outgoing"] = queue["outgoing"]
    BY <1>0, <1>4 DEF ReceiveIncoming
  <2>. QED
    BY <1>1, <2>1 DEF Past
<1>5. CASE GiveJob("incoming")
  <2>1. offered' = offered /\ queue'["outgoing"] = queue["outgoing"]
    BY <1>0, <1>5 DEF GiveJob
  <2>. QED
    BY <1>1, <2>1 DEF Past
<1>6. CASE GiveJob("outgoing")
  <2>0. PICK w : w = Head(available["outgoing"])
    OBVIOUS
  <2>1. /\ available["outgoing"] # <<>> /\ QueueLen(queue["outgoing"]) > 0
        /\ wpc[w] = "idle" /\ wpc' = [wpc EXCEPT ![w] = "busy"]
        /\ job' = [job EXCEPT ![w] = PopId(queue["outgoing"])]
        /\ queue' = [queue EXCEPT !["outgoing"] = PopRest(@)] /\ offered' = offered
    BY <1>6, <2>0 DEF GiveJob, Matching, Pairable
  <2>2. w \in WorkersOf("outgoing") /\ w \in Workers
    <3>0. available["outgoing"] \in Seq(Workers) /\ available["outgoing"] # <<>>
          /\ ready["outgoing"] \in Seq(Workers)
      BY <1>0, <2>1
    <3>1. 1 \in DOMAIN Tokens("outgoing") /\ Tokens("outgoing")[1] = Head(available["outgoing"])
      BY <3>0, HeadOfConcat, ZenonT(30) DEF Tokens
    <3>. QED
      BY <1>0, <2>0, <3>1 DEF TokensFit, Elements
  <2>3. w \notin S /\ wpc'[w] = "busy" /\ job'[w] = PopId(queue["outgoing"])
    BY <1>0, <2>1, <2>2
  <2>4. PopId(queue["outgoing"]) \in JobsBut("outgoing", S)'
    BY <2>2, <2>3 DEF JobsBut, WorkersOf
  <2>5. QueueIds(queue["outgoing"]) = QueueIds(queue'["outgoing"]) \cup {PopId(queue["outgoing"])}
    <3>1. queue'["outgoing"] = PopRest(queue["outgoing"])
      BY <1>0, <2>1
    <3>. QED
      BY <1>0, <2>1, <3>1, PopTakesSmallest
  <2>. QED
    BY <1>1, <2>1, <2>4, <2>5 DEF Past
<1>. QED
  BY <1>2, <1>3, <1>4, <1>5, <1>6 DEF QuietLoopStep, DispatcherStep, Directions

LEMMA UnsentOfLoop ==
    ASSUME IInvEngine, UnsentFits, QuietLoopStep,
           UNCHANGED <<db, phase, rpc, rid, crashes, transmitted>>
    PROVE  UnsentFits'
<1>. PICK L : L = Working
  OBVIOUS
<1>1. IInvTokens /\ Working' = L /\ (\A w \in L \cap Workers : wpc[w] = "busy")
  BY DEF IInvEngine, WorkerFits, BodyFits, Working
<1>2. Past(L) \subseteq Past(L)' /\ offered \subseteq offered' \cup Past(L)'
  BY <1>1, PastGrows
<1>3. Past(Working)' = Past(L)'
  BY <1>1 DEF Past, JobsBut
<1>4. /\ Past(Working) \subseteq Past(Working)' /\ offered \subseteq offered' \cup Past(Working)'
      /\ Exists' = Exists
  BY <1>2, <1>3 DEF Exists
<1>. QED
  BY <1>4, UnsentKept

\* A step that changes neither the outgoing queue nor what a sender has in hand
\* and has not sent.
LEMMA PastStays ==
    ASSUME queue'["outgoing"] = queue["outgoing"],
           \A w \in Senders : w \in Working' \/ wpc'[w] # "busy" <=> w \in Working \/ wpc[w] # "busy",
           \A w \in Senders \ Working : wpc[w] = "busy" => job'[w] = job[w]
    PROVE  Past(Working)' = Past(Working)
<1>1. \A x : x \in JobsBut("outgoing", Working)' <=>
                 \E v \in Senders \ Working' : wpc'[v] = "busy" /\ job'[v] = x
  BY DEF JobsBut, WorkersOf
<1>2. \A x : x \in JobsBut("outgoing", Working) <=>
                 \E v \in Senders \ Working : wpc[v] = "busy" /\ job[v] = x
  BY DEF JobsBut, WorkersOf
<1>3. \A v \in Senders : v \notin Working' /\ wpc'[v] = "busy" <=> v \notin Working /\ wpc[v] = "busy"
  OBVIOUS
<1>4. JobsBut("outgoing", Working)' = JobsBut("outgoing", Working)
  BY <1>1, <1>2, <1>3
<1>. QED
  BY <1>4 DEF Past

LEMMA UnsentOfBody ==
    ASSUME IInvEngine, IInvEngine', UnsentFits, NEW w \in Workers,
           \/ w \in Senders /\ (EchoMark(w) \/ EchoWrite(w) \/ EchoPost(w))
           \/ w \in Receivers /\ (HttpForward(w) \/ HttpMark(w))
    PROVE  UnsentFits'
<1>. USE DEF mainVars, requestVars, outsideVars, countVars
<1>0. /\ EngineTypes /\ WorkerFits(w) /\ Senders \subseteq Workers
      /\ wpc \in [Workers -> {"new", "announce", "idle", "busy", "exited"}]
      /\ job \in [Workers -> Id \cup {NoJob}]
      /\ \A v \in Receivers : v \notin Senders
  BY WorkersAssumption DEF IInvEngine, IInvTokens, IInvTypes, TypeOK, Workers
<1>1. /\ \E to \in {"load", "mark", "echo", "post"} : phase' = [phase EXCEPT ![w] = to]
      /\ UNCHANGED <<queue, offered, rpc, rid, crashes, transmitted>>
  BY DEF EchoMark, EchoWrite, EchoPost, HttpForward, HttpMark, vars, dispatcherVars, channelVars
<1>2. \A v \in Workers \ {w} : wpc'[v] = wpc[v] /\ job'[v] = job[v] /\ phase'[v] = phase[v]
  BY <1>0, <1>1 DEF EchoMark, EchoWrite, EchoPost, HttpForward, HttpMark, FinishJob, vars, workerVars, EngineTypes
<1>3. w \in Senders => /\ w \in Working /\ wpc[w] = "busy"
                       /\ w \in Working' \/ wpc'[w] # "busy"
  <2>. SUFFICES ASSUME w \in Senders PROVE /\ w \in Working /\ wpc[w] = "busy"
                                           /\ w \in Working' \/ wpc'[w] # "busy"
    OBVIOUS
  <2>1. CASE EchoMark(w) \/ EchoWrite(w)
    BY <1>0, <2>1 DEF EchoMark, EchoWrite, Working, EngineTypes
  <2>2. CASE EchoPost(w)
    BY <1>0, <2>2 DEF EchoPost, FinishJob, Working
  <2>. QED
    BY <1>0, <2>1, <2>2
<1>4. \A v \in Senders : v # w => (v \in Working' <=> v \in Working)
  BY <1>0, <1>2 DEF Working
<1>5. Past(Working)' = Past(Working)
  <2>1. \A v \in Senders : v \in Working' \/ wpc'[v] # "busy" <=> v \in Working \/ wpc[v] # "busy"
    BY <1>0, <1>2, <1>3, <1>4
  <2>2. \A v \in Senders \ Working : wpc[v] = "busy" => job'[v] = job[v]
    BY <1>0, <1>2, <1>3
  <2>. QED
    BY <1>1, <2>1, <2>2, PastStays
<1>6. Exists' => Exists
  <2>1. deletion' = deletion
    BY DEF EchoMark, EchoWrite, EchoPost, HttpForward, HttpMark
  <2>. QED
    BY <2>1 DEF IInvEngine, MainFits
<1>. QED
  BY <1>1, <1>5, <1>6, UnsentKept

LEMMA UnsentOfSend ==
    ASSUME IInvEngine, UnsentFits, NEW w \in Senders, EchoSend(w)
    PROVE  UnsentFits'
<1>. USE DEF mainVars, requestVars, outsideVars, countVars
<1>0. /\ EngineTypes /\ DbFits(db) /\ HandsFit /\ w \in Workers /\ Senders \subseteq Workers
  BY DEF IInvEngine, Workers
<1>1. /\ wpc[w] = "busy" /\ phase[w] = "load" /\ phase' = [phase EXCEPT ![w] = "mark"]
      /\ UNCHANGED <<queue, offered, wpc, job, db, rpc, rid, crashes>>
      /\ transmitted' = IF MsgFromId(db, Conn, job[w]) = BlankMsg THEN transmitted
                        ELSE [transmitted EXCEPT ![MsgFromId(db, Conn, job[w]).id] = @ + 1]
  BY DEF EchoSend, vars, dispatcherVars, channelVars, workerVars
<1>2. \A id \in MsgIds : transmitted[id] > 0 => transmitted'[id] > 0
  BY <1>0, <1>1 DEF EngineTypes
<1>3. Exists => transmitted'[job[w]] > 0
  <2>. SUFFICES ASSUME Exists PROVE transmitted'[job[w]] > 0
    OBVIOUS
  <2>1. job[w] \in Outgoing(db[Conn])
    BY <1>0, <1>1, JobIsInHand DEF HandsFit, OnTheWay
  <2>2. job[w] \in Filed(db[Conn]) /\ job[w] \in MsgIds
    BY <2>1, IncomingIsFiled, BoxesOfIds
  <2>3. MsgFromId(db, Conn, job[w]) # BlankMsg
    BY <1>0, <2>2, FiledIsLoaded DEF Exists
  <2>4. MsgFromId(db, Conn, job[w]).id = job[w]
    <3>1. MessagesFit(db[Conn])
      BY <1>0 DEF DbFits, BucketFits, Exists
    <3>. QED
      BY <2>2, <3>1 DEF MessagesFit, MsgFromId, Exists
  <2>5. transmitted' = [transmitted EXCEPT ![job[w]] = @ + 1]
    BY <1>1, <2>3, <2>4
  <2>. QED
    BY <1>0, <2>2, <2>5 DEF EngineTypes
<1>4. Past(Working) \subseteq Past(Working)' \cup {job[w]}
  <2>1. \A v \in Senders : v # w => (v \in Working' <=> v \in Working)
    BY <1>0, <1>1 DEF EngineTypes, Working
  <2>2. \A x : x \in JobsBut("outgoing", Working)' <=>
                 \E v \in Senders \ Working' : wpc[v] = "busy" /\ job[v] = x
    BY <1>1 DEF JobsBut, WorkersOf
  <2>3. \A x : x \in JobsBut("outgoing", Working) <=>
                 \E v \in Senders \ Working : wpc[v] = "busy" /\ job[v] = x
    BY DEF JobsBut, WorkersOf
  <2>4. JobsBut("outgoing", Working) \subseteq JobsBut("outgoing", Working)' \cup {job[w]}
    BY <2>1, <2>2, <2>3
  <2>. QED
    BY <1>1, <2>4 DEF Past
<1>5. Exists' = Exists
  BY <1>1 DEF Exists
<1>. QED
  BY <1>1, <1>2, <1>3, <1>4, <1>5, UnsentKept

LEMMA UnsentOfPut ==
    ASSUME IInvEngine, IInvEngine', UnsentFits, NEW r \in Requests, PutMessage(r)
    PROVE  UnsentFits'
<1>. USE DEF mainVars, requestVars, outsideVars, countVars, bodyVars
<1>0. EngineTypes
  BY DEF IInvEngine
<1>1. /\ UNCHANGED <<queue, wpc, job, phase, crashes, deletion, transmitted>>
      /\ rpc[r] \in {"found", "missing"}
  BY DEF PutMessage, dispatcherVars, workerVars
<1>2. PICK o \in SaveOutcomes(db, NewMsg(Conn, r, PriorityOf(r)), "outbox", "") :
               /\ Transact(o) /\ Written(db, o, r, PriorityOf(r), "outbox")
               /\ rid' = [rid EXCEPT ![r] = o.msg.id]
               /\ \/ /\ o.err \/ rpc[r] = "missing"
                     /\ rpc' = [rpc EXCEPT ![r] = "error"] /\ UNCHANGED <<offered, posted>>
                  \/ /\ ~o.err /\ rpc[r] = "found"
                     /\ rpc' = [rpc EXCEPT ![r] = "offering"] /\ OfferOutgoing(o.msg.id)
  BY PutOutcome
<1>3. Past(Working)' = Past(Working)
  <2>1. Working' = Working
    BY <1>1 DEF Working
  <2>2. JobsBut("outgoing", Working)' = JobsBut("outgoing", Working)
    BY <1>1, <2>1 DEF JobsBut, WorkersOf
  <2>. QED
    BY <1>1, <2>2 DEF Past
<1>4. offered \subseteq offered'
  BY <1>2 DEF OfferOutgoing
<1>5. Exists' => Exists
  BY <1>1 DEF IInvEngine, MainFits
<1>6. ASSUME NEW q \in HighRequests, rpc'[q] \in {"offering", "ok"}
      PROVE  \/ rpc'[q] = rpc[q] /\ rid'[q] = rid[q]
             \/ Exists' /\ rid'[q] < LowPriorityMask /\ rpc'[q] = "offering" /\ rid'[q] \in offered'
  <2>0. q \in Requests
    BY DEF Requests
  <2>1. CASE q # r
    BY <1>0, <1>2, <2>0, <2>1 DEF EngineTypes
  <2>2. CASE q = r
    <3>1. ~o.err /\ rpc'[r] = "offering" /\ OfferOutgoing(o.msg.id) /\ rid'[r] = o.msg.id
      BY <1>0, <1>2, <1>6, <2>2 DEF EngineTypes
    <3>2. o.msg.id < LowPriorityMask /\ HasBucket(o.db, Conn)
      BY <1>2, <2>2, <3>1 DEF Written, Files, PriorityOf
    <3>3. Exists'
      BY <1>2, <3>2 DEF Transact, Exists
    <3>. QED
      BY <2>2, <3>1, <3>2, <3>3 DEF OfferOutgoing
  <2>. QED
    BY <2>1, <2>2
<1>. QED
  BY <1>1, <1>3, <1>4, <1>5, <1>6, UnsentKept

LEMMA UnsentOfOutside ==
    ASSUME IInvEngine, UnsentFits,
           \/ ReadOutbox \/ ReadInbox \/ StartServer \/ ForgetEngine \/ EndDelete
           \/ \E id \in backlog : DispatchOutgoing(id) \/ DispatchIncoming(id)
           \/ \E r \in Requests : LookUp(r) \/ Respond(r)
           \/ UNCHANGED allVars
    PROVE  UnsentFits'
<1>. USE DEF mainVars, requestVars, outsideVars, countVars, bodyVars
<1>0. EngineTypes
  BY DEF IInvEngine
<1>1. /\ UNCHANGED <<queue, wpc, job, phase, crashes, transmitted, rid>> /\ offered \subseteq offered'
      /\ db' = db \/ EndDelete
  BY DEF ReadOutbox, ReadInbox, StartServer, ForgetEngine, EndDelete, LookUp, Respond, DispatchOutgoing,
         DispatchIncoming, OfferOutgoing, allVars, engineVars, vars, dispatcherVars, channelVars, workerVars
<1>2. Past(Working)' = Past(Working)
  <2>1. Working' = Working
    BY <1>1 DEF Working
  <2>2. JobsBut("outgoing", Working)' = JobsBut("outgoing", Working)
    BY <1>1, <2>1 DEF JobsBut, WorkersOf
  <2>. QED
    BY <1>1, <2>2 DEF Past
<1>3. Exists' => Exists
  BY <1>1 DEF EndDelete, DeleteConnection, Exists, HasBucket
<1>4. ASSUME NEW q \in HighRequests, rpc'[q] \in {"offering", "ok"}
      PROVE  rpc'[q] = rpc[q] \/ (rpc[q] = "offering" /\ rid[q] \notin offered)
  <2>0. q \in Requests
    BY DEF Requests
  <2>1. ASSUME NEW r \in Requests, LookUp(r) PROVE rpc'[q] = rpc[q]
    BY <1>0, <1>4, <2>0, <2>1 DEF LookUp, EngineTypes
  <2>2. ASSUME NEW r \in Requests, Respond(r)
        PROVE  rpc'[q] = rpc[q] \/ (rpc[q] = "offering" /\ rid[q] \notin offered)
    BY <1>0, <2>0, <2>2 DEF Respond, EngineTypes
  <2>3. rpc' = rpc \/ \E r \in Requests : LookUp(r) \/ Respond(r)
    BY DEF ReadOutbox, ReadInbox, StartServer, ForgetEngine, EndDelete, DispatchOutgoing,
           DispatchIncoming, allVars, engineVars
  <2>. QED
    BY <2>1, <2>2, <2>3
<1>. QED
  BY <1>1, <1>2, <1>3, <1>4, UnsentKept

LEMMA UnsentKeeps ==
    IInvEngine /\ UnsentFits /\ [EngineNext]_allVars => UnsentFits'
<1>. SUFFICES ASSUME IInvEngine, UnsentFits, [EngineNext]_allVars PROVE UnsentFits'
  OBVIOUS
<1>. USE DEF mainVars, requestVars, outsideVars, countVars, bodyVars
<1>0. IInvEngine' /\ crashes \in Nat
  <2>1. MaxTroubles \in Nat
    BY EngineAssumption
  <2>. QED
    BY <2>1, EngineKeeps DEF IInvEngine, EngineTypes
<1>1. CASE EngineNext
  <2>1. /\ "outgoing" \in Directions /\ "incoming" \in Directions
        /\ Senders \subseteq Workers /\ Receivers \subseteq Workers
        /\ WorkersOf("outgoing") = Senders /\ WorkersOf("incoming") = Receivers
    BY DEF Directions, WorkersOf, Workers
  <2>2. CASE \/ DispatcherRuns \/ BeginDelete \/ WaitForWorkers
             \/ \E d \in Directions : \E w \in WorkersOf(d) : WorkerRuns(d, w)
    <3>1. QuietLoopStep /\ UNCHANGED <<db, phase, rpc, rid, crashes, transmitted>>
      BY <2>2 DEF DispatcherRuns, BeginDelete, WaitForWorkers, WorkerRuns, QuietLoopStep, engineVars
    <3>. QED
      BY <3>1, UnsentOfLoop
  <2>3. ASSUME NEW w \in Senders, SenderStep(w) PROVE UnsentFits'
    <3>1. CASE WorkerRuns("outgoing", w)
      BY <2>1, <2>2, <3>1
    <3>2. CASE EchoSend(w)
      BY <3>2, UnsentOfSend
    <3>3. CASE EchoMark(w) \/ EchoWrite(w) \/ EchoPost(w)
      BY <1>0, <2>1, <3>3, UnsentOfBody
    <3>. QED
      BY <2>3, <3>1, <3>2, <3>3 DEF SenderStep
  <2>4. ASSUME NEW w \in Receivers, ReceiverStep(w) PROVE UnsentFits'
    <3>1. CASE WorkerRuns("incoming", w)
      BY <2>1, <2>2, <3>1
    <3>2. CASE HttpForward(w) \/ HttpMark(w)
      BY <1>0, <2>1, <3>2, UnsentOfBody
    <3>. QED
      BY <2>4, <3>1, <3>2 DEF ReceiverStep
  <2>5. CASE MainStep
    BY <2>5, UnsentOfOutside DEF MainStep
  <2>6. ASSUME NEW r \in Requests, LookUp(r) \/ PutMessage(r) \/ Respond(r) PROVE UnsentFits'
    BY <1>0, <2>6, UnsentOfOutside, UnsentOfPut
  <2>7. CASE ForgetEngine \/ EndDelete
    BY <2>7, UnsentOfOutside
  <2>8. CASE Crash
    <3>1. crashes' = crashes + 1
      BY <2>8 DEF Crash, Dies
    <3>. QED
      BY <1>0, <3>1 DEF UnsentFits
  <2>. QED
    BY <1>1, <2>2, <2>3, <2>4, <2>5, <2>6, <2>7, <2>8 DEF EngineNext, EngineRun, DeleteStep
<1>2. CASE UNCHANGED allVars
  BY <1>2, UnsentOfOutside
<1>. QED
  BY <1>1, <1>2

\* A worker gets its job from the dispatcher, which pops it off the queue.
LEMMA JobsAreGiven ==
    ASSUME IInvEngine, [EngineNext]_allVars, NEW w \in Senders, job[w] = NoJob, job'[w] # NoJob
    PROVE  GiveJob("outgoing") /\ job'[w] = PopId(queue["outgoing"])
<1>. USE DEF dispatcherVars, channelVars, workerVars, stopVars, historyVars
<1>0. /\ job \in [Workers -> Id \cup {NoJob}]
      /\ \A d \in Directions : /\ available[d] \in Seq(Workers) /\ ready[d] \in Seq(Workers)
                               /\ TokensFit(Tokens(d), wpc, d)
      /\ Senders \subseteq Workers
      /\ w \in WorkersOf("outgoing") /\ w \notin WorkersOf("incoming") /\ "incoming" \in Directions
  BY OneTokenIsTokensFit, WorkersAssumption
  DEF IInvEngine, IInvTokens, IInvTypes, TypeOK, Directions, Workers, WorkersOf
<1>1. \/ job' = job \/ \E d \in Directions : GiveJob(d)
      \/ \E v \in Workers : job' = [job EXCEPT ![v] = NoJob]
      \/ job' = [v \in Workers |-> NoJob]
  <2>1. CASE DispatcherRuns
    BY <2>1 DEF DispatcherRuns, DispatcherStep, DispatcherBegin, ReceiveOutgoing, ReceiveIncoming,
                ReceiveReady, MatchEnd, DispatcherExit
  <2>2. ASSUME NEW v \in Senders, SenderStep(v)
        PROVE  job' = job \/ job' = [job EXCEPT ![v] = NoJob]
    BY <2>2 DEF SenderStep, WorkerRuns, WorkerBegin, Announce, WorkerExit, EchoSend, EchoMark, EchoWrite,
                EchoPost, FinishJob, vars
  <2>3. ASSUME NEW v \in Receivers, ReceiverStep(v)
        PROVE  job' = job \/ job' = [job EXCEPT ![v] = NoJob]
    BY <2>3 DEF ReceiverStep, WorkerRuns, WorkerBegin, Announce, WorkerExit, HttpForward, HttpMark,
                FinishJob, vars
  <2>4. CASE MainStep \/ UNCHANGED allVars \/ \E r \in Requests : LookUp(r) \/ PutMessage(r) \/ Respond(r)
    BY <2>4 DEF MainStep, ReadOutbox, ReadInbox, StartServer, DispatchOutgoing, DispatchIncoming, LookUp,
                PutMessage, Respond, allVars, vars
  <2>5. CASE DeleteStep
    BY <2>5 DEF DeleteStep, BeginDelete, WaitForWorkers, ForgetEngine, EndDelete, StopClose, StopWait, vars
  <2>6. CASE Crash
    BY <2>6 DEF Crash, Dies
  <2>. QED
    BY <2>1, <2>2, <2>3, <2>4, <2>5, <2>6 DEF EngineNext, EngineRun, Workers
<1>2. PICK d \in Directions : GiveJob(d)
  BY <1>0, <1>1
<1>3. PICK v : v = Head(available[d])
  OBVIOUS
<1>4. job' = [job EXCEPT ![v] = PopId(queue[d])] /\ available[d] # <<>>
  BY <1>2, <1>3 DEF GiveJob, Matching, Pairable
<1>5. v = w
  BY <1>0, <1>4
<1>6. v \in WorkersOf(d)
  <2>1. 1 \in DOMAIN Tokens(d) /\ Tokens(d)[1] = Head(available[d])
    <3>1. available[d] \in Seq(Workers) /\ ready[d] \in Seq(Workers)
      BY <1>0
    <3>. QED
      BY <1>4, <3>1, HeadOfConcat, ZenonT(30) DEF Tokens
  <2>. QED
    BY <1>0, <1>3, <2>1 DEF TokensFit, Elements
<1>7. d = "outgoing"
  BY <1>0, <1>5, <1>6 DEF Directions
<1>. QED
  BY <1>0, <1>2, <1>4, <1>5, <1>7

\* Until the first crash a sender is given a message of low priority only when no
\* message of high priority that was answered still waits for a sender: its id is
\* smaller and lies in the same queue of the dispatcher.
THEOREM HighGoesFirst == DeleteSpec => HighBeforeLowAtFirst
<1>1. IInvEngine /\ UnsentFits /\ [EngineNext]_allVars
        => (crashes = 0 => \A w \in Senders : TakesHighFirst(w))
  <2>. SUFFICES ASSUME IInvEngine, UnsentFits, [EngineNext]_allVars, crashes = 0,
                       NEW w \in Senders, NEW r \in HighRequests,
                       job[w] = NoJob, job'[w] # NoJob, job'[w] >= LowPriorityMask,
                       rpc[r] = "ok", transmitted[rid[r]] = 0,
                       rid[r] \in Box("outbox") \ Taken("outgoing")
                PROVE  FALSE
    BY DEF TakesHighFirst
  <2>1. Exists /\ r \in Requests
    BY DEF Box, Requests
  <2>2. rid[r] < LowPriorityMask /\ rid[r] \in Past(Working)
    BY <2>1 DEF UnsentFits
  <2>3. rid[r] \in QueueIds(queue["outgoing"])
    BY <2>2 DEF Past, JobsBut, Taken
  <2>4. GiveJob("outgoing") /\ job'[w] = PopId(queue["outgoing"])
    BY JobsAreGiven
  <2>5. WellFormedQueue(queue["outgoing"]) /\ QueueLen(queue["outgoing"]) > 0
    BY <2>4 DEF IInvEngine, IInvTokens, IInvTypes, QueuesWellFormed, Directions, GiveJob, Matching, Pairable
  <2>6. job'[w] <= rid[r] /\ job'[w] \in Nat /\ rid[r] \in Nat
    <3>1. job'[w] <= rid[r] /\ job'[w] \in QueueIds(queue["outgoing"])
      BY <2>3, <2>4, <2>5, PopTakesSmallest
    <3>2. QueueIds(queue["outgoing"]) \subseteq Nat
      BY <2>5 DEF WellFormedQueue, QueueIds, Elements, Id
    <3>. QED
      BY <2>3, <3>1, <3>2
  <2>. QED
    BY <2>2, <2>6, MaskAssumption
<1>2. DeleteSpec => []IInvEngine
  BY EngineAlways
<1>3. DeleteSpec => []UnsentFits
  BY <1>2, NothingAccepted, UnsentKeeps, PTL DEF DeleteSpec
<1>. QED
  BY <1>1, <1>2, <1>3, PTL DEF DeleteSpec, HighBeforeLowAtFirst

-----------------------------------------------------------------------------
(* No message goes out twice *)

\* A sender with a message has still to send it.
Unsent == {"load", "query", "limited"}

\* What this run has sent: a sender is done with it or still has it in hand.
SentOf == finished["outgoing"]
            \cup {job[w] : w \in {v \in Senders : wpc[v] = "busy" /\ phase[v] \notin Unsent}}

\* What is posted is no message that main or a handler is still to post.
PostsFit ==
    /\ Exists => posted["outgoing"] \subseteq Outgoing(db[Conn])
    /\ mpc = "start" => posted["outgoing"] = {}
    /\ mpc = "outbox" => backlog \cap posted["outgoing"] = {}
    /\ mpc # "serving" => \A r \in Requests : rpc[r] \notin {"found", "missing", "offering"}

CountsFit ==
    \A id \in MsgIds : transmitted[id] <= 1 /\ (transmitted[id] > 0 => id \in SentOf)

IInvOnce == PlacesFit("outgoing") /\ PostsFit /\ CountsFit

LEMMA SentOfIs ==
    /\ \A x : x \in SentOf <=> \/ x \in finished["outgoing"]
                               \/ \E v \in Senders : wpc[v] = "busy" /\ phase[v] \notin Unsent /\ job[v] = x
    /\ \A x : x \in SentOf' <=> \/ x \in finished'["outgoing"]
                                \/ \E v \in Senders : wpc'[v] = "busy" /\ phase'[v] \notin Unsent /\ job'[v] = x
BY DEF SentOf

\* The database forgets no message that goes out.
LEMMA OutgoingStays ==
    ASSUME StoreMoves(FALSE), Exists'
    PROVE  Exists /\ Outgoing(db[Conn]) \subseteq Outgoing(db'[Conn])
<1>2. ASSUME NEW id, NEW add, NEW del, Files(db, db', id, add, del),
             \/ add \in {"outbox", "inbox"} /\ del = ""
             \/ add = "sent" /\ del = "outbox"
             \/ add = "handled" /\ del = "inbox"
      PROVE  Exists /\ Outgoing(db[Conn]) \subseteq Outgoing(db'[Conn])
  BY <1>2 DEF Files, Outgoing, BoxNames, Exists
<1>3. CASE db' = db
  BY <1>3 DEF Exists
<1>4. ASSUME NEW id, NEW add \in {"outbox", "inbox"}, Files(db, db', id, add, "")
      PROVE  Exists /\ Outgoing(db[Conn]) \subseteq Outgoing(db'[Conn])
  BY <1>2, <1>4
<1>5. ASSUME NEW id, Files(db, db', id, "sent", "outbox") \/ Files(db, db', id, "handled", "inbox")
      PROVE  Exists /\ Outgoing(db[Conn]) \subseteq Outgoing(db'[Conn])
  BY <1>2, <1>5
<1>. QED
  BY <1>3, <1>4, <1>5 DEF StoreMoves, Exists

LEMMA OnceKept ==
    ASSUME IInvEngine, StoreMoves(FALSE), IInvOnce, PlacesFit("outgoing")',
           posted'["outgoing"] = posted["outgoing"],
           \/ mpc' = mpc /\ backlog' \subseteq backlog
           \/ mpc = "start" /\ mpc' = "outbox"
           \/ mpc = "outbox" /\ mpc' = "inbox"
           \/ mpc' = "serving",
           \A r \in Requests : rpc'[r] \in {"found", "missing", "offering"} =>
                                   mpc' = "serving" \/ rpc[r] \in {"found", "missing", "offering"},
           transmitted' = transmitted, SentOf \subseteq SentOf'
    PROVE  IInvOnce'
<1>1. PostsFit'
  BY OutgoingStays DEF IInvOnce, PostsFit
<1>2. CountsFit'
  BY DEF IInvOnce, CountsFit
<1>. QED
  BY <1>1, <1>2 DEF IInvOnce

\* The dispatcher and the workers have nothing in hand.
NothingToDo ==
    /\ offered = {} /\ posted = [d \in Directions |-> {}] /\ finished = [d \in Directions |-> {}]
    /\ queue = [d \in Directions |-> EmptyQueue] /\ \A w \in Workers : wpc[w] = "new"

LEMMA NoPlaces == NothingToDo => PlacesFit("outgoing")
<1>. SUFFICES ASSUME NothingToDo PROVE PlacesFit("outgoing")
  OBVIOUS
<1>. USE DEF NothingToDo
<1>1. /\ OnChannel("outgoing") = {} /\ posted["outgoing"] = {} /\ finished["outgoing"] = {}
      /\ queue["outgoing"] = EmptyQueue
  BY DEF OnChannel, Directions
<1>2. QueueIds(EmptyQueue) = {} /\ QueueNoRepeats(EmptyQueue)
  BY EmptyIsWellFormed DEF EmptyQueue, QueueNoRepeats, NoRepeats
<1>3. \A w \in WorkersOf("outgoing") : wpc[w] # "busy"
  BY DEF WorkersOf, Workers
<1>. QED
  BY <1>1, <1>2, <1>3 DEF PlacesFit, Apart, JobsOf, JobUnique

LEMMA OnceStarts == EngineInit => IInvOnce
<1>. SUFFICES ASSUME EngineInit PROVE IInvOnce
  OBVIOUS
<1>1. PlacesFit("outgoing")
  BY NoPlaces DEF EngineInit, Init, NothingToDo
<1>2. PostsFit /\ CountsFit
  BY DEF EngineInit, Init, PostsFit, CountsFit, Directions
<1>. QED
  BY <1>1, <1>2 DEF IInvOnce

LEMMA PlacesOfLoop ==
    ASSUME IInvTokens, PlacesFit("outgoing"), QuietLoopStep
    PROVE  /\ PlacesFit("outgoing")'
           /\ posted'["outgoing"] = posted["outgoing"] /\ finished'["outgoing"] = finished["outgoing"]
<1>. USE DEF dispatcherVars, channelVars, workerVars, stopVars, historyVars
<1>0. /\ queue \in [Directions -> [high : Seq(Id), low : Seq(Id)]]
      /\ wpc \in [Workers -> {"new", "announce", "idle", "busy", "exited"}]
      /\ job \in [Workers -> Id \cup {NoJob}]
      /\ offered \subseteq Id
      /\ \A d \in Directions : /\ available[d] \in Seq(Workers) /\ ready[d] \in Seq(Workers)
                               /\ WellFormedQueue(queue[d])
                               /\ TokensFit(Tokens(d), wpc, d)
      /\ "outgoing" \in Directions /\ "incoming" \in Directions
      /\ \A d \in Directions : WorkersOf(d) \subseteq Workers
      /\ \A v \in WorkersOf("outgoing") : v \notin WorkersOf("incoming")
  BY OneTokenIsTokensFit, SendersAndReceivers, WorkersAssumption
  DEF IInvTokens, IInvTypes, TypeOK, QueuesWellFormed, Directions, WorkersOf
<1>1. posted' = posted /\ finished' = finished
  BY DEF QuietLoopStep, DispatcherStep, DispatcherBegin, MatchEnd, DispatcherExit, StopClose, StopWait,
         ReceiveReady, ReceiveOutgoing, ReceiveIncoming, GiveJob, WorkerBegin, Announce, WorkerExit
<1>2. CASE \/ DispatcherBegin \/ MatchEnd \/ DispatcherExit \/ StopClose \/ StopWait \/ ReceiveIncoming
           \/ \E d \in Directions : ReceiveReady(d)
  <2>1. UNCHANGED <<offered, wpc, job>> /\ queue'["outgoing"] = queue["outgoing"]
    BY <1>0, <1>2 DEF DispatcherBegin, MatchEnd, DispatcherExit, StopClose, StopWait, ReceiveReady,
                ReceiveIncoming
  <2>2. SameJobs("outgoing") /\ OnChannel("outgoing")' = OnChannel("outgoing")
    BY <2>1 DEF SameJobs, OnChannel
  <2>. QED
    BY <1>0, <1>1, <2>1, <2>2, PlacesKept
<1>3. ASSUME NEW d \in Directions, NEW v \in WorkersOf(d), WorkerBegin(v) \/ Announce(d, v) \/ WorkerExit(v)
      PROVE  PlacesFit("outgoing")'
  <2>1. /\ wpc[v] # "busy" /\ UNCHANGED <<offered, queue, job>>
        /\ \E to \in {"announce", "idle", "exited"} : wpc' = [wpc EXCEPT ![v] = to]
    BY <1>3 DEF WorkerBegin, Announce, WorkerExit
  <2>2. \A w \in Workers : wpc'[w] = "busy" <=> wpc[w] = "busy"
    BY <1>0, <2>1
  <2>3. SameJobs("outgoing") /\ OnChannel("outgoing")' = OnChannel("outgoing")
    BY <1>0, <2>1, <2>2 DEF SameJobs, OnChannel
  <2>. QED
    BY <1>0, <1>1, <2>1, <2>3, PlacesKept
<1>4. ASSUME NEW id \in offered, ReceiveOutgoing(id) PROVE PlacesFit("outgoing")'
  <2>1. offered' = offered \ {id} /\ UNCHANGED <<wpc, job>>
        /\ queue'["outgoing"] = Insert(queue["outgoing"], id)
    BY <1>0, <1>4 DEF ReceiveOutgoing
  <2>2. /\ SameJobs("outgoing") /\ id \in OnChannel("outgoing") /\ id \in Id
        /\ OnChannel("outgoing")' = OnChannel("outgoing") \ {id}
    BY <1>0, <2>1 DEF SameJobs, OnChannel
  <2>. QED
    BY <1>0, <1>1, <2>1, <2>2, PlacesQueued
<1>5. ASSUME NEW d \in Directions, GiveJob(d) PROVE PlacesFit("outgoing")'
  <2>0. PICK w : w = Head(available[d])
    OBVIOUS
  <2>1. /\ available[d] # <<>> /\ QueueLen(queue[d]) > 0
        /\ wpc[w] = "idle" /\ wpc' = [wpc EXCEPT ![w] = "busy"]
        /\ job' = [job EXCEPT ![w] = PopId(queue[d])]
        /\ queue' = [queue EXCEPT ![d] = PopRest(@)] /\ offered' = offered
    BY <1>5, <2>0 DEF GiveJob, Matching, Pairable
  <2>2. w \in WorkersOf(d) /\ w \in Workers
    <3>0. available[d] \in Seq(Workers) /\ available[d] # <<>> /\ ready[d] \in Seq(Workers)
      BY <1>0, <2>1
    <3>1. 1 \in DOMAIN Tokens(d) /\ Tokens(d)[1] = Head(available[d])
      BY <3>0, HeadOfConcat DEF Tokens
    <3>. QED
      BY <1>0, <2>0, <3>1 DEF TokensFit, Elements
  <2>3. OnChannel("outgoing")' = OnChannel("outgoing")
    BY <2>1 DEF OnChannel
  <2>4. CASE d = "outgoing"
    <3>1. /\ wpc[w] # "busy" /\ wpc'[w] = "busy" /\ job'[w] = PopId(queue[d])
          /\ \A v \in WorkersOf(d) : v # w => wpc'[v] = wpc[v] /\ job'[v] = job[v]
          /\ queue'[d] = PopRest(queue[d])
      BY <1>0, <2>1, <2>2
    <3>. QED
      BY <1>0, <1>1, <2>1, <2>2, <2>3, <2>4, <3>1, PlacesGiven
  <2>5. CASE d # "outgoing"
    <3>1. \A v \in WorkersOf("outgoing") : v # w
      BY <1>0, <2>2, <2>5 DEF Directions
    <3>2. SameJobs("outgoing") /\ queue'["outgoing"] = queue["outgoing"]
      BY <1>0, <2>1, <2>5, <3>1 DEF SameJobs
    <3>. QED
      BY <1>0, <1>1, <2>3, <3>2, PlacesKept
  <2>. QED
    BY <2>4, <2>5
<1>. QED
  BY <1>1, <1>2, <1>3, <1>4, <1>5 DEF QuietLoopStep, DispatcherStep

LEMMA OnceOfLoop ==
    ASSUME IInvEngine, StoreMoves(FALSE), IInvOnce, QuietLoopStep,
           UNCHANGED <<phase, mpc, backlog, rpc, transmitted>>
    PROVE  IInvOnce'
<1>1. IInvTokens /\ PlacesFit("outgoing") /\ Senders \subseteq Workers
  BY DEF IInvEngine, IInvOnce, Workers
<1>2. /\ PlacesFit("outgoing")'
      /\ posted'["outgoing"] = posted["outgoing"] /\ finished'["outgoing"] = finished["outgoing"]
  BY <1>1, PlacesOfLoop
<1>3. SentOf \subseteq SentOf'
  BY <1>1, <1>2, BusyStays, SentOfIs
<1>. QED
  BY <1>2, <1>3, OnceKept

\* The bodies of the loops but for the sending itself.
LEMMA OnceOfBody ==
    ASSUME IInvEngine, StoreMoves(FALSE), IInvOnce, NEW w \in Workers,
           \/ w \in Senders /\ (EchoMark(w) \/ EchoWrite(w) \/ EchoPost(w))
           \/ w \in Receivers /\ (HttpForward(w) \/ HttpMark(w))
    PROVE  IInvOnce'
<1>. USE DEF mainVars, requestVars, outsideVars, countVars
<1>0. /\ EngineTypes /\ Senders \subseteq Workers
      /\ wpc \in [Workers -> {"new", "announce", "idle", "busy", "exited"}]
      /\ job \in [Workers -> Id \cup {NoJob}] /\ finished \in [Directions -> SUBSET Id]
      /\ posted \in [Directions -> SUBSET Id]
      /\ \A v \in Receivers : v \notin Senders
      /\ PlacesFit("outgoing") /\ "outgoing" \in Directions /\ WorkersOf("outgoing") = Senders
  BY WorkersAssumption DEF IInvEngine, IInvTokens, IInvTypes, TypeOK, Workers, IInvOnce, Directions, WorkersOf
<1>1. /\ \E to \in {"load", "mark", "echo", "post"} : phase' = [phase EXCEPT ![w] = to]
      /\ UNCHANGED <<queue, offered, rpc, mpc, backlog, transmitted>>
      /\ posted'["outgoing"] = posted["outgoing"]
  BY <1>0 DEF EchoMark, EchoWrite, EchoPost, HttpForward, HttpMark, SendIncoming, vars, dispatcherVars, channelVars,
              historyVars
<1>2. \A v \in Workers \ {w} : wpc'[v] = wpc[v] /\ job'[v] = job[v] /\ phase'[v] = phase[v]
  BY <1>0, <1>1 DEF EchoMark, EchoWrite, EchoPost, HttpForward, HttpMark, FinishJob, vars, workerVars, EngineTypes
<1>3. OnChannel("outgoing")' = OnChannel("outgoing") /\ queue'["outgoing"] = queue["outgoing"]
  BY <1>1 DEF OnChannel
<1>4. CASE ~(w \in Senders /\ EchoPost(w))
  <2>1. /\ finished'["outgoing"] = finished["outgoing"]
        /\ w \in Senders => wpc'[w] = wpc[w] /\ job'[w] = job[w]
        /\ w \in Senders => phase'[w] \notin Unsent
    BY <1>0, <1>4 DEF EchoMark, EchoWrite, HttpForward, HttpMark, FinishJob, vars, workerVars,
                      historyVars, EngineTypes, Unsent
  <2>2. \A v \in Senders : wpc'[v] = wpc[v] /\ job'[v] = job[v] /\ (phase[v] \notin Unsent => phase'[v] \notin Unsent)
    BY <1>0, <1>2, <2>1
  <2>3. PlacesFit("outgoing")'
    BY <1>0, <1>1, <1>3, <2>1, <2>2, PlacesKept DEF SameJobs
  <2>4. SentOf \subseteq SentOf'
    BY <2>1, <2>2, SentOfIs
  <2>. QED
    BY <1>1, <2>3, <2>4, OnceKept
<1>5. CASE w \in Senders /\ EchoPost(w)
  <2>1. /\ wpc[w] = "busy" /\ wpc'[w] # "busy"
        /\ finished'["outgoing"] = finished["outgoing"] \cup {job[w]}
    BY <1>0, <1>5 DEF EchoPost, FinishJob
  <2>2. PlacesFit("outgoing")'
    <3>1. \A v \in Senders : v # w => wpc'[v] = wpc[v] /\ job'[v] = job[v]
      BY <1>0, <1>2
    <3>. QED
      BY <1>0, <1>1, <1>3, <1>5, <2>1, <3>1, PlacesFinished
  <2>3. SentOf \subseteq SentOf'
    <3>1. \A v \in Senders : v # w => wpc'[v] = wpc[v] /\ job'[v] = job[v] /\ phase'[v] = phase[v]
      BY <1>0, <1>2
    <3>. QED
      BY <2>1, <3>1, SentOfIs
  <2>. QED
    BY <1>1, <2>2, <2>3, OnceKept
<1>. QED
  BY <1>4, <1>5

LEMMA OnceOfSend ==
    ASSUME IInvEngine, StoreMoves(FALSE), IInvOnce, NEW w \in Senders, EchoSend(w)
    PROVE  IInvOnce'
<1>. USE DEF mainVars, requestVars, outsideVars, countVars
<1>0. /\ EngineTypes /\ DbFits(db) /\ w \in Workers /\ Senders \subseteq Workers
      /\ PlacesFit("outgoing") /\ "outgoing" \in Directions /\ WorkersOf("outgoing") = Senders
  BY DEF IInvEngine, Workers, IInvOnce, Directions, WorkersOf
<1>1. /\ wpc[w] = "busy" /\ phase[w] = "load" /\ phase' = [phase EXCEPT ![w] = "mark"]
      /\ UNCHANGED <<queue, offered, wpc, job, finished, posted, db, rpc, mpc, backlog>>
      /\ transmitted' = IF MsgFromId(db, Conn, job[w]) = BlankMsg THEN transmitted
                        ELSE [transmitted EXCEPT ![MsgFromId(db, Conn, job[w]).id] = @ + 1]
  BY DEF EchoSend, vars, dispatcherVars, channelVars, workerVars, historyVars
<1>2. job[w] \notin SentOf
  <2>1. job[w] \in JobsOf("outgoing") /\ job[w] \notin finished["outgoing"]
    <3>1. job[w] \in JobsOf("outgoing")
      BY <1>0, <1>1 DEF JobsOf
    <3>. QED
      BY <1>0, <3>1 DEF PlacesFit, Apart
  <2>2. \A v \in Senders : wpc[v] = "busy" /\ job[v] = job[w] => v = w
    BY <1>0, <1>1 DEF PlacesFit, JobUnique
  <2>. QED
    BY <1>1, <2>1, <2>2, SentOfIs DEF Unsent
<1>3. \A x : x \in SentOf' <=> x \in SentOf \/ x = job[w]
  <2>1. \A v \in Senders : phase'[v] \notin Unsent <=> phase[v] \notin Unsent \/ v = w
    BY <1>0, <1>1 DEF EngineTypes, Unsent
  <2>. QED
    BY <1>1, <2>1, SentOfIs
<1>4. \A id \in MsgIds : transmitted'[id] = transmitted[id]
                         \/ (id = job[w] /\ transmitted'[id] = transmitted[id] + 1)
  <2>1. MsgFromId(db, Conn, job[w]) # BlankMsg => MsgFromId(db, Conn, job[w]).id = job[w]
    BY <1>0, LoadedMessage
  <2>. QED
    BY <1>0, <1>1, <2>1 DEF EngineTypes
<1>5. CountsFit'
  <2>. SUFFICES ASSUME NEW id \in MsgIds
                PROVE  transmitted'[id] <= 1 /\ (transmitted'[id] > 0 => id \in SentOf')
    BY DEF CountsFit
  <2>1. transmitted[id] <= 1 /\ (transmitted[id] > 0 => id \in SentOf) /\ transmitted[id] \in Nat
    BY <1>0 DEF IInvOnce, CountsFit, EngineTypes
  <2>2. CASE id = job[w]
    BY <1>2, <1>3, <1>4, <2>1, <2>2
  <2>3. CASE id # job[w]
    BY <1>3, <1>4, <2>1, <2>3
  <2>. QED
    BY <2>2, <2>3
<1>6. PlacesFit("outgoing")'
  <2>1. SameJobs("outgoing") /\ OnChannel("outgoing")' = OnChannel("outgoing")
    BY <1>1 DEF SameJobs, OnChannel
  <2>. QED
    BY <1>0, <1>1, <2>1, PlacesKept
<1>7. PostsFit'
  BY <1>1 DEF IInvOnce, PostsFit, Exists
<1>. QED
  BY <1>5, <1>6, <1>7 DEF IInvOnce

\* A message that was not posted yet is.
LEMMA PlacesOfOffer ==
    ASSUME IInvTokens, PlacesFit("outgoing"), NEW id, id \notin posted["outgoing"], OfferOutgoing(id),
           UNCHANGED <<queue, wpc, job, finished>>
    PROVE  PlacesFit("outgoing")' /\ posted'["outgoing"] = posted["outgoing"] \cup {id}
<1>1. "outgoing" \in Directions /\ posted \in [Directions -> SUBSET Id]
  BY DEF Directions, IInvTokens, IInvTypes, TypeOK
<1>2. /\ posted'["outgoing"] = posted["outgoing"] \cup {id}
      /\ OnChannel("outgoing")' = OnChannel("outgoing") \cup {id} /\ SameJobs("outgoing")
  BY <1>1 DEF OfferOutgoing, OnChannel, SameJobs
<1>. QED
  BY <1>1, <1>2, PlacesPosted

LEMMA OnceOfPut ==
    ASSUME IInvEngine, StoreMoves(FALSE), IInvOnce, NEW r \in Requests, PutMessage(r)
    PROVE  IInvOnce'
<1>. USE DEF mainVars, requestVars, outsideVars, countVars, bodyVars
<1>0. EngineTypes /\ IInvTokens /\ PlacesFit("outgoing") /\ PostsFit
  BY DEF IInvEngine, IInvOnce
<1>1. /\ UNCHANGED <<queue, wpc, job, phase, finished, mpc, backlog, transmitted>>
      /\ rpc[r] \in {"found", "missing"}
  BY DEF PutMessage, dispatcherVars, workerVars
<1>2. PICK o \in SaveOutcomes(db, NewMsg(Conn, r, PriorityOf(r)), "outbox", "") :
               /\ Transact(o) /\ Written(db, o, r, PriorityOf(r), "outbox")
               /\ rid' = [rid EXCEPT ![r] = o.msg.id]
               /\ \/ /\ o.err \/ rpc[r] = "missing"
                     /\ rpc' = [rpc EXCEPT ![r] = "error"] /\ UNCHANGED <<offered, posted>>
                  \/ /\ ~o.err /\ rpc[r] = "found"
                     /\ rpc' = [rpc EXCEPT ![r] = "offering"] /\ OfferOutgoing(o.msg.id)
  BY PutOutcome
<1>3. mpc' = "serving"
  BY <1>0, <1>1 DEF PostsFit
<1>4. SentOf' = SentOf
  BY <1>1 DEF SentOf
<1>5. CASE UNCHANGED <<offered, posted>>
  <2>1. SameJobs("outgoing") /\ OnChannel("outgoing")' = OnChannel("outgoing") /\ "outgoing" \in Directions
    BY <1>1, <1>5 DEF SameJobs, OnChannel, Directions
  <2>2. PlacesFit("outgoing")'
    BY <1>0, <1>1, <1>5, <2>1, PlacesKept
  <2>. QED
    BY <1>1, <1>3, <1>4, <1>5, <2>2, OnceKept
<1>6. CASE ~o.err /\ OfferOutgoing(o.msg.id)
  <2>1. /\ Files(db, db', o.msg.id, "outbox", "") /\ o.msg.id \notin Filed(db[Conn])
    BY <1>2, <1>6 DEF Written, Transact
  <2>2. /\ Exists /\ Outgoing(db[Conn]) \cup {o.msg.id} \subseteq Outgoing(db'[Conn])
        /\ o.msg.id \notin Outgoing(db[Conn])
    BY <2>1 DEF Files, Outgoing, Filed, Exists, BoxNames
  <2>3. o.msg.id \notin posted["outgoing"]
    BY <1>0, <2>2 DEF PostsFit
  <2>4. PlacesFit("outgoing")' /\ posted'["outgoing"] = posted["outgoing"] \cup {o.msg.id}
    BY <1>0, <1>1, <1>6, <2>3, PlacesOfOffer
  <2>5. PostsFit'
    BY <1>0, <1>3, <2>2, <2>4 DEF PostsFit
  <2>6. CountsFit'
    BY <1>1, <1>4 DEF IInvOnce, CountsFit
  <2>. QED
    BY <2>4, <2>5, <2>6 DEF IInvOnce
<1>. QED
  BY <1>2, <1>5, <1>6

LEMMA OnceOfDispatch ==
    ASSUME IInvEngine, StoreMoves(FALSE), IInvOnce, NEW id \in backlog, DispatchOutgoing(id)
    PROVE  IInvOnce'
<1>. USE DEF requestVars, outsideVars, countVars, bodyVars
<1>0. IInvTokens /\ PlacesFit("outgoing") /\ PostsFit /\ HandsFit
  BY DEF IInvEngine, IInvOnce
<1>1. /\ UNCHANGED <<queue, wpc, job, phase, finished, db, mpc, rpc, transmitted>>
      /\ mpc = "outbox" /\ OfferOutgoing(id) /\ backlog' = backlog \ {id}
  BY DEF DispatchOutgoing, dispatcherVars, workerVars
<1>2. id \notin posted["outgoing"]
  BY <1>0, <1>1 DEF PostsFit
<1>3. PlacesFit("outgoing")' /\ posted'["outgoing"] = posted["outgoing"] \cup {id}
  BY <1>0, <1>1, <1>2, PlacesOfOffer
<1>4. Exists => id \in Outgoing(db[Conn])
  BY <1>0, <1>1 DEF HandsFit, OnTheWay
<1>5. PostsFit'
  BY <1>0, <1>1, <1>3, <1>4 DEF PostsFit, Exists
<1>6. SentOf' = SentOf
  BY <1>1 DEF SentOf
<1>7. CountsFit'
  BY <1>1, <1>6 DEF IInvOnce, CountsFit
<1>. QED
  BY <1>3, <1>5, <1>7 DEF IInvOnce

LEMMA OnceOfOutside ==
    ASSUME IInvEngine, StoreMoves(FALSE), IInvOnce,
           \/ ReadOutbox \/ ReadInbox \/ StartServer \/ ForgetEngine \/ EndDelete
           \/ \E id \in backlog : DispatchIncoming(id)
           \/ \E r \in Requests : LookUp(r) \/ Respond(r)
           \/ UNCHANGED allVars
    PROVE  IInvOnce'
<1>. USE DEF mainVars, requestVars, outsideVars, countVars, bodyVars
<1>0. EngineTypes /\ PlacesFit("outgoing") /\ posted \in [Directions -> SUBSET Id] /\ "outgoing" \in Directions
  BY DEF IInvEngine, IInvOnce, IInvTokens, IInvTypes, TypeOK, Directions
<1>1. /\ UNCHANGED <<queue, offered, wpc, job, finished, phase, transmitted>>
      /\ posted'["outgoing"] = posted["outgoing"]
  BY <1>0 DEF ReadOutbox, ReadInbox, StartServer, ForgetEngine, EndDelete, LookUp, Respond, DispatchIncoming,
              SendIncoming, allVars, engineVars, vars, dispatcherVars, channelVars, workerVars, historyVars
<1>2. PlacesFit("outgoing")'
  <2>1. SameJobs("outgoing") /\ OnChannel("outgoing")' = OnChannel("outgoing")
    BY <1>1 DEF SameJobs, OnChannel
  <2>. QED
    BY <1>0, <1>1, <2>1, PlacesKept
<1>3. SentOf' = SentOf
  BY <1>1 DEF SentOf
<1>4. \/ mpc' = mpc /\ backlog' \subseteq backlog
      \/ mpc = "start" /\ mpc' = "outbox"
      \/ mpc = "outbox" /\ mpc' = "inbox"
      \/ mpc' = "serving"
  BY DEF ReadOutbox, ReadInbox, StartServer, ForgetEngine, EndDelete, LookUp, Respond, DispatchIncoming,
         allVars, engineVars
<1>5. \A q \in Requests : rpc'[q] \in {"found", "missing", "offering"} =>
                              mpc' = "serving" \/ rpc[q] \in {"found", "missing", "offering"}
  <2>1. ASSUME NEW r \in Requests, LookUp(r) PROVE mpc' = "serving"
    BY <2>1 DEF LookUp
  <2>2. ASSUME NEW r \in Requests, Respond(r)
        PROVE  \A q \in Requests : rpc'[q] \in {"found", "missing", "offering"} => rpc'[q] = rpc[q]
    BY <1>0, <2>2 DEF Respond, EngineTypes
  <2>3. rpc' = rpc \/ \E r \in Requests : LookUp(r) \/ Respond(r)
    BY DEF ReadOutbox, ReadInbox, StartServer, ForgetEngine, EndDelete, DispatchIncoming, allVars, engineVars
  <2>. QED
    BY <2>1, <2>2, <2>3
<1>. QED
  BY <1>1, <1>2, <1>3, <1>4, <1>5, OnceKept

\* A step that touches neither the outgoing messages nor who is at work on them.
LEMMA OnceOfOthers ==
    ASSUME IInvEngine, StoreMoves(FALSE), IInvOnce,
           UNCHANGED <<queue, offered, wpc, job, finished, phase, transmitted, mpc, backlog, rpc>>,
           posted'["outgoing"] = posted["outgoing"]
    PROVE  IInvOnce'
<1>1. SameJobs("outgoing") /\ OnChannel("outgoing")' = OnChannel("outgoing") /\ "outgoing" \in Directions
  BY DEF SameJobs, OnChannel, Directions
<1>2. PlacesFit("outgoing")'
  BY <1>1, PlacesKept DEF IInvOnce
<1>3. SentOf' = SentOf
  BY DEF SentOf
<1>. QED
  BY <1>2, <1>3, OnceKept

LEMMA OnceOfDeath ==
    ASSUME IInvEngine, Dies
    PROVE  IInvOnce'
<1>0. EngineTypes /\ Dies
  BY DEF IInvEngine
<1>1. PlacesFit("outgoing")'
  <2>1. NothingToDo'
    BY <1>0 DEF Dies, NothingToDo
  <2>2. NothingToDo' => PlacesFit("outgoing")'
    BY NoPlaces, PTL
  <2>. QED
    BY <2>1, <2>2
<1>2. PostsFit'
  <2>1. posted'["outgoing"] = {} /\ mpc' = "start" /\ "outgoing" \in Directions
    BY <1>0 DEF Dies, Directions
  <2>2. \A r \in Requests : rpc'[r] \notin {"found", "missing", "offering"}
    BY <1>0 DEF Dies, EngineTypes
  <2>. QED
    BY <2>1, <2>2 DEF PostsFit
<1>3. CountsFit'
  <2>1. \A id \in MsgIds : transmitted'[id] = 0
    BY <1>0 DEF Dies
  <2>. QED
    BY <2>1 DEF CountsFit
<1>. QED
  BY <1>1, <1>2, <1>3 DEF IInvOnce

LEMMA OnceKeeps == IInvEngine /\ IInvOnce /\ [EngineNext]_allVars => IInvOnce'
<1>. SUFFICES ASSUME IInvEngine, IInvOnce, [EngineNext]_allVars PROVE IInvOnce'
  OBVIOUS
<1>. USE DEF mainVars, requestVars, outsideVars, countVars, bodyVars
<1>0. StoreMoves(FALSE)
  <2>1. StoreMoves(IInvDeeds)
    BY StoreMovesOnly
  <2>. QED
    BY <2>1 DEF StoreMoves
<1>1. CASE EngineNext
  <2>1. /\ "outgoing" \in Directions /\ "incoming" \in Directions
        /\ Senders \subseteq Workers /\ Receivers \subseteq Workers
        /\ WorkersOf("outgoing") = Senders /\ WorkersOf("incoming") = Receivers
    BY DEF Directions, WorkersOf, Workers
  <2>2. CASE \/ DispatcherRuns \/ BeginDelete \/ WaitForWorkers
             \/ \E d \in Directions : \E w \in WorkersOf(d) : WorkerRuns(d, w)
    <3>1. QuietLoopStep /\ UNCHANGED <<phase, mpc, backlog, rpc, transmitted>>
      BY <2>2 DEF DispatcherRuns, BeginDelete, WaitForWorkers, WorkerRuns, QuietLoopStep, engineVars
    <3>. QED
      BY <1>0, <3>1, OnceOfLoop
  <2>3. ASSUME NEW w \in Senders, SenderStep(w) PROVE IInvOnce'
    <3>1. CASE WorkerRuns("outgoing", w)
      BY <2>1, <2>2, <3>1
    <3>2. CASE EchoSend(w)
      BY <1>0, <3>2, OnceOfSend
    <3>3. CASE EchoMark(w) \/ EchoWrite(w) \/ EchoPost(w)
      BY <1>0, <2>1, <3>3, OnceOfBody
    <3>. QED
      BY <2>3, <3>1, <3>2, <3>3 DEF SenderStep
  <2>4. ASSUME NEW w \in Receivers, ReceiverStep(w) PROVE IInvOnce'
    <3>1. CASE WorkerRuns("incoming", w)
      BY <2>1, <2>2, <3>1
    <3>2. CASE HttpForward(w) \/ HttpMark(w)
      BY <1>0, <2>1, <3>2, OnceOfBody
    <3>. QED
      BY <2>4, <3>1, <3>2 DEF ReceiverStep
  <2>5. CASE MainStep
    BY <1>0, <2>5, OnceOfOutside, OnceOfDispatch DEF MainStep
  <2>6. ASSUME NEW r \in Requests, LookUp(r) \/ PutMessage(r) \/ Respond(r) PROVE IInvOnce'
    BY <1>0, <2>6, OnceOfOutside, OnceOfPut
  <2>7. CASE ForgetEngine \/ EndDelete
    BY <1>0, <2>7, OnceOfOutside
  <2>8. CASE Crash
    BY <2>8, OnceOfDeath DEF Crash
  <2>. QED
    BY <1>1, <2>2, <2>3, <2>4, <2>5, <2>6, <2>7, <2>8 DEF EngineNext, EngineRun, DeleteStep
<1>2. CASE UNCHANGED allVars
  BY <1>0, <1>2, OnceOfOutside
<1>. QED
  BY <1>1, <1>2

\* A message is in one place, a new one gets an id that is in no box, and main
\* dispatches what it reads from the outbox before the server takes requests.
LEMMA OnceAlways == DeleteSpec => []IInvOnce
BY EngineAlways, OnceStarts, OnceKeeps, PTL DEF DeleteSpec

-----------------------------------------------------------------------------
(* How often a message is posted to the url *)

\* A set of workers that one joins, or not, and one that one leaves, or not.
LEMMA CountOfJoin ==
    ASSUME NEW S, IsFiniteSet(S), NEW w, NEW b, NEW T, T \subseteq IF b THEN S \cup {w} ELSE S
    PROVE  Cardinality(T) <= Cardinality(S) + OneIf(b)
<1>1. /\ Cardinality(S) \in Nat /\ IsFiniteSet(S \cup {w})
      /\ Cardinality(S \cup {w}) = IF w \in S THEN Cardinality(S) ELSE Cardinality(S) + 1
  BY FS_AddElement, FS_CardinalityType
<1>2. CASE b
  <2>1. Cardinality(T) <= Cardinality(S \cup {w}) /\ Cardinality(T) \in Nat
    BY <1>1, <1>2, FS_Subset, FS_CardinalityType
  <2>. QED
    BY <1>1, <1>2, <2>1 DEF OneIf
<1>3. CASE ~b
  <2>1. Cardinality(T) <= Cardinality(S) /\ Cardinality(T) \in Nat
    BY <1>3, FS_Subset, FS_CardinalityType
  <2>. QED
    BY <1>1, <1>3, <2>1 DEF OneIf
<1>. QED
  BY <1>2, <1>3

LEMMA CountOfLeave ==
    ASSUME NEW S, IsFiniteSet(S), NEW w, NEW b, NEW T, T \subseteq S, b => w \in S \ T
    PROVE  Cardinality(T) + OneIf(b) <= Cardinality(S)
<1>1. IsFiniteSet(T) /\ Cardinality(T) \in Nat /\ Cardinality(S) \in Nat /\ Cardinality(T) <= Cardinality(S)
  BY FS_Subset, FS_CardinalityType
<1>2. CASE b
  <2>1. Cardinality(T \cup {w}) = Cardinality(T) + 1
    BY <1>1, <1>2, FS_AddElement
  <2>2. Cardinality(T \cup {w}) <= Cardinality(S)
    BY <1>2, FS_Subset
  <2>. QED
    BY <1>1, <1>2, <2>1, <2>2 DEF OneIf
<1>3. CASE ~b
  BY <1>1, <1>3 DEF OneIf
<1>. QED
  BY <1>2, <1>3

\* Receivers about to post the message, senders about to hand it to the dispatcher.
Loading(id) == {w \in Receivers : wpc[w] = "busy" /\ phase[w] = "load" /\ job[w] = id}
Posting(id) == {w \in Senders : phase[w] = "post" /\ held[w].id = id}

\* Main still has to dispatch the message.
Waiting(id) == OneIf(mpc = "inbox" /\ id \in backlog)

\* How often the message is on its way to the url.
Copies(id) ==
    Count(chIncoming, id) + CountQueue(queue["incoming"], id)
        + Cardinality(Loading(id)) + Cardinality(Posting(id))
        + Waiting(id)

\* An id is handed over once when it is saved and read once more from the inbox
\* if that was before main did; each failed transaction leaves it to another
\* message.
Allowed(id) ==
    faults + OneIf(id \in raced)
        + OneIf(mpc \in {"inbox", "serving"} /\ (Exists => id \in Filed(db[Conn])))

CopiesFit == \A id \in MsgIds : Copies(id) + forwarded[id] <= Allowed(id)
RacedFits == Exists => raced \subseteq Filed(db[Conn])

IInvCopies == CopiesFit /\ RacedFits

PartsFit ==
    /\ chIncoming \in Seq(Id) /\ WellFormedQueue(queue["incoming"])
    /\ \A id : /\ Count(chIncoming, id) \in Nat /\ CountQueue(queue["incoming"], id) \in Nat
               /\ IsFiniteSet(Loading(id)) /\ Cardinality(Loading(id)) \in Nat
               /\ IsFiniteSet(Posting(id)) /\ Cardinality(Posting(id)) \in Nat
               /\ Waiting(id) \in Nat
    /\ \A id \in MsgIds : forwarded[id] \in Nat /\ id \in Id
    /\ faults \in Nat

LEMMA PartsAlwaysFit == IInvEngine => PartsFit
<1>. SUFFICES ASSUME IInvEngine PROVE PartsFit
  OBVIOUS
<1>1. /\ chIncoming \in Seq(Id) /\ WellFormedQueue(queue["incoming"])
      /\ forwarded \in [MsgIds -> Nat] /\ faults \in Nat
  BY EngineAssumption DEF IInvEngine, IInvTokens, IInvTypes, TypeOK, QueuesWellFormed, Directions, EngineTypes
<1>2. ASSUME NEW id
      PROVE  Count(chIncoming, id) \in Nat /\ CountQueue(queue["incoming"], id) \in Nat
  <2>1. queue["incoming"].high \in Seq(Id) /\ queue["incoming"].low \in Seq(Id)
    BY <1>1 DEF WellFormedQueue
  <2>2. Count(queue["incoming"].high, id) \in Nat /\ Count(queue["incoming"].low, id) \in Nat
    BY <2>1, CountIsNat
  <2>3. Count(chIncoming, id) \in Nat
    BY <1>1, CountIsNat
  <2>. QED
    BY <2>2, <2>3 DEF CountQueue
<1>3. ASSUME NEW id PROVE IsFiniteSet(Loading(id)) /\ IsFiniteSet(Posting(id))
  <2>1. Loading(id) \in SUBSET Receivers /\ Posting(id) \in SUBSET Senders
    BY DEF Loading, Posting
  <2>. QED
    BY <2>1, WorkersAssumption, FS_Subset
<1>4. \A id : Cardinality(Loading(id)) \in Nat /\ Cardinality(Posting(id)) \in Nat
  BY <1>3, FS_CardinalityType
<1>5. \A id : Waiting(id) \in Nat
  BY DEF Waiting, OneIf
<1>. QED
  BY <1>1, <1>2, <1>3, <1>4, <1>5, IdsAreNumbers DEF PartsFit

SumsFit == \A id \in MsgIds : Copies(id) + forwarded[id] \in Nat /\ Allowed(id) \in Nat

LEMMA SumsAlwaysFit == PartsFit => SumsFit
<1>. SUFFICES ASSUME PartsFit, NEW id \in MsgIds
              PROVE  Copies(id) + forwarded[id] \in Nat /\ Allowed(id) \in Nat
  BY DEF SumsFit
<1>1. \A b : OneIf(b) \in Nat
  BY DEF OneIf
<1>2. Copies(id) + forwarded[id] \in Nat
  BY <1>1 DEF PartsFit, Copies
<1>3. Allowed(id) \in Nat
  BY <1>1 DEF PartsFit, Allowed
<1>. QED
  BY <1>2, <1>3

LEMMA PartsBoth ==
    ASSUME IInvEngine, [EngineNext]_allVars
    PROVE  PartsFit /\ PartsFit'
<1>1. IInvEngine'
  BY EngineKeeps
<1>2. IInvEngine' => PartsFit'
  BY PartsAlwaysFit, PTL
<1>. QED
  BY <1>1, <1>2, PartsAlwaysFit

LEMMA SumsBoth ==
    ASSUME IInvEngine, [EngineNext]_allVars, NEW id \in MsgIds
    PROVE  /\ Copies(id) + forwarded[id] \in Nat /\ Allowed(id) \in Nat
           /\ Copies(id)' + forwarded'[id] \in Nat /\ Allowed(id)' \in Nat
<1>1. PartsFit' => SumsFit'
  BY SumsAlwaysFit, PTL
<1>. QED
  BY <1>1, PartsBoth, SumsAlwaysFit DEF SumsFit

\* Without a crash more is allowed after every step.
AllowedGrows == \A id \in MsgIds : Allowed(id) <= Allowed(id)'

MainMovesOn ==
    /\ mpc \in {"inbox", "serving"} => mpc' \in {"inbox", "serving"}
    /\ faults' \in {faults, faults + 1} /\ raced \subseteq raced'

LEMMA FiledStays ==
    ASSUME IInvEngine, [EngineNext]_allVars, Exists'
    PROVE  Exists /\ Filed(db[Conn]) \subseteq Filed(db'[Conn])
<1>1. StoreMoves(IInvDeeds)
  BY StoreMovesOnly
<1>2. ASSUME NEW id, NEW add, NEW del, Files(db, db', id, add, del),
             \/ add \in {"outbox", "inbox"} /\ del = ""
             \/ add = "sent" /\ del = "outbox"
             \/ add = "handled" /\ del = "inbox"
      PROVE  Exists /\ Filed(db[Conn]) \subseteq Filed(db'[Conn])
  BY <1>2 DEF Files, Filed, Outgoing, BoxNames, Exists
<1>3. CASE db' = db
  BY <1>3 DEF Exists
<1>4. ASSUME NEW id, NEW add \in {"outbox", "inbox"}, Files(db, db', id, add, "")
      PROVE  Exists /\ Filed(db[Conn]) \subseteq Filed(db'[Conn])
  BY <1>2, <1>4
<1>5. ASSUME NEW id, Files(db, db', id, "sent", "outbox") \/ Files(db, db', id, "handled", "inbox")
      PROVE  Exists /\ Filed(db[Conn]) \subseteq Filed(db'[Conn])
  BY <1>2, <1>5
<1>. QED
  BY <1>1, <1>3, <1>4, <1>5 DEF StoreMoves, Exists

LEMMA MoreIsAllowed ==
    ASSUME IInvEngine, [EngineNext]_allVars, MainMovesOn
    PROVE  AllowedGrows
<1>. SUFFICES ASSUME NEW id \in MsgIds PROVE Allowed(id) <= Allowed(id)'
  BY DEF AllowedGrows
<1>1. faults \in Nat
  BY PartsBoth DEF PartsFit
<1>2. /\ id \in raced => id \in raced'
      /\ mpc \in {"inbox", "serving"} /\ (Exists => id \in Filed(db[Conn]))
            => mpc' \in {"inbox", "serving"} /\ (Exists' => id \in Filed(db'[Conn]))
  BY FiledStays DEF MainMovesOn
<1>3. faults' \in Nat /\ faults <= faults'
  BY <1>1 DEF MainMovesOn
<1>4. OneIf(id \in raced) <= OneIf(id \in raced')
  BY <1>2 DEF OneIf
<1>. DEFINE a == mpc \in {"inbox", "serving"} /\ (Exists => id \in Filed(db[Conn]))
            b == mpc' \in {"inbox", "serving"} /\ (Exists' => id \in Filed(db'[Conn]))
<1>5. OneIf(a) <= OneIf(b)
  <2>1. a => b
    BY <1>2
  <2>. HIDE DEF a, b
  <2>. QED
    BY <2>1 DEF OneIf
<1>6. /\ Allowed(id) = faults + OneIf(id \in raced) + OneIf(a)
      /\ Allowed(id)' = faults' + OneIf(id \in raced') + OneIf(b)
  BY DEF Allowed
<1>7. \A c : OneIf(c) \in Nat
  BY DEF OneIf
<1>. HIDE DEF a, b
<1>. QED
  BY <1>1, <1>3, <1>4, <1>5, <1>6, <1>7

\* The invariant after a step that makes no more copies than it allows.
LEMMA CopiesMove ==
    ASSUME IInvEngine, [EngineNext]_allVars, IInvCopies, MainMovesOn, raced' = raced,
           \A id \in MsgIds : Copies(id)' + forwarded'[id] <= Copies(id) + forwarded[id]
    PROVE  IInvCopies'
<1>1. RacedFits'
  BY FiledStays DEF IInvCopies, RacedFits
<1>2. CopiesFit'
  <2>. SUFFICES ASSUME NEW id \in MsgIds PROVE Copies(id)' + forwarded'[id] <= Allowed(id)'
    BY DEF CopiesFit
  <2>1. Allowed(id) <= Allowed(id)'
    BY MoreIsAllowed DEF AllowedGrows
  <2>2. Copies(id) + forwarded[id] <= Allowed(id)
    BY DEF IInvCopies, CopiesFit
  <2>3. /\ Copies(id) + forwarded[id] \in Nat /\ Allowed(id) \in Nat
        /\ Copies(id)' + forwarded'[id] \in Nat /\ Allowed(id)' \in Nat
    BY SumsBoth
  <2>. QED
    BY <2>1, <2>2, <2>3
<1>. QED
  BY <1>1, <1>2 DEF IInvCopies

LoadsNoMore == \A id : Cardinality(Loading(id))' <= Cardinality(Loading(id))
PostsNoMore == \A id : Cardinality(Posting(id))' <= Cardinality(Posting(id))

LEMMA NoMoreLoad ==
    ASSUME IInvEngine,
           \A v \in Receivers : wpc'[v] = "busy" /\ phase'[v] = "load"
                                  => wpc[v] = "busy" /\ phase[v] = "load" /\ job'[v] = job[v]
    PROVE  LoadsNoMore
<1>. SUFFICES ASSUME NEW id PROVE Cardinality(Loading(id))' <= Cardinality(Loading(id))
  BY DEF LoadsNoMore
<1>1. Loading(id)' \subseteq Loading(id) /\ IsFiniteSet(Loading(id))
  BY PartsAlwaysFit DEF Loading, PartsFit
<1>. QED
  BY <1>1, FS_Subset

LEMMA NoMorePost ==
    ASSUME IInvEngine,
           \A v \in Senders : phase'[v] = "post" => phase[v] = "post" /\ held'[v] = held[v]
    PROVE  PostsNoMore
<1>. SUFFICES ASSUME NEW id PROVE Cardinality(Posting(id))' <= Cardinality(Posting(id))
  BY DEF PostsNoMore
<1>1. Posting(id)' \subseteq Posting(id) /\ IsFiniteSet(Posting(id))
  BY PartsAlwaysFit DEF Posting, PartsFit
<1>. QED
  BY <1>1, FS_Subset

\* What main still has to dispatch.
WaitsNoMore == \A id : Waiting(id)' <= Waiting(id)

LEMMA NoMoreWait == (mpc' = "inbox" => mpc = "inbox" /\ backlog' \subseteq backlog) => WaitsNoMore
BY DEF WaitsNoMore, Waiting, OneIf

\* The terms of the sum.
SumOf(id) ==
    /\ Count(chIncoming, id) \in Nat /\ CountQueue(queue["incoming"], id) \in Nat
    /\ Cardinality(Loading(id)) \in Nat /\ Cardinality(Posting(id)) \in Nat
    /\ Waiting(id) \in Nat /\ forwarded[id] \in Nat
    /\ Copies(id) = Count(chIncoming, id) + CountQueue(queue["incoming"], id)
                        + Cardinality(Loading(id)) + Cardinality(Posting(id)) + Waiting(id)

LEMMA SumIs ==
    ASSUME IInvEngine, [EngineNext]_allVars, NEW id \in MsgIds
    PROVE  SumOf(id) /\ SumOf(id)'
<1>1. PartsFit => SumOf(id)
  BY DEF PartsFit, SumOf, Copies
<1>2. PartsFit' => SumOf(id)'
  BY DEF PartsFit, SumOf, Copies
<1>. QED
  BY <1>1, <1>2, PartsBoth

LEMMA CopiesKept ==
    ASSUME IInvEngine, [EngineNext]_allVars, IInvCopies, MainMovesOn, raced' = raced,
           UNCHANGED <<chIncoming, forwarded>>, queue'["incoming"] = queue["incoming"],
           LoadsNoMore, PostsNoMore, WaitsNoMore
    PROVE  IInvCopies'
<1>. SUFFICES ASSUME NEW id \in MsgIds
              PROVE  Copies(id)' + forwarded'[id] <= Copies(id) + forwarded[id]
  BY CopiesMove
<1>1. SumOf(id) /\ SumOf(id)'
  BY SumIs
<1>2. /\ Cardinality(Loading(id))' <= Cardinality(Loading(id))
      /\ Cardinality(Posting(id))' <= Cardinality(Posting(id))
      /\ Waiting(id)' <= Waiting(id)
  BY DEF LoadsNoMore, PostsNoMore, WaitsNoMore
<1>. QED
  BY <1>1, <1>2 DEF SumOf

\* The dispatcher moves an id from the channel to the queue.
LEMMA CopiesOfReceive ==
    ASSUME IInvEngine, [EngineNext]_allVars, IInvCopies, MainMovesOn, raced' = raced,
           ReceiveIncoming, UNCHANGED forwarded, LoadsNoMore, PostsNoMore, WaitsNoMore
    PROVE  IInvCopies'
<1>. SUFFICES ASSUME NEW id \in MsgIds
              PROVE  Copies(id)' + forwarded'[id] <= Copies(id) + forwarded[id]
  BY CopiesMove
<1>1. PartsFit /\ SumOf(id) /\ SumOf(id)'
  BY PartsBoth, SumIs
<1>2. /\ chIncoming # <<>> /\ chIncoming' = Tail(chIncoming)
      /\ queue'["incoming"] = Insert(queue["incoming"], Head(chIncoming))
  BY DEF ReceiveIncoming, IInvEngine, IInvTokens, IInvTypes, TypeOK, Directions
<1>. DEFINE x == Head(chIncoming)
<1>3. x \in Id /\ Count(chIncoming, id) = Count(chIncoming', id) + OneIf(x = id)
  BY <1>1, <1>2, CountOfTail DEF PartsFit
<1>4. CountQueue(queue'["incoming"], id) = CountQueue(queue["incoming"], id) + OneIf(x = id)
  BY <1>1, <1>2, <1>3, CountOfInsert DEF PartsFit
<1>5. OneIf(x = id) \in Nat
  BY DEF OneIf
<1>6. /\ Cardinality(Loading(id))' <= Cardinality(Loading(id))
      /\ Cardinality(Posting(id))' <= Cardinality(Posting(id))
      /\ Waiting(id)' <= Waiting(id)
  BY DEF LoadsNoMore, PostsNoMore, WaitsNoMore
<1>. HIDE DEF x
<1>. QED
  BY <1>1, <1>3, <1>4, <1>5, <1>6 DEF SumOf

\* The dispatcher gives an incoming id to a receiver.
LEMMA CopiesOfGive ==
    ASSUME IInvEngine, [EngineNext]_allVars, IInvCopies, MainMovesOn, raced' = raced,
           GiveJob("incoming"), UNCHANGED <<phase, forwarded>>, PostsNoMore, WaitsNoMore
    PROVE  IInvCopies'
<1>. SUFFICES ASSUME NEW id \in MsgIds
              PROVE  Copies(id)' + forwarded'[id] <= Copies(id) + forwarded[id]
  BY CopiesMove
<1>1. PartsFit /\ SumOf(id) /\ SumOf(id)'
  BY PartsBoth, SumIs
<1>. DEFINE w == Head(available["incoming"])
            x == PopId(queue["incoming"])
<1>2. /\ wpc' = [wpc EXCEPT ![w] = "busy"] /\ job' = [job EXCEPT ![w] = x]
      /\ QueueLen(queue["incoming"]) > 0
      /\ queue'["incoming"] = PopRest(queue["incoming"])
      /\ chIncoming' = chIncoming
      /\ wpc \in [Workers -> {"new", "announce", "idle", "busy", "exited"}]
      /\ job \in [Workers -> Id \cup {NoJob}]
  BY DEF GiveJob, Matching, Pairable, channelVars, IInvEngine, IInvTokens, IInvTypes, TypeOK, Directions
<1>3. CountQueue(queue["incoming"], id) = CountQueue(queue'["incoming"], id) + OneIf(x = id)
  BY <1>1, <1>2, CountOfPop DEF PartsFit
<1>. HIDE DEF w, x
<1>4. Cardinality(Loading(id))' <= Cardinality(Loading(id)) + OneIf(x = id)
  <2>1. Loading(id)' \subseteq IF x = id THEN Loading(id) \cup {w} ELSE Loading(id)
    <3>1. \A v \in Receivers : v \in Workers
      BY DEF Workers
    <3>. QED
      BY <1>2, <3>1 DEF Loading
  <2>. QED
    BY <1>1, <2>1, CountOfJoin DEF PartsFit
<1>5. OneIf(x = id) \in Nat
  BY DEF OneIf
<1>6. /\ Cardinality(Posting(id))' <= Cardinality(Posting(id))
      /\ Waiting(id)' <= Waiting(id) /\ Count(chIncoming', id) = Count(chIncoming, id)
  BY <1>2 DEF PostsNoMore, WaitsNoMore
<1>. QED
  BY <1>1, <1>3, <1>4, <1>5, <1>6 DEF SumOf

LEMMA CopiesOfLoop ==
    ASSUME IInvEngine, [EngineNext]_allVars, IInvCopies, QuietLoopStep,
           UNCHANGED <<phase, held, mpc, backlog, forwarded, faults, raced>>
    PROVE  IInvCopies'
<1>. USE DEF dispatcherVars, channelVars, workerVars, stopVars, historyVars
<1>0. /\ queue \in [Directions -> [high : Seq(Id), low : Seq(Id)]]
      /\ wpc \in [Workers -> {"new", "announce", "idle", "busy", "exited"}]
      /\ job \in [Workers -> Id \cup {NoJob}]
      /\ \A v \in Receivers : v \in Workers /\ v \notin Senders
      /\ "outgoing" \in Directions /\ "incoming" \in Directions
      /\ WorkersOf("outgoing") = Senders
  BY WorkersAssumption DEF IInvEngine, IInvTokens, IInvTypes, TypeOK, Directions, WorkersOf, Workers
<1>1. MainMovesOn /\ WaitsNoMore /\ PostsNoMore
  BY NoMoreWait, NoMorePost DEF MainMovesOn
<1>2. CASE \/ DispatcherBegin \/ MatchEnd \/ DispatcherExit \/ StopClose \/ StopWait
           \/ (\E d \in Directions : ReceiveReady(d)) \/ (\E id \in offered : ReceiveOutgoing(id))
  <2>1. UNCHANGED <<chIncoming, wpc, job>> /\ queue'["incoming"] = queue["incoming"]
    BY <1>0, <1>2 DEF DispatcherBegin, MatchEnd, DispatcherExit, StopClose, StopWait, ReceiveReady,
                      ReceiveOutgoing
  <2>2. LoadsNoMore
    BY <2>1, NoMoreLoad
  <2>. QED
    BY <1>1, <2>1, <2>2, CopiesKept
<1>3. CASE ReceiveIncoming
  <2>1. LoadsNoMore
    BY <1>3, NoMoreLoad DEF ReceiveIncoming
  <2>. QED
    BY <1>1, <1>3, <2>1, CopiesOfReceive
<1>4. CASE GiveJob("incoming")
  BY <1>1, <1>4, CopiesOfGive
<1>5. CASE GiveJob("outgoing")
  <2>0. PICK w : w = Head(available["outgoing"])
    OBVIOUS
  <2>1. /\ available["outgoing"] # <<>> /\ chIncoming' = chIncoming
        /\ wpc' = [wpc EXCEPT ![w] = "busy"]
        /\ job' = [job EXCEPT ![w] = PopId(queue["outgoing"])]
        /\ queue'["incoming"] = queue["incoming"]
    BY <1>0, <1>5, <2>0 DEF GiveJob, Matching, Pairable
  <2>2. w \in Senders
    <3>0. /\ available["outgoing"] \in Seq(Workers) /\ ready["outgoing"] \in Seq(Workers)
          /\ TokensFit(Tokens("outgoing"), wpc, "outgoing")
      BY <1>0, OneTokenIsTokensFit DEF IInvEngine, IInvTokens, IInvTypes, TypeOK
    <3>1. 1 \in DOMAIN Tokens("outgoing") /\ Tokens("outgoing")[1] = Head(available["outgoing"])
      BY <2>1, <3>0, HeadOfConcat DEF Tokens
    <3>. QED
      BY <1>0, <2>0, <3>0, <3>1 DEF TokensFit, Elements
  <2>3. LoadsNoMore
    <3>1. \A v \in Receivers : wpc'[v] = wpc[v] /\ job'[v] = job[v]
      BY <1>0, <2>1, <2>2
    <3>. QED
      BY <3>1, NoMoreLoad
  <2>. QED
    BY <1>1, <2>1, <2>3, CopiesKept
<1>6. ASSUME NEW d \in Directions, NEW w \in WorkersOf(d), WorkerBegin(w) \/ Announce(d, w) \/ WorkerExit(w)
      PROVE  IInvCopies'
  <2>1. /\ UNCHANGED <<queue, chIncoming, job>>
        /\ \E to \in {"announce", "idle", "exited"} : wpc' = [wpc EXCEPT ![w] = to]
    BY <1>6 DEF WorkerBegin, Announce, WorkerExit
  <2>2. LoadsNoMore
    <3>1. \A v \in Receivers : wpc'[v] = "busy" => wpc[v] = "busy" /\ job'[v] = job[v]
      BY <1>0, <2>1
    <3>. QED
      BY <3>1, NoMoreLoad
  <2>. QED
    BY <1>1, <2>1, <2>2, CopiesKept
<1>. QED
  BY <1>2, <1>3, <1>4, <1>5, <1>6 DEF QuietLoopStep, DispatcherStep, Directions

\* What the transaction of WriteToInbox does: it saves a message under the new id
\* x, it fails in the database, which leaves x in the message, or it finds no
\* bucket, and the message has no id.
EchoSaved(x) ==
    /\ Files(db, db', x, "inbox", "") /\ x \in MsgIds /\ x \notin Filed(db[Conn])
    /\ faults' = faults
    /\ raced' = IF mpc \in {"start", "outbox"} THEN raced \cup {x} ELSE raced
EchoFailed == db' = db /\ raced' = raced /\ faults' = faults + 1
EchoMissed(x) == x = 0 /\ db' = db /\ raced' = raced /\ faults' = faults
EchoTried(x) == EchoSaved(x) \/ EchoFailed \/ EchoMissed(x)

LEMMA EchoTries ==
    ASSUME IInvEngine, NEW w \in Senders, EchoWrite(w)
    PROVE  EchoTried(held'[w].id)
<1>0. faults \in Nat /\ faults + 0 = faults
  BY PartsAlwaysFit DEF PartsFit
<1>1. PICK text \in Texts : \E o \in SaveOutcomes(db, NewMsg(Conn, text, "L"), "inbox", "") :
               /\ Transact(o) /\ Written(db, o, text, "L", "inbox")
               /\ held' = [held EXCEPT ![w] = o.msg]
               /\ raced' = IF mpc \in {"start", "outbox"} /\ ~o.err
                           THEN raced \cup {o.msg.id} ELSE raced
  BY EchoOutcome
<1>2. PICK m : m = NewMsg(Conn, text, "L")
  OBVIOUS
<1>3. PICK o \in SaveOutcomes(db, m, "inbox", "") :
               /\ Transact(o) /\ Written(db, o, text, "L", "inbox")
               /\ held' = [held EXCEPT ![w] = o.msg]
               /\ raced' = IF mpc \in {"start", "outbox"} /\ ~o.err
                           THEN raced \cup {o.msg.id} ELSE raced
  BY <1>1, <1>2
<1>4. m.conn = Conn /\ m.id = 0
  BY <1>2 DEF NewMsg
<1>5. held'[w].id = o.msg.id
  BY <1>3 DEF IInvEngine, EngineTypes, Workers
<1>7. CASE ~Exists
  <2>1. o = [db |-> db, msg |-> m, err |-> TRUE, fault |-> FALSE]
    BY <1>4, <1>7 DEF SaveOutcomes, Exists
  <2>2. o.err /\ ~o.fault /\ o.msg.id = 0 /\ o.db = db
    BY <1>4, <2>1
  <2>3. EchoMissed(o.msg.id)
    BY <1>3, <1>0, <2>2 DEF EchoMissed, Transact
  <2>. QED
    BY <1>5, <2>3 DEF EchoTried
<1>8. CASE Exists
  <2>1. PICK n, s : o \in {[db |-> n, msg |-> s, err |-> FALSE, fault |-> FALSE],
                           [db |-> db, msg |-> s, err |-> TRUE, fault |-> TRUE]}
    BY <1>4, <1>8 DEF SaveOutcomes, Exists
  <2>2. CASE o = [db |-> n, msg |-> s, err |-> FALSE, fault |-> FALSE]
    <3>1. ~o.err /\ ~o.fault
      BY <2>2
    <3>2. EchoSaved(o.msg.id)
      BY <1>3, <1>0, <3>1 DEF EchoSaved, Transact, Written
    <3>. QED
      BY <1>5, <3>2 DEF EchoTried
  <2>3. CASE o = [db |-> db, msg |-> s, err |-> TRUE, fault |-> TRUE]
    <3>1. o.err /\ o.fault /\ o.db = db
      BY <2>3
    <3>2. EchoFailed
      BY <1>3, <3>1 DEF EchoFailed, Transact
    <3>. QED
      BY <1>5, <3>2 DEF EchoTried
  <2>. QED
    BY <2>1, <2>2, <2>3
<1>. QED
  BY <1>7, <1>8

LEMMA AllowedByFault ==
    ASSUME faults \in Nat, NEW id, NEW x, x = id, EchoFailed, mpc' = mpc
    PROVE  Allowed(id) + OneIf(x = id) <= Allowed(id)'
<1>. DEFINE a == mpc \in {"inbox", "serving"} /\ (Exists => id \in Filed(db[Conn]))
            b == id \in raced
<1>1. Allowed(id) = faults + OneIf(b) + OneIf(a) /\ Allowed(id)' = faults + 1 + OneIf(b) + OneIf(a)
  BY DEF EchoFailed, Allowed, Exists
<1>2. OneIf(x = id) = 1 /\ OneIf(a) \in Nat /\ OneIf(b) \in Nat
  BY DEF OneIf
<1>. HIDE DEF a, b
<1>. QED
  BY <1>1, <1>2

LEMMA AllowedBySave ==
    ASSUME faults \in Nat, NEW id, NEW x, x = id, EchoSaved(x), mpc' = mpc,
           mpc \in {"start", "outbox", "inbox", "serving"}, IInvCopies,
           Exists, id \in Filed(db'[Conn])
    PROVE  Allowed(id) + OneIf(x = id) <= Allowed(id)'
<1>. DEFINE a == mpc' \in {"inbox", "serving"} /\ (Exists' => id \in Filed(db'[Conn]))
            b == id \in raced'
<1>1. id \notin Filed(db[Conn]) /\ id \notin raced
  BY DEF EchoSaved, IInvCopies, RacedFits
<1>2. OneIf(id \in raced) = 0 /\ OneIf(mpc \in {"inbox", "serving"} /\ (Exists => id \in Filed(db[Conn]))) = 0
  BY <1>1 DEF OneIf
<1>3. Allowed(id) = faults
  BY <1>2 DEF Allowed
<1>4. Allowed(id)' = faults + OneIf(b) + OneIf(a)
  BY DEF Allowed, EchoSaved
<1>5. a \/ b
  BY DEF EchoSaved
<1>6. OneIf(x = id) = 1
  BY DEF OneIf
<1>. HIDE DEF a, b
<1>7. OneIf(a) + OneIf(b) >= 1 /\ OneIf(a) \in Nat /\ OneIf(b) \in Nat
  BY <1>5 DEF OneIf
<1>. QED
  BY <1>3, <1>4, <1>6, <1>7

\* One more copy, and one more is allowed.
LEMMA EchoIsAllowed ==
    ASSUME IInvEngine, [EngineNext]_allVars, IInvCopies, NEW x, EchoTried(x), mpc' = mpc
    PROVE  /\ MainMovesOn /\ RacedFits'
           /\ \A id \in MsgIds : Allowed(id) + OneIf(x = id) <= Allowed(id)'
<1>0. faults \in Nat /\ mpc \in {"start", "outbox", "inbox", "serving"}
  BY PartsAlwaysFit DEF PartsFit, IInvEngine, EngineTypes
<1>1. MainMovesOn
  BY <1>0 DEF MainMovesOn, EchoTried, EchoSaved, EchoFailed, EchoMissed
<1>2. ASSUME EchoSaved(x) PROVE Exists /\ Filed(db[Conn]) \cup {x} \subseteq Filed(db'[Conn])
  BY <1>2 DEF EchoSaved, Files, Filed, Outgoing, BoxNames, Exists
<1>3. RacedFits'
  <2>1. CASE EchoSaved(x)
    BY <1>2, <2>1 DEF EchoSaved, RacedFits, IInvCopies
  <2>2. CASE raced' = raced
    BY <2>2, FiledStays DEF RacedFits, IInvCopies
  <2>. QED
    BY <2>1, <2>2 DEF EchoTried, EchoFailed, EchoMissed
<1>4. ASSUME NEW id \in MsgIds PROVE Allowed(id) + OneIf(x = id) <= Allowed(id)'
  <2>1. Allowed(id) <= Allowed(id)' /\ Allowed(id) \in Nat /\ Allowed(id)' \in Nat
    BY <1>1, MoreIsAllowed, SumsBoth DEF AllowedGrows
  <2>2. CASE x # id
    BY <2>1, <2>2 DEF OneIf
  <2>3. CASE x = id /\ EchoFailed
    BY <1>0, <2>3, AllowedByFault
  <2>4. CASE x = id /\ EchoSaved(x)
    BY <1>0, <1>2, <2>4, AllowedBySave
  <2>5. ~(x = id /\ EchoMissed(x))
    BY IdsAreNumbers DEF EchoMissed
  <2>. QED
    BY <2>2, <2>3, <2>4, <2>5 DEF EchoTried
<1>. QED
  BY <1>1, <1>3, <1>4

\* A sender has saved its echo, or tried to: it posts the id either way.
LEMMA CopiesOfEchoWrite ==
    ASSUME IInvEngine, [EngineNext]_allVars, IInvCopies, NEW w \in Senders, EchoWrite(w)
    PROVE  IInvCopies'
<1>. PICK x : x = held'[w].id
  OBVIOUS
<1>0. /\ EngineTypes /\ PartsFit /\ \A v \in Receivers : v \in Workers /\ v # w
      /\ \A v \in Senders : v \in Workers
  BY WorkersAssumption, PartsBoth DEF IInvEngine, Workers
<1>1. /\ phase' = [phase EXCEPT ![w] = "post"] /\ UNCHANGED <<queue, chIncoming, wpc, job>>
      /\ UNCHANGED <<mpc, backlog, forwarded>>
      /\ \A v \in Senders : v # w => held'[v] = held[v]
  BY DEF EchoWrite, mainVars, vars, dispatcherVars, channelVars, workerVars
<1>2. EchoTried(x)
  BY EchoTries
<1>3. /\ RacedFits'
      /\ \A id \in MsgIds : Allowed(id) + OneIf(x = id) <= Allowed(id)'
  BY <1>1, <1>2, EchoIsAllowed
<1>4. ASSUME NEW id \in MsgIds
      PROVE  Copies(id)' + forwarded'[id] <= Copies(id) + forwarded[id] + OneIf(x = id)
  <2>1. SumOf(id) /\ SumOf(id)'
    BY SumIs
  <2>2. Cardinality(Posting(id))' <= Cardinality(Posting(id)) + OneIf(x = id)
    <3>1. Posting(id)' \subseteq IF x = id THEN Posting(id) \cup {w} ELSE Posting(id)
      BY <1>0, <1>1 DEF Posting, EngineTypes
    <3>. QED
      BY <1>0, <3>1, CountOfJoin DEF PartsFit
  <2>3. Cardinality(Loading(id))' <= Cardinality(Loading(id))
    BY <1>0, <1>1, NoMoreLoad DEF EngineTypes, LoadsNoMore
  <2>4. Waiting(id)' <= Waiting(id)
    BY <1>1, NoMoreWait DEF WaitsNoMore
  <2>5. /\ Count(chIncoming', id) = Count(chIncoming, id)
        /\ CountQueue(queue'["incoming"], id) = CountQueue(queue["incoming"], id)
        /\ forwarded'[id] = forwarded[id]
    BY <1>1
  <2>6. OneIf(x = id) \in Nat
    BY DEF OneIf
  <2>. QED
    BY <2>1, <2>2, <2>3, <2>4, <2>5, <2>6 DEF SumOf
<1>5. CopiesFit'
  <2>. SUFFICES ASSUME NEW id \in MsgIds PROVE Copies(id)' + forwarded'[id] <= Allowed(id)'
    BY DEF CopiesFit
  <2>1. Copies(id) + forwarded[id] <= Allowed(id)
    BY DEF IInvCopies, CopiesFit
  <2>2. /\ Copies(id)' + forwarded'[id] <= Copies(id) + forwarded[id] + OneIf(x = id)
        /\ Allowed(id) + OneIf(x = id) <= Allowed(id)'
    BY <1>3, <1>4
  <2>3. OneIf(x = id) \in Nat
    BY DEF OneIf
  <2>4. /\ Copies(id) + forwarded[id] \in Nat /\ Allowed(id) \in Nat
        /\ Copies(id)' + forwarded'[id] \in Nat /\ Allowed(id)' \in Nat
    BY SumsBoth
  <2>. QED
    BY <2>1, <2>2, <2>3, <2>4
<1>. QED
  BY <1>3, <1>5 DEF IInvCopies

\* The sender hands the id to the dispatcher.
LEMMA CopiesOfEchoPost ==
    ASSUME IInvEngine, [EngineNext]_allVars, IInvCopies, NEW w \in Senders, EchoPost(w)
    PROVE  IInvCopies'
<1>0. /\ EngineTypes /\ PartsFit /\ w \in Workers /\ \A v \in Receivers : v \in Workers /\ v # w
      /\ wpc \in [Workers -> {"new", "announce", "idle", "busy", "exited"}]
      /\ job \in [Workers -> Id \cup {NoJob}]
      /\ \A v \in Senders : v \in Workers
  BY WorkersAssumption, PartsBoth DEF IInvEngine, IInvTokens, IInvTypes, TypeOK, Workers
<1>. DEFINE x == held[w].id
<1>1. /\ phase[w] = "post" /\ phase' = [phase EXCEPT ![w] = "load"]
      /\ held' = [held EXCEPT ![w] = BlankMsg]
      /\ wpc' = [wpc EXCEPT ![w] = "announce"] /\ job' = [job EXCEPT ![w] = NoJob]
      /\ chIncoming' = Append(chIncoming, x) /\ UNCHANGED <<queue, mpc, backlog, forwarded, faults, raced>>
  BY DEF EchoPost, SendIncoming, FinishJob, dispatcherVars, mainVars, countVars
<1>2. x \in Id
  <2>1. held[w] \in HeldMsg
    BY <1>0, <1>1 DEF IInvEngine, WorkerFits, BodyFits
  <2>2. x \in MsgIds \cup {0}
    BY <2>1 DEF HeldMsg
  <2>3. 0 \in Id
    BY DEF Id
  <2>. HIDE DEF x
  <2>. QED
    BY <2>2, <2>3, IdsAreNumbers
<1>3. MainMovesOn
  BY <1>1 DEF MainMovesOn
<1>. SUFFICES ASSUME NEW id \in MsgIds
              PROVE  Copies(id)' + forwarded'[id] <= Copies(id) + forwarded[id]
  BY <1>1, <1>3, CopiesMove
<1>4. Count(chIncoming', id) = Count(chIncoming, id) + OneIf(x = id)
  BY <1>0, <1>1, <1>2, CountOfAppend DEF PartsFit
<1>5. Cardinality(Posting(id))' + OneIf(x = id) <= Cardinality(Posting(id))
  <2>1. Posting(id)' \subseteq Posting(id) /\ (x = id => w \in Posting(id) \ Posting(id)')
    BY <1>0, <1>1 DEF Posting, EngineTypes
  <2>. HIDE DEF x
  <2>. QED
    BY <1>0, <2>1, CountOfLeave DEF PartsFit
<1>6. Cardinality(Loading(id))' <= Cardinality(Loading(id))
  BY <1>0, <1>1, NoMoreLoad DEF EngineTypes, LoadsNoMore
<1>7. Waiting(id)' <= Waiting(id)
  BY <1>1, NoMoreWait DEF WaitsNoMore
<1>8. SumOf(id) /\ SumOf(id)' /\ OneIf(x = id) \in Nat
  BY SumIs DEF OneIf
<1>9. /\ CountQueue(queue'["incoming"], id) = CountQueue(queue["incoming"], id)
      /\ forwarded'[id] = forwarded[id]
  BY <1>1
<1>. HIDE DEF x
<1>. QED
  BY <1>4, <1>5, <1>6, <1>7, <1>8, <1>9 DEF SumOf

\* A receiver posts the message to the url.
LEMMA CopiesOfForward ==
    ASSUME IInvEngine, [EngineNext]_allVars, IInvCopies, NEW w \in Receivers, HttpForward(w)
    PROVE  IInvCopies'
<1>0. /\ EngineTypes /\ PartsFit /\ DbFits(db) /\ w \in Workers /\ \A v \in Receivers : v \in Workers
      /\ \A v \in Senders : v \in Workers /\ v # w
  BY WorkersAssumption, PartsBoth DEF IInvEngine, Workers
<1>. DEFINE x == job[w]
<1>1. /\ wpc[w] = "busy" /\ phase[w] = "load" /\ phase' = [phase EXCEPT ![w] = "mark"]
      /\ \A v \in Senders : held'[v] = held[v]
      /\ UNCHANGED <<wpc, job, queue, chIncoming, mpc, backlog, faults, raced>>
      /\ forwarded' = IF MsgFromId(db, Conn, job[w]) = BlankMsg THEN forwarded
                      ELSE [forwarded EXCEPT ![MsgFromId(db, Conn, job[w]).id] = @ + 1]
  BY <1>0 DEF HttpForward, vars, dispatcherVars, channelVars, workerVars, mainVars, EngineTypes
<1>2. MainMovesOn
  BY <1>1 DEF MainMovesOn
<1>. SUFFICES ASSUME NEW id \in MsgIds
              PROVE  Copies(id)' + forwarded'[id] <= Copies(id) + forwarded[id]
  BY <1>1, <1>2, CopiesMove
<1>3. forwarded'[id] <= forwarded[id] + OneIf(x = id)
  <2>1. MsgFromId(db, Conn, job[w]) # BlankMsg => MsgFromId(db, Conn, job[w]).id = job[w]
    BY <1>0, LoadedMessage
  <2>2. forwarded'[id] = forwarded[id] \/ (x = id /\ forwarded'[id] = forwarded[id] + 1)
    BY <1>0, <1>1, <2>1 DEF EngineTypes
  <2>3. forwarded[id] \in Nat
    BY <1>0 DEF PartsFit
  <2>. HIDE DEF x
  <2>. QED
    BY <2>2, <2>3 DEF OneIf
<1>4. Cardinality(Loading(id))' + OneIf(x = id) <= Cardinality(Loading(id))
  <2>1. Loading(id)' \subseteq Loading(id) /\ (x = id => w \in Loading(id) \ Loading(id)')
    BY <1>0, <1>1 DEF Loading, EngineTypes
  <2>. HIDE DEF x
  <2>. QED
    BY <1>0, <2>1, CountOfLeave DEF PartsFit
<1>5. Cardinality(Posting(id))' <= Cardinality(Posting(id))
  BY <1>0, <1>1, NoMorePost DEF EngineTypes, PostsNoMore
<1>6. Waiting(id)' <= Waiting(id)
  BY <1>1, NoMoreWait DEF WaitsNoMore
<1>7. SumOf(id) /\ SumOf(id)' /\ OneIf(x = id) \in Nat
  BY SumIs DEF OneIf
<1>8. /\ CountQueue(queue'["incoming"], id) = CountQueue(queue["incoming"], id)
      /\ Count(chIncoming', id) = Count(chIncoming, id)
  BY <1>1
<1>. HIDE DEF x
<1>. QED
  BY <1>3, <1>4, <1>5, <1>6, <1>7, <1>8 DEF SumOf

\* Main hands an id of the inbox to the dispatcher.
LEMMA CopiesOfDispatch ==
    ASSUME IInvEngine, [EngineNext]_allVars, IInvCopies, NEW x \in backlog, DispatchIncoming(x)
    PROVE  IInvCopies'
<1>. USE DEF requestVars, outsideVars, countVars, bodyVars
<1>0. PartsFit /\ x \in Id
  BY PartsBoth, IdsAreNumbers DEF IInvEngine, EngineTypes
<1>1. /\ mpc = "inbox" /\ mpc' = mpc /\ backlog' = backlog \ {x} /\ chIncoming' = Append(chIncoming, x)
      /\ UNCHANGED <<queue, wpc, job, phase, held, forwarded, faults, raced>>
  BY DEF DispatchIncoming, SendIncoming, dispatcherVars, workerVars
<1>2. MainMovesOn /\ LoadsNoMore /\ PostsNoMore
  BY <1>1, NoMoreLoad, NoMorePost DEF MainMovesOn
<1>. SUFFICES ASSUME NEW id \in MsgIds
              PROVE  Copies(id)' + forwarded'[id] <= Copies(id) + forwarded[id]
  BY <1>1, <1>2, CopiesMove
<1>3. Count(chIncoming', id) = Count(chIncoming, id) + OneIf(x = id)
  BY <1>0, <1>1, CountOfAppend DEF PartsFit
<1>4. Waiting(id)' + OneIf(x = id) = Waiting(id)
  BY <1>1 DEF Waiting, OneIf
<1>5. /\ Cardinality(Loading(id))' <= Cardinality(Loading(id))
      /\ Cardinality(Posting(id))' <= Cardinality(Posting(id))
  BY <1>2 DEF LoadsNoMore, PostsNoMore
<1>6. SumOf(id) /\ SumOf(id)' /\ OneIf(x = id) \in Nat
  BY SumIs DEF OneIf
<1>7. /\ CountQueue(queue'["incoming"], id) = CountQueue(queue["incoming"], id)
      /\ forwarded'[id] = forwarded[id]
  BY <1>1
<1>. QED
  BY <1>3, <1>4, <1>5, <1>6, <1>7 DEF SumOf

\* Main reads the inbox: what is there may be posted once more from now on.
LEMMA CopiesOfReadInbox ==
    ASSUME IInvEngine, [EngineNext]_allVars, IInvCopies, ReadInbox
    PROVE  IInvCopies'
<1>. USE DEF requestVars, outsideVars, countVars, bodyVars
<1>1. /\ mpc = "outbox" /\ mpc' = "inbox" /\ backlog' = db[Conn].box["inbox"]
      /\ UNCHANGED <<db, queue, chIncoming, wpc, job, phase, held, forwarded, faults, raced>>
  BY DEF ReadInbox, BoxIds, vars, dispatcherVars, channelVars, workerVars
<1>2. LoadsNoMore /\ PostsNoMore
  BY <1>1, NoMoreLoad, NoMorePost
<1>3. ASSUME NEW id \in MsgIds
      PROVE  Copies(id)' + forwarded'[id] <= Copies(id) + forwarded[id] + OneIf(id \in backlog')
  <2>. DEFINE b == id \in backlog'
  <2>1. Waiting(id) = 0 /\ Waiting(id)' = OneIf(b)
    BY <1>1 DEF Waiting, OneIf
  <2>2. /\ Cardinality(Loading(id))' <= Cardinality(Loading(id))
        /\ Cardinality(Posting(id))' <= Cardinality(Posting(id))
    BY <1>2 DEF LoadsNoMore, PostsNoMore
  <2>3. SumOf(id) /\ SumOf(id)' /\ OneIf(b) \in Nat
    BY SumIs DEF OneIf
  <2>4. /\ CountQueue(queue'["incoming"], id) = CountQueue(queue["incoming"], id)
        /\ Count(chIncoming', id) = Count(chIncoming, id) /\ forwarded'[id] = forwarded[id]
    BY <1>1
  <2>. HIDE DEF b
  <2>5. Copies(id)' + forwarded'[id] <= Copies(id) + forwarded[id] + OneIf(b)
    BY <2>1, <2>2, <2>3, <2>4 DEF SumOf
  <2>. QED
    BY <2>5 DEF b
<1>4. ASSUME NEW id \in MsgIds
      PROVE  Allowed(id) + OneIf(id \in backlog') <= Allowed(id)'
  <2>. DEFINE a == mpc' \in {"inbox", "serving"} /\ (Exists' => id \in Filed(db'[Conn]))
              b == id \in backlog'
              c == id \in raced
  <2>1. b => a
    BY <1>1 DEF Filed, Exists
  <2>2. Allowed(id) = faults + OneIf(c) /\ Allowed(id)' = faults + OneIf(c) + OneIf(a)
    <3>1. OneIf(mpc \in {"inbox", "serving"} /\ (Exists => id \in Filed(db[Conn]))) = 0
      BY <1>1 DEF OneIf
    <3>2. faults \in Nat /\ OneIf(c) \in Nat
      BY PartsBoth DEF PartsFit, OneIf
    <3>3. Allowed(id) = faults + OneIf(c) + 0
      BY <3>1 DEF Allowed
    <3>4. Allowed(id)' = faults + OneIf(c) + OneIf(a)
      BY <1>1 DEF Allowed
    <3>. HIDE DEF a, c
    <3>. QED
      BY <3>2, <3>3, <3>4
  <2>3. faults \in Nat /\ OneIf(c) \in Nat
    BY PartsBoth DEF PartsFit, OneIf
  <2>. HIDE DEF a, b, c
  <2>4. OneIf(b) <= OneIf(a) /\ OneIf(b) \in Nat /\ OneIf(a) \in Nat
    BY <2>1 DEF OneIf
  <2>5. Allowed(id) + OneIf(b) <= Allowed(id)'
    BY <2>2, <2>3, <2>4
  <2>. QED
    BY <2>5 DEF b
<1>5. CopiesFit'
  <2>. SUFFICES ASSUME NEW id \in MsgIds PROVE Copies(id)' + forwarded'[id] <= Allowed(id)'
    BY DEF CopiesFit
  <2>. DEFINE b == id \in backlog'
  <2>1. Copies(id) + forwarded[id] <= Allowed(id)
    BY DEF IInvCopies, CopiesFit
  <2>2. /\ Copies(id)' + forwarded'[id] <= Copies(id) + forwarded[id] + OneIf(b)
        /\ Allowed(id) + OneIf(b) <= Allowed(id)'
    BY <1>3, <1>4
  <2>3. OneIf(b) \in Nat
    BY DEF OneIf
  <2>4. /\ Copies(id) + forwarded[id] \in Nat /\ Allowed(id) \in Nat
        /\ Copies(id)' + forwarded'[id] \in Nat /\ Allowed(id)' \in Nat
    BY SumsBoth
  <2>. HIDE DEF b
  <2>. QED
    BY <2>1, <2>2, <2>3, <2>4
<1>6. RacedFits'
  BY <1>1 DEF RacedFits, IInvCopies, Exists
<1>. QED
  BY <1>5, <1>6 DEF IInvCopies

LEMMA CopiesOfBody ==
    ASSUME IInvEngine, [EngineNext]_allVars, IInvCopies, NEW w \in Workers,
           \/ w \in Senders /\ (EchoSend(w) \/ EchoMark(w))
           \/ w \in Receivers /\ HttpMark(w)
    PROVE  IInvCopies'
<1>. USE DEF mainVars, requestVars, outsideVars, countVars
<1>0. /\ EngineTypes /\ PartsFit
      /\ wpc \in [Workers -> {"new", "announce", "idle", "busy", "exited"}]
      /\ job \in [Workers -> Id \cup {NoJob}]
      /\ \A v \in Receivers : v \in Workers /\ v \notin Senders
      /\ \A v \in Senders : v \in Workers
  BY WorkersAssumption, PartsBoth DEF IInvEngine, IInvTokens, IInvTypes, TypeOK, Workers
<1>1. /\ UNCHANGED <<queue, chIncoming, mpc, backlog, forwarded, raced>>
      /\ \A v \in Workers \ {w} : wpc'[v] = wpc[v] /\ job'[v] = job[v] /\ phase'[v] = phase[v] /\ held'[v] = held[v]
      /\ w \in Senders => phase'[w] # "post"
      /\ w \in Receivers => wpc'[w] # "busy"
  BY <1>0 DEF EchoSend, EchoMark, HttpMark, FinishJob, vars, dispatcherVars, channelVars, workerVars, EngineTypes
<1>2. faults' \in {faults, faults + 1}
  <2>1. faults \in Nat /\ faults + 0 = faults
    BY <1>0 DEF PartsFit
  <2>2. CASE faults' = faults
    BY <2>2
  <2>3. CASE \E o : Transact(o)
    BY <2>1, <2>3 DEF Transact
  <2>. QED
    BY <2>2, <2>3 DEF EchoSend, EchoMark, HttpMark
<1>3. MainMovesOn /\ WaitsNoMore
  BY <1>1, <1>2, NoMoreWait DEF MainMovesOn
<1>4. LoadsNoMore
  BY <1>0, <1>1, NoMoreLoad
<1>5. PostsNoMore
  BY <1>0, <1>1, NoMorePost
<1>. QED
  BY <1>1, <1>3, <1>4, <1>5, CopiesKept

LEMMA CopiesOfOutside ==
    ASSUME IInvEngine, [EngineNext]_allVars, IInvCopies,
           \/ ReadOutbox \/ StartServer \/ ForgetEngine \/ EndDelete
           \/ \E id \in backlog : DispatchOutgoing(id)
           \/ \E r \in Requests : LookUp(r) \/ PutMessage(r) \/ Respond(r)
           \/ UNCHANGED allVars
    PROVE  IInvCopies'
<1>. USE DEF mainVars, requestVars, outsideVars, countVars, bodyVars
<1>0. faults \in Nat /\ faults + 0 = faults
  BY PartsBoth DEF PartsFit
<1>1. /\ UNCHANGED <<queue, chIncoming, wpc, job, phase, held, forwarded, raced>>
      /\ \/ mpc' = mpc /\ backlog' \subseteq backlog
         \/ mpc = "start" /\ mpc' = "outbox"
         \/ mpc = "inbox" /\ mpc' = "serving"
  BY DEF ReadOutbox, StartServer, ForgetEngine, EndDelete, DispatchOutgoing, OfferOutgoing, LookUp, PutMessage,
         Respond, allVars, engineVars, vars, dispatcherVars, channelVars, workerVars
<1>2. faults' \in {faults, faults + 1}
  <2>1. CASE faults' = faults
    BY <2>1
  <2>2. CASE \E r \in Requests : PutMessage(r)
    <3>1. \E o : Transact(o)
      BY <2>2 DEF PutMessage
    <3>. QED
      BY <1>0, <3>1 DEF Transact
  <2>. QED
    BY <2>1, <2>2 DEF ReadOutbox, StartServer, ForgetEngine, EndDelete, DispatchOutgoing, LookUp, Respond,
                      allVars, engineVars
<1>3. MainMovesOn /\ LoadsNoMore /\ PostsNoMore /\ WaitsNoMore
  BY <1>1, <1>2, NoMoreLoad, NoMorePost, NoMoreWait DEF MainMovesOn
<1>. QED
  BY <1>1, <1>3, CopiesKept

\* Nothing is in hand and nothing was posted to the url.
NoCopies ==
    /\ chIncoming = <<>> /\ queue["incoming"] = EmptyQueue
    /\ \A v \in Workers : wpc[v] = "new" /\ phase[v] = "load"
    /\ mpc # "inbox" /\ raced = {} /\ faults \in Nat
    /\ \A id \in MsgIds : forwarded[id] = 0

LEMMA NoCopiesFit == NoCopies => IInvCopies
<1>. SUFFICES ASSUME NoCopies, NEW id \in MsgIds PROVE Copies(id) + forwarded[id] <= Allowed(id)
  BY DEF IInvCopies, CopiesFit, RacedFits, NoCopies
<1>1. Count(<<>>, id) = 0
  <2>1. {i \in DOMAIN <<>> : <<>>[i] = id} = {}
    OBVIOUS
  <2>. QED
    BY <2>1, FS_EmptySet DEF Count
<1>2. Count(chIncoming, id) = 0 /\ CountQueue(queue["incoming"], id) = 0
  BY <1>1 DEF NoCopies, CountQueue, EmptyQueue
<1>3. Loading(id) = {} /\ Posting(id) = {}
  BY DEF NoCopies, Loading, Posting, Workers
<1>4. Cardinality(Loading(id)) = 0 /\ Cardinality(Posting(id)) = 0
  BY <1>3, FS_EmptySet
<1>5. Waiting(id) = 0 /\ forwarded[id] = 0
  BY DEF NoCopies, Waiting, OneIf
<1>6. Copies(id) + forwarded[id] = 0
  BY <1>2, <1>4, <1>5 DEF Copies
<1>7. faults \in Nat /\ \A b : OneIf(b) \in Nat
  BY DEF NoCopies, OneIf
<1>8. Allowed(id) \in Nat
  BY <1>7 DEF Allowed
<1>. QED
  BY <1>6, <1>8

LEMMA CopiesStart == EngineInit => IInvCopies
<1>. SUFFICES ASSUME EngineInit PROVE NoCopies
  BY NoCopiesFit
<1>. QED
  BY DEF EngineInit, Init, NoCopies, Directions

LEMMA CopiesOfCrash ==
    ASSUME IInvEngine, [EngineNext]_allVars, Crash
    PROVE  IInvCopies'
<1>1. Dies /\ faults \in Nat
  BY PartsBoth DEF Crash, PartsFit
<1>2. NoCopies'
  BY <1>1 DEF Dies, NoCopies, Directions
<1>3. NoCopies' => IInvCopies'
  BY NoCopiesFit, PTL
<1>. QED
  BY <1>2, <1>3

LEMMA CopiesKeep == IInvEngine /\ IInvCopies /\ [EngineNext]_allVars => IInvCopies'
<1>. SUFFICES ASSUME IInvEngine, IInvCopies, [EngineNext]_allVars PROVE IInvCopies'
  OBVIOUS
<1>. USE DEF mainVars, requestVars, outsideVars, countVars, bodyVars
<1>1. CASE EngineNext
  <2>1. /\ "outgoing" \in Directions /\ "incoming" \in Directions
        /\ Senders \subseteq Workers /\ Receivers \subseteq Workers
        /\ WorkersOf("outgoing") = Senders /\ WorkersOf("incoming") = Receivers
    BY DEF Directions, WorkersOf, Workers
  <2>2. CASE \/ DispatcherRuns \/ BeginDelete \/ WaitForWorkers
             \/ \E d \in Directions : \E w \in WorkersOf(d) : WorkerRuns(d, w)
    <3>1. QuietLoopStep /\ UNCHANGED <<phase, held, mpc, backlog, forwarded, faults, raced>>
      BY <2>2 DEF DispatcherRuns, BeginDelete, WaitForWorkers, WorkerRuns, QuietLoopStep, engineVars
    <3>. QED
      BY <3>1, CopiesOfLoop
  <2>3. ASSUME NEW w \in Senders, SenderStep(w) PROVE IInvCopies'
    <3>1. CASE WorkerRuns("outgoing", w)
      BY <2>1, <2>2, <3>1
    <3>2. CASE EchoSend(w) \/ EchoMark(w)
      BY <2>1, <3>2, CopiesOfBody
    <3>3. CASE EchoWrite(w)
      BY <3>3, CopiesOfEchoWrite
    <3>4. CASE EchoPost(w)
      BY <3>4, CopiesOfEchoPost
    <3>. QED
      BY <2>3, <3>1, <3>2, <3>3, <3>4 DEF SenderStep
  <2>4. ASSUME NEW w \in Receivers, ReceiverStep(w) PROVE IInvCopies'
    <3>1. CASE WorkerRuns("incoming", w)
      BY <2>1, <2>2, <3>1
    <3>2. CASE HttpForward(w)
      BY <3>2, CopiesOfForward
    <3>3. CASE HttpMark(w)
      BY <2>1, <3>3, CopiesOfBody
    <3>. QED
      BY <2>4, <3>1, <3>2, <3>3 DEF ReceiverStep
  <2>5. CASE MainStep
    BY <2>5, CopiesOfOutside, CopiesOfReadInbox, CopiesOfDispatch DEF MainStep
  <2>6. ASSUME NEW r \in Requests, LookUp(r) \/ PutMessage(r) \/ Respond(r) PROVE IInvCopies'
    BY <2>6, CopiesOfOutside
  <2>7. CASE ForgetEngine \/ EndDelete
    BY <2>7, CopiesOfOutside
  <2>8. CASE Crash
    BY <2>8, CopiesOfCrash
  <2>. QED
    BY <1>1, <2>2, <2>3, <2>4, <2>5, <2>6, <2>7, <2>8 DEF EngineNext, EngineRun, DeleteStep
<1>2. CASE UNCHANGED allVars
  BY <1>2, CopiesOfOutside
<1>. QED
  BY <1>1, <1>2

\* A worker repeats no message within a run: what a sender sends goes out once, and
\* a receiver posts a message once, once more when it was saved before main read the
\* inbox, and once more for each transaction that failed.
THEOREM NothingIsRepeated == DeleteSpec => []OncePerRun
<1>1. IInvEngine /\ IInvOnce /\ IInvCopies => OncePerRun
  <2>. SUFFICES ASSUME IInvEngine, IInvCopies, NEW id \in MsgIds
                PROVE  forwarded[id] <= 1 + faults + (IF id \in raced THEN 1 ELSE 0)
    BY DEF OncePerRun, SentOncePerRun, ForwardedOncePerRun, IInvOnce, CountsFit
  <2>1. PartsFit /\ Copies(id) + forwarded[id] <= Allowed(id)
    BY PartsAlwaysFit DEF IInvCopies, CopiesFit
  <2>. DEFINE a == mpc \in {"inbox", "serving"} /\ (Exists => id \in Filed(db[Conn]))
              b == id \in raced
  <2>2. Copies(id) \in Nat /\ forwarded[id] \in Nat /\ faults \in Nat
    <3>1. PartsFit => Copies(id) \in Nat
      BY DEF PartsFit, Copies
    <3>. QED
      BY <2>1, <3>1 DEF PartsFit
  <2>3. Allowed(id) = faults + OneIf(b) + OneIf(a)
    BY DEF Allowed
  <2>4. OneIf(a) \in 0 .. 1 /\ OneIf(b) \in 0 .. 1 /\ OneIf(b) = IF b THEN 1 ELSE 0
    BY DEF OneIf
  <2>. HIDE DEF a
  <2>5. forwarded[id] <= 1 + faults + OneIf(b)
    BY <2>1, <2>2, <2>3, <2>4
  <2>. QED
    BY <2>4, <2>5
<1>2. DeleteSpec => []IInvCopies
  BY EngineAlways, CopiesStart, CopiesKeep, PTL DEF DeleteSpec
<1>. QED
  BY <1>1, <1>2, EngineAlways, OnceAlways, PTL
=============================================================================
