---------------------------- MODULE TwitterProofs ----------------------------
(***************************************************************************)
(* Module Twitter, proved for every number of senders, receivers, requests,*)
(* direct messages, rate limits, crashes and deletions: the types, and that*)
(* a direct message is saved once for each stream.  Whatever both kinds of *)
(* connection do is proved in module EngineProofs.                         *)
(***************************************************************************)
EXTENDS TwitterProperties, MessageProofs

\* A message in the store is told to come from Twitter, and from whom, by what it
\* says.
TwitterParameters ==
    /\ MaxLimits \in Nat
    /\ Messages \cap OwnMessages = {}
    /\ (Messages \cup OwnMessages) \subseteq Texts \ Requests

-----------------------------------------------------------------------------
(* The inductive invariant *)

StreamTypes ==
    /\ spc \in [Senders -> {"new", "listen", "save", "post", "exited"}]
    /\ sheld \in [Senders -> HeldMsg \cup {BlankMsg}]
    /\ loop \in [Senders -> {"off", "request", "listen", "offer", "failed", "left"}]
    /\ heard \in [Senders -> SUBSET Messages]
    /\ event \in [Senders -> Messages \cup OwnMessages \cup {NoText}]
    /\ quit \subseteq Senders
    /\ limits \in 0 .. MaxLimits /\ panicked \in BOOLEAN

\* What a stream offers and what its goroutine is about to save has been heard,
\* and they are two messages.
StreamFits(w) ==
    /\ (loop[w] = "offer") = (event[w] # NoText)
    /\ event[w] \in Messages => event[w] \in heard[w]
    /\ spc[w] = "new" => loop[w] = "off"
    /\ spc[w] = "save" => \E x \in Messages : /\ sheld[w] = NewMsg(Conn, x, "L")
                                              /\ x \in heard[w] /\ x # event[w]
    /\ spc[w] = "post" => sheld[w] \in HeldMsg

\* Only a deletion closes Done or a stream, and it had room for trouble.
EndsFit ==
    /\ done \/ quit # {} => deletion # "none"
    /\ deletion # "none" => crashes < MaxTroubles

\* Streams that are done with message x: heard it and have neither to offer nor to
\* save it any more.
Settled(x) ==
    {w \in Senders : x \in heard[w] /\ event[w] # x /\ ~(spc[w] = "save" /\ sheld[w].text = x)}
SavedIn(d, x) == {id \in DOMAIN d[Conn].msgs : d[Conn].msgs[id].text = x}
SavedAs(x) == SavedIn(db, x)

SavedFits ==
    Exists => /\ \A x \in Messages : Cardinality(SavedAs(x)) <= Cardinality(Settled(x))
              /\ \A x \in OwnMessages : SavedAs(x) = {}

IInvStreams == StreamTypes /\ (\A w \in Senders : StreamFits(w)) /\ EndsFit /\ SavedFits
IInvTwitter == TwitterParameters /\ IInvEngine /\ IInvStreams

LEMMA TextsOfTwitter ==
    TwitterParameters => /\ NoText \notin Messages \cup OwnMessages
                         /\ \A x \in Messages : NewMsg(Conn, x, "L") \in HeldMsg
                         /\ \A x \in Messages \cup OwnMessages : x \in Texts /\ x \notin Requests
                         /\ \A x \in Messages : x \notin OwnMessages
BY StoreAssumption DEF TwitterParameters, NewMsg, HeldMsg, Priorities, Statuses

LEMMA TwitterStarts == TwitterParameters /\ TwitterInit => IInvTwitter
<1>. SUFFICES ASSUME TwitterParameters, TwitterInit PROVE IInvTwitter
  OBVIOUS
<1>1. IInvEngine
  BY EngineStarts DEF TwitterInit
<1>2. StreamTypes
  <2>1. 0 \in 0 .. MaxLimits
    BY DEF TwitterParameters
  <2>. QED
    BY <2>1 DEF TwitterInit, StreamTypes
<1>3. \A w \in Senders : StreamFits(w)
  BY TextsOfTwitter DEF TwitterInit, StreamFits
<1>4. EndsFit
  BY DEF TwitterInit, EngineInit, Init, EndsFit
<1>5. SavedFits
  <2>1. DOMAIN db[Conn].msgs = {}
    <3>1. DOMAIN << >> = {}
      OBVIOUS
    <3>2. ~HasBucket(<< >>, Conn)
      BY <3>1, Zenon DEF HasBucket
    <3>3. db = Put(<< >>, Conn, NewBucket)
      BY <3>2 DEF TwitterInit, EngineInit, SaveConnection
    <3>4. db[Conn] = NewBucket
      BY <3>3 DEF Put
    <3>. QED
      BY <3>1, <3>4 DEF NewBucket
  <2>2. \A x : SavedAs(x) = {}
    BY <2>1 DEF SavedAs, SavedIn
  <2>3. \A x : IsFiniteSet(Settled(x))
    BY WorkersAssumption, FS_Subset DEF Settled
  <2>4. \A x : 0 <= Cardinality(Settled(x))
    BY <2>3, FS_CardinalityType
  <2>5. Cardinality({}) = 0
    BY FS_EmptySet
  <2>. QED
    BY <2>2, <2>4, <2>5 DEF SavedFits
<1>. QED
  BY <1>1, <1>2, <1>3, <1>4, <1>5 DEF IInvTwitter, IInvStreams

-----------------------------------------------------------------------------
(* What a step does to the direct messages in the store *)

SettledStay == \A x \in Messages : Settled(x) \subseteq Settled(x)'
NothingSaved ==
    HasBucket(db', Conn) =>
        Exists /\ \A x \in Messages \cup OwnMessages : SavedIn(db', x) \subseteq SavedIn(db, x)

LEMMA SavedCounts ==
    ASSUME NEW d, DbFits(d), HasBucket(d, Conn), NEW x
    PROVE  IsFiniteSet(SavedIn(d, x))
<1>1. DOMAIN d[Conn].msgs \subseteq MsgIds
  <2>1. BucketFits(d[Conn])
    BY DEF DbFits
  <2>2. Drawn(d[Conn].seq) \subseteq MsgIds
    BY <2>1, DrawnAreIds DEF BucketFits
  <2>. QED
    BY <2>1, <2>2 DEF BucketFits, MessagesFit, BoxesFit, Filed, Outgoing, BoxNames
<1>2. IsFiniteSet(MsgIds)
  <2>1. MaxSeq \in Nat /\ LowPriorityMask \in Nat
    BY EngineAssumption, MaskAssumption
  <2>2. IsFiniteSet(1 .. LowPriorityMask + MaxSeq)
    BY <2>1, FS_Interval
  <2>3. MsgIds \subseteq 1 .. LowPriorityMask + MaxSeq
    BY <2>1 DEF MsgIds
  <2>. QED
    BY <2>2, <2>3, FS_Subset
<1>. QED
  BY <1>1, <1>2, FS_Subset DEF SavedIn

LEMMA SettledCounts == \A S : S \subseteq Senders => IsFiniteSet(S) /\ Cardinality(S) \in Nat
BY WorkersAssumption, FS_Subset, FS_CardinalityType

LEMMA SavedKept ==
    ASSUME IInvEngine, SavedFits, SettledStay, NothingSaved
    PROVE  SavedFits'
<1>. SUFFICES ASSUME HasBucket(db', Conn)
              PROVE  /\ \A x \in Messages : Cardinality(SavedIn(db', x)) <= Cardinality(Settled(x)')
                     /\ \A x \in OwnMessages : SavedIn(db', x) = {}
  BY DEF SavedFits, SavedAs, Exists
<1>1. /\ Exists /\ DbFits(db) /\ HasBucket(db, Conn)
      /\ \A x \in Messages : Cardinality(SavedIn(db, x)) <= Cardinality(Settled(x))
      /\ \A x \in OwnMessages : SavedIn(db, x) = {}
  BY DEF IInvEngine, SavedFits, SavedAs, Exists, NothingSaved
<1>2. ASSUME NEW x \in Messages
      PROVE  Cardinality(SavedIn(db', x)) <= Cardinality(Settled(x)')
  <2>1. /\ SavedIn(db', x) \subseteq SavedIn(db, x) /\ IsFiniteSet(SavedIn(db, x))
        /\ Settled(x) \subseteq Settled(x)' /\ Settled(x) \subseteq Senders
        /\ Settled(x)' \subseteq Senders
    BY <1>1, <1>2, SavedCounts DEF NothingSaved, SettledStay, Settled
  <2>2. /\ Cardinality(SavedIn(db', x)) \in Nat /\ Cardinality(SavedIn(db, x)) \in Nat
        /\ Cardinality(SavedIn(db', x)) <= Cardinality(SavedIn(db, x))
    BY <2>1, FS_Subset, FS_CardinalityType
  <2>3. Cardinality(Settled(x)) <= Cardinality(Settled(x)')
    BY <2>1, SettledCounts, FS_Subset
  <2>4. Cardinality(Settled(x)) \in Nat /\ Cardinality(Settled(x)') \in Nat
    BY <2>1, SettledCounts
  <2>5. Cardinality(SavedIn(db, x)) <= Cardinality(Settled(x))
    BY <1>1
  <2>. QED
    BY <2>2, <2>3, <2>4, <2>5
<1>3. ASSUME NEW x \in OwnMessages PROVE SavedIn(db', x) = {}
  BY <1>1, <1>3 DEF NothingSaved
<1>. QED
  BY <1>2, <1>3

\* Only the message that is filed can be one more that says x.
LEMMA FiledSays ==
    ASSUME NEW d, NEW e, DbFits(d), DbFits(e), KeepsMessages(d, e), NEW id, NEW add, NEW del,
           Files(d, e, id, add, del), add # "", NEW x
    PROVE  /\ SavedIn(e, x) \subseteq SavedIn(d, x) \cup {id}
           /\ id \in Filed(d[Conn]) \/ e[Conn].msgs[id].text # x => SavedIn(e, x) \subseteq SavedIn(d, x)
<1>1. /\ HasBucket(d, Conn) /\ HasBucket(e, Conn)
      /\ DOMAIN d[Conn].msgs = Filed(d[Conn]) /\ DOMAIN e[Conn].msgs = Filed(e[Conn])
  BY DEF Files, DbFits, BucketFits, MessagesFit
<1>2. Filed(e[Conn]) \subseteq Filed(d[Conn]) \cup {id}
  BY <1>1 DEF Files, Filed, Outgoing, BoxNames
<1>3. \A k \in Filed(d[Conn]) : e[Conn].msgs[k].text = d[Conn].msgs[k].text
  BY <1>1 DEF KeepsMessages
<1>4. ASSUME NEW k \in SavedIn(e, x), k \in Filed(d[Conn]) PROVE k \in SavedIn(d, x)
  BY <1>1, <1>3, <1>4 DEF SavedIn
<1>5. ASSUME NEW k \in SavedIn(e, x), k \notin Filed(d[Conn])
      PROVE  k = id /\ e[Conn].msgs[k].text = x
  BY <1>1, <1>2, <1>5 DEF SavedIn
<1>. QED
  BY <1>4, <1>5

\* A request's message is no direct message, and neither is one that is marked.
LEMMA NothingSavedByMark ==
    ASSUME DbFits(db), NEW o, NEW m, NEW status, NEW add, NEW del,
           Marked(db, o, m, status, add, del), Loaded(m, db), add # "", db' = o.db
    PROVE  NothingSaved
<1>1. CASE o.err
  BY <1>1 DEF Marked, NothingSaved, Exists
<1>2. CASE ~o.err
  <2>1. Files(db, o.db, m.id, add, del) /\ StepFits(db, o.db)
    BY <1>2 DEF Marked
  <2>2. m.id \in Filed(db[Conn])
    BY <2>1 DEF Files, Loaded
  <2>3. \A x : SavedIn(o.db, x) \subseteq SavedIn(db, x)
    BY <2>1, <2>2, FiledSays DEF StepFits
  <2>. QED
    BY <2>1, <2>3 DEF NothingSaved, Files, Exists
<1>. QED
  BY <1>1, <1>2

LEMMA NothingSavedByPut ==
    ASSUME TwitterParameters, IInvEngine, NEW r \in Requests, PutMessage(r)
    PROVE  NothingSaved
<1>1. PICK o \in SaveOutcomes(db, NewMsg(Conn, r, PriorityOf(r)), "outbox", "") :
               Transact(o) /\ Written(db, o, r, PriorityOf(r), "outbox")
  BY PutOutcome
<1>2. db' = o.db /\ DbFits(db)
  BY <1>1 DEF Transact, IInvEngine
<1>3. CASE o.err
  BY <1>1, <1>2, <1>3 DEF Written, NothingSaved, Exists
<1>4. CASE ~o.err
  <2>1. /\ Files(db, o.db, o.msg.id, "outbox", "") /\ StepFits(db, o.db)
        /\ o.db[Conn].msgs[o.msg.id].text = r
    BY <1>1, <1>4 DEF Written
  <2>2. DbFits(o.db) /\ KeepsMessages(db, o.db)
    BY <2>1 DEF StepFits
  <2>3. ASSUME NEW x \in Messages \cup OwnMessages PROVE SavedIn(o.db, x) \subseteq SavedIn(db, x)
    <3>1. o.db[Conn].msgs[o.msg.id].text # x /\ "outbox" # ""
      BY <2>1, TextsOfTwitter
    <3>2. PICK id : id = o.msg.id
      OBVIOUS
    <3>3. Files(db, o.db, id, "outbox", "") /\ o.db[Conn].msgs[id].text # x
      BY <2>1, <3>1, <3>2
    <3>. QED
      BY <1>2, <2>2, <3>1, <3>3, FiledSays
  <2>. QED
    BY <1>2, <2>1, <2>3 DEF NothingSaved, Files, Exists
<1>. QED
  BY <1>3, <1>4

-----------------------------------------------------------------------------
(* The steps that are those of module Engine *)

EngineStep ==
    \/ DispatcherRuns \/ MainStep \/ DeleteStep
    \/ \E d \in Directions : \E w \in WorkersOf(d) : WorkerRuns(d, w)
    \/ \E w \in Receivers : HttpForward(w) \/ HttpMark(w)
    \/ \E r \in Requests : LookUp(r) \/ PutMessage(r) \/ Respond(r)

LEMMA TheirSteps ==
    /\ EngineStep => EngineNext
    /\ Rest \/ (\E w \in Senders : WorkerRuns("outgoing", w)) => EngineStep
<1>1. /\ "outgoing" \in Directions /\ "incoming" \in Directions
      /\ WorkersOf("outgoing") = Senders /\ WorkersOf("incoming") = Receivers
      /\ \A d \in Directions : d = "outgoing" \/ d = "incoming"
  BY DEF Directions, WorkersOf
<1>2. EngineStep => EngineNext
  BY <1>1 DEF EngineStep, EngineNext, EngineRun, SenderStep, ReceiverStep
<1>3. Rest \/ (\E w \in Senders : WorkerRuns("outgoing", w)) => EngineStep
  BY <1>1 DEF EngineStep, Rest, ReceiverStep
<1>. QED
  BY <1>2, <1>3

\* None of them is a crash.
LEMMA EngineStepsOn == IInvEngine /\ EngineStep => ~Crash
<1>. SUFFICES ASSUME IInvEngine, EngineStep PROVE ~Crash
  OBVIOUS
<1>1. crashes' = crashes /\ crashes \in Nat
  BY DEF IInvEngine, EngineTypes, EngineStep, DispatcherRuns, MainStep, DeleteStep, WorkerRuns, HttpForward,
         HttpMark, LookUp, PutMessage, Respond, ReadOutbox, ReadInbox, StartServer, DispatchOutgoing,
         DispatchIncoming, BeginDelete, WaitForWorkers, ForgetEngine, EndDelete, engineVars, outsideVars
<1>. QED
  BY <1>1 DEF Crash, Dies

LEMMA EndsOfEngine ==
    ASSUME IInvEngine, EndsFit, EngineStep, UNCHANGED quit
    PROVE  EndsFit'
<1>. USE DEF mainVars, requestVars, outsideVars, countVars, bodyVars
<1>1. CASE BeginDelete
  <2>1. deletion' # "none" /\ crashes' = crashes /\ RoomForTrouble /\ deletion = "none"
    BY <1>1 DEF BeginDelete
  <2>2. crashes < MaxTroubles
    <3>1. crashes \in Nat /\ faults \in Nat /\ MaxTroubles \in Nat
      BY EngineAssumption DEF IInvEngine, EngineTypes
    <3>. QED
      BY <2>1, <3>1 DEF RoomForTrouble
  <2>. QED
    BY <2>1, <2>2 DEF EndsFit
<1>2. CASE ~BeginDelete
  <2>1. crashes' = crashes /\ (deletion' = "none" <=> deletion = "none")
    BY <1>2 DEF EngineStep, DispatcherRuns, MainStep, DeleteStep, WorkerRuns, HttpForward, HttpMark,
                LookUp, PutMessage, Respond, ReadOutbox, ReadInbox, StartServer, DispatchOutgoing,
                DispatchIncoming, WaitForWorkers, ForgetEngine, EndDelete, engineVars
  <2>2. done' = done
    <3>1. CASE \/ DispatcherStep \/ StopWait
               \/ \E d \in Directions : \E w \in WorkersOf(d) :
                     WorkerBegin(w) \/ Announce(d, w) \/ WorkerExit(w)
      BY <3>1 DEF DispatcherStep, DispatcherBegin, ReceiveOutgoing, ReceiveIncoming, ReceiveReady, GiveJob,
                  MatchEnd, DispatcherExit, StopWait, WorkerBegin, Announce, WorkerExit, WaitGroupAdd,
                  WaitGroupDone, stopVars
    <3>2. CASE \/ MainStep \/ ForgetEngine \/ EndDelete
               \/ \E w \in Receivers : HttpForward(w) \/ HttpMark(w)
               \/ \E r \in Requests : LookUp(r) \/ PutMessage(r) \/ Respond(r)
      BY <3>2 DEF MainStep, ForgetEngine, EndDelete, HttpForward, HttpMark, LookUp, PutMessage, Respond,
                  ReadOutbox, ReadInbox, StartServer, DispatchOutgoing, DispatchIncoming, vars, stopVars
    <3>. QED
      BY <1>2, <3>1, <3>2 DEF EngineStep, DispatcherRuns, DeleteStep, WaitForWorkers, WorkerRuns
  <2>. QED
    BY <2>1, <2>2 DEF EndsFit
<1>. QED
  BY <1>1, <1>2

LEMMA NothingSavedByEngine ==
    ASSUME TwitterParameters, IInvEngine, EngineStep
    PROVE  NothingSaved
<1>1. CASE \E r \in Requests : PutMessage(r)
  BY <1>1, NothingSavedByPut
<1>2. ASSUME NEW w \in Receivers, HttpMark(w) PROVE NothingSaved
  <2>0. /\ w \in Workers /\ phase[w] = "mark" /\ DbFits(db)
        /\ BodyFits(w, wpc[w], phase[w], held[w], job[w], db)
    BY <1>2 DEF IInvEngine, Workers, WorkerFits, HttpMark
  <2>1. PICK o \in SaveOutcomes(db, [held[w] EXCEPT !.status = "H"], "handled", "inbox") : Transact(o)
    BY <1>2 DEF HttpMark, MarkHandled
  <2>2. db' = o.db
    BY <2>1 DEF Transact
  <2>3. /\ held[w] = BlankMsg => o.db = db
        /\ held[w] # BlankMsg => Marked(db, o, held[w], "H", "handled", "inbox")
    BY <2>0, <2>1, MarkOfHeld DEF Statuses
  <2>4. CASE held[w] = BlankMsg
    BY <2>2, <2>3, <2>4 DEF NothingSaved, Exists
  <2>5. CASE held[w] # BlankMsg
    <3>1. Loaded(held[w], db) /\ "handled" # ""
      BY <2>0, <2>5 DEF BodyFits
    <3>. QED
      BY <2>0, <2>2, <2>3, <2>5, <3>1, NothingSavedByMark
  <2>. QED
    BY <2>4, <2>5
<1>3. CASE EndDelete
  <2>1. ~HasBucket(db', Conn)
    BY <1>3 DEF EndDelete, DeleteConnection, HasBucket
  <2>. QED
    BY <2>1 DEF NothingSaved
<1>4. CASE db' = db
  BY <1>4 DEF NothingSaved, Exists
<1>5. CASE \/ DispatcherRuns \/ MainStep \/ BeginDelete \/ WaitForWorkers \/ ForgetEngine
           \/ \E d \in Directions : \E w \in WorkersOf(d) : WorkerRuns(d, w)
           \/ \E w \in Receivers : HttpForward(w)
           \/ \E r \in Requests : LookUp(r) \/ Respond(r)
  BY <1>4, <1>5 DEF DispatcherRuns, MainStep, BeginDelete, WaitForWorkers, ForgetEngine, WorkerRuns,
              HttpForward, LookUp, Respond, ReadOutbox, ReadInbox, StartServer, DispatchOutgoing,
              DispatchIncoming, engineVars
<1>. QED
  BY <1>1, <1>2, <1>3, <1>5 DEF EngineStep, DeleteStep

LEMMA StreamsUntouched ==
    ASSUME StreamTypes, \A w \in Senders : StreamFits(w), UNCHANGED <<streamVars, heard, limits, panicked>>
    PROVE  StreamTypes' /\ (\A w \in Senders : StreamFits(w)') /\ SettledStay
<1>. USE DEF streamVars
<1>1. StreamTypes'
  BY DEF StreamTypes
<1>2. \A w \in Senders : StreamFits(w)'
  BY DEF StreamFits
<1>3. SettledStay
  BY DEF SettledStay, Settled
<1>. QED
  BY <1>1, <1>2, <1>3

LEMMA TwitterOfEngine ==
    ASSUME IInvTwitter, EngineStep, UNCHANGED twitterVars
    PROVE  IInvTwitter'
<1>0. IInvEngine /\ StreamTypes /\ (\A w \in Senders : StreamFits(w)) /\ EndsFit /\ SavedFits
  BY DEF IInvTwitter, IInvStreams
<1>1. UNCHANGED <<streamVars, heard, limits, panicked>> /\ UNCHANGED quit
  BY DEF twitterVars, streamVars
<1>2. IInvEngine' /\ EndsFit'
  BY <1>0, <1>1, TheirSteps, EngineKeeps, EndsOfEngine
<1>3. StreamTypes' /\ (\A w \in Senders : StreamFits(w)') /\ SettledStay
  BY <1>0, <1>1, StreamsUntouched
<1>4. SavedFits'
  BY <1>0, <1>3, NothingSavedByEngine, SavedKept DEF IInvTwitter
<1>. QED
  BY <1>2, <1>3, <1>4 DEF IInvTwitter, IInvStreams, TwitterParameters

-----------------------------------------------------------------------------
(* The steps of the sending goroutine *)

\* A step of a sender: it touches neither a stream nor the deletion.
LEMMA SenderKept ==
    ASSUME IInvTwitter, IInvEngine', UNCHANGED <<streamVars, heard, done, deletion, crashes>>,
           limits' \in 0 .. MaxLimits, panicked' = panicked, NothingSaved
    PROVE  IInvTwitter'
<1>. USE DEF streamVars
<1>0. StreamTypes /\ (\A w \in Senders : StreamFits(w)) /\ EndsFit /\ SavedFits /\ IInvEngine
  BY DEF IInvTwitter, IInvStreams
<1>1. StreamTypes' /\ EndsFit'
  BY <1>0 DEF StreamTypes, EndsFit
<1>2. (\A w \in Senders : StreamFits(w)') /\ SettledStay
  BY <1>0 DEF StreamFits, SettledStay, Settled
<1>3. SavedFits'
  BY <1>0, <1>2, SavedKept
<1>. QED
  BY <1>1, <1>2, <1>3 DEF IInvTwitter, IInvStreams, TwitterParameters

LEMMA TwitterLoadKeeps ==
    ASSUME IInvEngine, NEW w \in Senders, TwitterLoad(w)
    PROVE  IInvEngine'
<1>. USE DEF mainVars, requestVars, outsideVars, countVars, bodyVars
<1>0. /\ EngineTypes /\ DbFits(db) /\ HandsFit /\ WorkerFits(w) /\ w \in Workers
      /\ w \notin Receivers /\ StepFits(db, db)
  BY StoreStays, WorkersAssumption DEF IInvEngine, Workers
<1>1. PICK m : m = MsgFromId(db, Conn, job[w])
  OBVIOUS
<1>2. PICK ph \in {"mark", "query"} : /\ phase' = [phase EXCEPT ![w] = ph]
                                      /\ ph = "query" => m # BlankMsg
  BY <1>1 DEF TwitterLoad
<1>3. /\ wpc[w] = "busy" /\ held' = [held EXCEPT ![w] = m]
      /\ UNCHANGED <<vars, db, faults, mpc, backlog, rpc, rid, deletion, crashes,
                     transmitted, forwarded, raced>>
  BY <1>1 DEF TwitterLoad
<1>4. \/ m = BlankMsg
      \/ Exists /\ Loaded(m, db) /\ m.id = job[w] /\ m \in HeldMsg
  BY <1>0, <1>1, LoadedMessage DEF Exists, Loaded
<1>5. m # BlankMsg => m.text \in Requests
  <2>. SUFFICES ASSUME m # BlankMsg PROVE m.text \in Requests
    OBVIOUS
  <2>1. Exists /\ Loaded(m, db) /\ m.id \in Outgoing(db[Conn])
    BY <1>0, <1>3, <1>4, JobIsInHand DEF HandsFit, OnTheWay
  <2>2. db[Conn].msgs[m.id].text \in Requests
    BY <1>0, <2>1 DEF DbFits, BucketFits, MessagesFit, Exists
  <2>. QED
    BY <2>1, <2>2 DEF Loaded, Exists
<1>6. phase'[w] = ph /\ held'[w] = m /\ wpc'[w] = "busy" /\ job'[w] = job[w] /\ db' = db
  BY <1>0, <1>2, <1>3 DEF EngineTypes, vars, workerVars
<1>7. WorkerFits(w)'
  <2>1. BodyFits(w, "busy", ph, m, job[w], db)
    BY <1>0, <1>2, <1>4, <1>5 DEF BodyFits
  <2>. QED
    BY <1>6, <2>1 DEF WorkerFits
<1>8. EngineTypes'
  <2>1. /\ phase' \in [Workers -> {"load", "mark", "echo", "post", "query", "limited"}]
        /\ held' \in [Workers -> HeldMsg \cup {BlankMsg}]
    BY <1>0, <1>2, <1>3, <1>4 DEF EngineTypes
  <2>. QED
    BY <1>0, <1>3, <2>1 DEF EngineTypes
<1>9. \A v \in Workers \ {w} : phase'[v] = phase[v] /\ held'[v] = held[v]
  BY <1>0, <1>2, <1>3 DEF EngineTypes
<1>. QED
  BY <1>0, <1>3, <1>6, <1>7, <1>8, <1>9, BodyStepKept

\* A query is executed, or its goroutine sleeps or wakes up.
LEMMA QueryKeeps ==
    ASSUME IInvEngine, NEW w \in Senders, Query(w) \/ WakeUp(w)
    PROVE  IInvEngine'
<1>. USE DEF mainVars, requestVars, outsideVars, countVars, bodyVars
<1>0. /\ EngineTypes /\ DbFits(db) /\ WorkerFits(w) /\ w \in Workers
      /\ w \notin Receivers /\ StepFits(db, db)
  BY StoreStays, WorkersAssumption DEF IInvEngine, Workers
<1>1. PICK ph \in {"mark", "query", "limited"} : phase' = [phase EXCEPT ![w] = ph]
  BY DEF Query, WakeUp
<1>2. /\ phase[w] \in {"query", "limited"}
      /\ UNCHANGED <<vars, held, db, faults, mpc, backlog, rpc, rid, deletion, crashes, forwarded, raced>>
  BY DEF Query, WakeUp
<1>3. wpc[w] = "busy" /\ held[w] # BlankMsg /\ held[w].id \in MsgIds
  BY <1>0, <1>2 DEF WorkerFits, BodyFits, Loaded
<1>4. transmitted' \in [MsgIds -> Nat]
  <2>0. transmitted \in [MsgIds -> Nat]
    BY <1>0 DEF EngineTypes
  <2>1. transmitted' = transmitted \/ transmitted' = [transmitted EXCEPT ![held[w].id] = @ + 1]
    BY DEF Query, WakeUp
  <2>. QED
    BY <1>3, <2>0, <2>1
<1>5. WorkerFits(w)'
  <2>1. phase'[w] = ph
    BY <1>0, <1>1 DEF EngineTypes
  <2>2. BodyFits(w, wpc[w], ph, held[w], job[w], db)
    BY <1>0, <1>2, <1>3 DEF WorkerFits, BodyFits
  <2>. QED
    BY <1>2, <2>1, <2>2 DEF WorkerFits, vars, workerVars
<1>6. EngineTypes'
  <2>1. phase' \in [Workers -> {"load", "mark", "echo", "post", "query", "limited"}]
    BY <1>0, <1>1 DEF EngineTypes
  <2>. QED
    BY <1>0, <1>2, <1>4, <2>1 DEF EngineTypes
<1>7. \A v \in Workers \ {w} : phase'[v] = phase[v] /\ held'[v] = held[v]
  BY <1>0, <1>1, <1>2 DEF EngineTypes
<1>. QED
  BY <1>0, <1>2, <1>5, <1>6, <1>7, BodyStepKept

\* TwitterMark and what its transaction comes to.
LEMMA TwitterMarkOutcome ==
    ASSUME IInvEngine, NEW w \in Senders, TwitterMark(w)
    PROVE  \E o \in SaveOutcomes(db, [held[w] EXCEPT !.status = "S"], "sent", "outbox") :
               /\ Transact(o) /\ db' = o.db /\ StepFits(db, o.db)
               /\ held[w] = BlankMsg => o.db = db
               /\ held[w] # BlankMsg => /\ Loaded(held[w], db) /\ held[w].id = job[w]
                                        /\ Marked(db, o, held[w], "S", "sent", "outbox")
<1>0. /\ w \in Workers /\ phase[w] = "mark"
      /\ BodyFits(w, wpc[w], phase[w], held[w], job[w], db)
  BY DEF IInvEngine, Workers, WorkerFits, TwitterMark
<1>1. PICK o \in SaveOutcomes(db, [held[w] EXCEPT !.status = "S"], "sent", "outbox") : Transact(o)
  BY DEF TwitterMark, MarkSent
<1>2. /\ StepFits(db, o.db)
      /\ held[w] = BlankMsg => o.db = db
      /\ held[w] # BlankMsg => Marked(db, o, held[w], "S", "sent", "outbox")
  BY <1>0, <1>1, MarkOfHeld DEF Statuses
<1>3. held[w] # BlankMsg => Loaded(held[w], db) /\ held[w].id = job[w]
  BY <1>0 DEF BodyFits
<1>. QED
  BY <1>1, <1>2, <1>3 DEF Transact

LEMMA TwitterMarkKeeps ==
    ASSUME IInvEngine, NEW w \in Senders, TwitterMark(w)
    PROVE  IInvEngine' /\ NothingSaved
<1>. USE DEF mainVars, requestVars, outsideVars, countVars, bodyVars
<1>0. /\ IInvTokens /\ EngineTypes /\ DbFits(db)
      /\ "outgoing" \in Directions /\ w \in WorkersOf("outgoing")
  BY DEF IInvEngine, Directions, WorkersOf
<1>1. /\ FinishJob("outgoing", w)
      /\ phase' = [phase EXCEPT ![w] = "load"] /\ held' = [held EXCEPT ![w] = BlankMsg]
      /\ UNCHANGED <<dispatcherVars, channelVars, posted, stopVars, mpc, backlog,
                     rpc, rid, deletion, crashes, transmitted, forwarded, raced>>
  BY DEF TwitterMark
<1>2. PICK o \in SaveOutcomes(db, [held[w] EXCEPT !.status = "S"], "sent", "outbox") :
               /\ Transact(o) /\ db' = o.db /\ StepFits(db, o.db)
               /\ held[w] = BlankMsg => o.db = db
               /\ held[w] # BlankMsg => /\ Loaded(held[w], db)
                                        /\ Marked(db, o, held[w], "S", "sent", "outbox")
  BY TwitterMarkOutcome
<1>3. faults' \in 0 .. MaxFaults
  BY <1>0, <1>2, TransactFits DEF EngineTypes
<1>4. IInvTokens'
  <2>1. TypeOK
    BY <1>0 DEF IInvTokens, IInvTypes
  <2>2. /\ UNCHANGED <<dispatcherVars, ready, stopVars>>
        /\ offered' \subseteq Id /\ chIncoming' \in Seq(Id)
        /\ posted' \in [Directions -> SUBSET Id]
    BY <1>1, <2>1 DEF TypeOK, channelVars
  <2>. QED
    BY <1>0, <1>1, <2>2, TokensOfPost
<1>5. UNCHANGED <<queue, offered>>
  BY <1>1 DEF dispatcherVars, channelVars
<1>6. IInvEngine'
  BY <1>0, <1>1, <1>2, <1>3, <1>4, <1>5, RoundEndKept
<1>7. NothingSaved
  <2>1. CASE held[w] = BlankMsg
    BY <1>2, <2>1 DEF NothingSaved, Exists
  <2>2. CASE held[w] # BlankMsg
    <3>1. "sent" # ""
      OBVIOUS
    <3>. QED
      BY <1>0, <1>2, <2>2, <3>1, NothingSavedByMark
  <2>. QED
    BY <2>1, <2>2
<1>. QED
  BY <1>6, <1>7

LEMMA TwitterOfSender ==
    ASSUME IInvTwitter, NEW w \in Senders,
           TwitterLoad(w) \/ Query(w) \/ WakeUp(w) \/ TwitterMark(w)
    PROVE  IInvTwitter'
<1>0. IInvEngine /\ StreamTypes /\ TwitterParameters
  BY DEF IInvTwitter, IInvStreams
<1>1. UNCHANGED <<streamVars, heard, done, deletion, crashes>> /\ panicked' = panicked
  BY DEF TwitterLoad, Query, WakeUp, TwitterMark, twitterVars, vars, stopVars, outsideVars
<1>2. limits' \in 0 .. MaxLimits
  <2>1. limits' = limits \/ (limits < MaxLimits /\ limits' = limits + 1)
    BY DEF TwitterLoad, Query, WakeUp, TwitterMark, twitterVars
  <2>. QED
    BY <1>0, <2>1 DEF StreamTypes, TwitterParameters
<1>3. IInvEngine'
  BY <1>0, TwitterLoadKeeps, QueryKeeps, TwitterMarkKeeps
<1>4. NothingSaved
  <2>1. CASE TwitterMark(w)
    BY <1>0, <2>1, TwitterMarkKeeps
  <2>2. CASE TwitterLoad(w) \/ Query(w) \/ WakeUp(w)
    BY <2>2 DEF TwitterLoad, Query, WakeUp, NothingSaved, Exists
  <2>. QED
    BY <2>1, <2>2
<1>. QED
  BY <1>1, <1>2, <1>3, <1>4, SenderKept

-----------------------------------------------------------------------------
(* The steps of a stream and of its loop *)

LEMMA TwitterKept ==
    ASSUME IInvTwitter, IInvEngine', StreamTypes', \A w \in Senders : StreamFits(w)', EndsFit',
           SettledStay, NothingSaved
    PROVE  IInvTwitter'
<1>1. SavedFits'
  BY SavedKept DEF IInvTwitter, IInvStreams
<1>. QED
  BY <1>1 DEF IInvTwitter, IInvStreams, TwitterParameters

\* A goroutine that joins or leaves the WaitGroup.
LEMMA EngineOfWaitGroup ==
    ASSUME IInvEngine, UNCHANGED <<unsentVars, chIncoming, posted, db, faults, countVars>>,
           WaitGroupAdd \/ WaitGroupDone
    PROVE  IInvEngine' /\ done' = done
<1>. USE DEF unsentVars, dispatcherVars, workerVars, bodyVars, mainVars, requestVars, outsideVars, countVars
<1>0. /\ IInvTokens /\ EngineTypes /\ DbFits(db) /\ MainFits
      /\ TypeOK /\ QueuesWellFormed /\ BusyHasJob /\ OneTokenPerWorker /\ ExitedOnlyWhenDone
  BY DEF IInvEngine, IInvTokens, IInvTypes
<1>1. /\ UNCHANGED <<dpc, queue, available, ready, offered, chIncoming, wpc, job, posted, finished,
                     done, late, db>>
      /\ wg' \in Int /\ stop' \in {"none", "closed", "waiting", "returned"}
  BY <1>0 DEF WaitGroupAdd, WaitGroupDone, TypeOK
<1>2. IInvTokens'
  <2>1. TypeOK'
    BY <1>0, <1>1 DEF TypeOK
  <2>2. QueuesWellFormed' /\ BusyHasJob' /\ ExitedOnlyWhenDone'
    BY <1>0, <1>1 DEF QueuesWellFormed, BusyHasJob, ExitedOnlyWhenDone
  <2>3. \A d \in Directions : Tokens(d)' = Tokens(d)
    BY <1>1 DEF Tokens
  <2>4. OneTokenPerWorker'
    BY <1>0, <1>1, <2>3 DEF OneTokenPerWorker
  <2>. QED
    BY <2>1, <2>2, <2>4 DEF IInvTokens, IInvTypes
<1>3. EngineTypes' /\ MainFits'
  BY <1>0 DEF EngineTypes, MainFits, Exists
<1>4. \A w \in Workers : Untouched(w)
  BY DEF Untouched
<1>5. OnTheWay' = OnTheWay
  <2>1. Hands("outgoing")' = Hands("outgoing")
    BY <1>1, HandsStay DEF Hands, Directions
  <2>. QED
    BY <2>1 DEF OnTheWay
<1>6. DbFits(db') /\ KeepsMessages(db, db')
  BY <1>0, <1>1, KeepsItself
<1>7. \A r \in Requests : rpc'[r] \in {"offering", "ok"} => rpc[r] \in {"offering", "ok"} /\ rid'[r] = rid[r]
  OBVIOUS
<1>. QED
  BY <1>1, <1>2, <1>3, <1>4, <1>5, <1>6, <1>7, EngineKept

LEMMA TwitterOfBegin ==
    ASSUME IInvTwitter, NEW w \in Senders, StreamBegin(w)
    PROVE  IInvTwitter'
<1>0. /\ IInvEngine /\ StreamTypes /\ EndsFit /\ \A v \in Senders : StreamFits(v)
  BY DEF IInvTwitter, IInvStreams
<1>1. /\ spc[w] = "new" /\ spc' = [spc EXCEPT ![w] = "listen"]
      /\ loop' = [loop EXCEPT ![w] = "request"] /\ UNCHANGED <<sheld, heard, event, quit, limits, panicked>>
      /\ UNCHANGED <<db, deletion, crashes>>
  BY DEF StreamBegin, unsentVars, outsideVars
<1>2. IInvEngine' /\ done' = done
  BY <1>0, EngineOfWaitGroup DEF StreamBegin
<1>3. StreamTypes'
  BY <1>0, <1>1 DEF StreamTypes
<1>4. ASSUME NEW v \in Senders PROVE StreamFits(v)'
  <2>0. StreamFits(v) /\ StreamFits(w)
    BY <1>0
  <2>1. CASE v = w
    <3>1. loop[w] = "off" /\ event[w] = NoText
      BY <1>1, <2>0 DEF StreamFits
    <3>2. spc'[w] = "listen" /\ loop'[w] = "request"
      BY <1>0, <1>1 DEF StreamTypes
    <3>. QED
      BY <1>1, <2>0, <2>1, <3>1, <3>2 DEF StreamFits
  <2>2. CASE v # w
    <3>1. spc'[v] = spc[v] /\ loop'[v] = loop[v]
      BY <1>0, <1>1, <2>2 DEF StreamTypes
    <3>. QED
      BY <1>1, <2>0, <3>1 DEF StreamFits
  <2>. QED
    BY <2>1, <2>2
<1>5. EndsFit'
  BY <1>0, <1>1, <1>2 DEF EndsFit
<1>6. SettledStay
  BY <1>0, <1>1 DEF SettledStay, Settled, StreamTypes
<1>7. NothingSaved
  BY <1>1 DEF NothingSaved, Exists
<1>. QED
  BY <1>2, <1>3, <1>4, <1>5, <1>6, <1>7, TwitterKept

LEMMA TwitterOfExit ==
    ASSUME IInvTwitter, NEW w \in Senders, StreamExit(w)
    PROVE  IInvTwitter'
<1>0. /\ IInvEngine /\ StreamTypes /\ EndsFit /\ \A v \in Senders : StreamFits(v)
  BY DEF IInvTwitter, IInvStreams
<1>1. /\ spc[w] = "listen" /\ done /\ spc' = [spc EXCEPT ![w] = "exited"] /\ quit' = quit \cup {w}
      /\ UNCHANGED <<sheld, loop, heard, event, limits, panicked, db, deletion, crashes>>
  BY DEF StreamExit, unsentVars, outsideVars
<1>2. IInvEngine' /\ done' = done
  BY <1>0, EngineOfWaitGroup DEF StreamExit
<1>3. StreamTypes'
  BY <1>0, <1>1 DEF StreamTypes
<1>4. ASSUME NEW v \in Senders PROVE StreamFits(v)'
  <2>1. spc'[v] = spc[v] \/ spc'[v] = "exited"
    BY <1>0, <1>1 DEF StreamTypes
  <2>. QED
    BY <1>0, <1>1, <2>1 DEF StreamFits
<1>5. EndsFit'
  BY <1>0, <1>1, <1>2 DEF EndsFit
<1>6. SettledStay
  BY <1>0, <1>1 DEF SettledStay, Settled, StreamTypes
<1>7. NothingSaved
  BY <1>1 DEF NothingSaved, Exists
<1>. QED
  BY <1>2, <1>3, <1>4, <1>5, <1>6, <1>7, TwitterKept

LEMMA TwitterOfHear ==
    ASSUME IInvTwitter, NEW w \in Senders, Hear(w)
    PROVE  IInvTwitter'
<1>0. /\ IInvEngine /\ StreamTypes /\ EndsFit /\ TwitterParameters /\ \A v \in Senders : StreamFits(v)
  BY DEF IInvTwitter, IInvStreams
<1>. PICK x : x = event[w]
  OBVIOUS
<1>1. /\ spc[w] = "listen" /\ loop[w] = "offer"
      /\ loop' = [loop EXCEPT ![w] = "listen"] /\ event' = [event EXCEPT ![w] = NoText]
      /\ \/ x \in OwnMessages /\ UNCHANGED <<spc, sheld>>
         \/ /\ x \notin OwnMessages /\ spc' = [spc EXCEPT ![w] = "save"]
            /\ sheld' = [sheld EXCEPT ![w] = NewMsg(Conn, x, "L")]
      /\ UNCHANGED <<allVars, heard, quit, limits, panicked>>
  BY DEF Hear
<1>2. /\ IInvEngine' /\ NothingSaved /\ EndsFit'
  <2>1. IInvEngine'
    BY <1>0, <1>1, EngineKeeps
  <2>2. UNCHANGED <<db, done, deletion, crashes>>
    BY <1>1 DEF allVars, engineVars, vars, stopVars, outsideVars
  <2>. QED
    BY <1>0, <1>1, <2>1, <2>2 DEF NothingSaved, Exists, EndsFit
<1>3. /\ NoText \notin Messages \cup OwnMessages /\ x \in Messages \cup OwnMessages
      /\ x \in Messages => x \in heard[w] /\ NewMsg(Conn, x, "L") \in HeldMsg
      /\ NewMsg(Conn, x, "L").text = x
  BY <1>0, <1>1, TextsOfTwitter DEF StreamFits, StreamTypes, NewMsg
<1>4. StreamTypes'
  BY <1>0, <1>1, <1>3 DEF StreamTypes
<1>5. /\ \A v \in Senders \ {w} : /\ spc'[v] = spc[v] /\ sheld'[v] = sheld[v]
                                  /\ loop'[v] = loop[v] /\ event'[v] = event[v]
      /\ loop'[w] = "listen" /\ event'[w] = NoText
      /\ \/ x \in OwnMessages /\ spc'[w] = "listen"
         \/ x \in Messages /\ spc'[w] = "save" /\ sheld'[w] = NewMsg(Conn, x, "L")
  BY <1>0, <1>1, <1>3 DEF StreamTypes
<1>6. ASSUME NEW v \in Senders PROVE StreamFits(v)'
  <2>1. CASE v = w
    BY <1>1, <1>3, <1>5, <2>1 DEF StreamFits
  <2>2. CASE v # w
    BY <1>0, <1>1, <1>5, <2>2 DEF StreamFits
  <2>. QED
    BY <2>1, <2>2
<1>7. SettledStay
  <2>. SUFFICES ASSUME NEW y \in Messages, NEW v \in Settled(y) PROVE v \in Settled(y)'
    BY DEF SettledStay
  <2>1. v \in Senders /\ y \in heard[v] /\ event[v] # y /\ ~(spc[v] = "save" /\ sheld[v].text = y)
    BY DEF Settled
  <2>2. CASE v = w
    BY <1>1, <1>3, <1>5, <2>1, <2>2 DEF Settled
  <2>3. CASE v # w
    BY <1>1, <1>5, <2>1, <2>3 DEF Settled
  <2>. QED
    BY <2>2, <2>3
<1>. QED
  BY <1>2, <1>4, <1>6, <1>7, TwitterKept

LEMMA TwitterOfLoop ==
    ASSUME IInvTwitter, NEW w \in Senders, LoopStep(w)
    PROVE  IInvTwitter'
<1>0. /\ IInvEngine /\ StreamTypes /\ EndsFit /\ TwitterParameters /\ \A v \in Senders : StreamFits(v)
  BY DEF IInvTwitter, IInvStreams
<1>1. UNCHANGED <<allVars, spc, sheld, limits, panicked, quit>>
  BY DEF LoopStep, Answer, SocketCloses, ReadLine, loopOnly
<1>2. /\ IInvEngine' /\ NothingSaved /\ EndsFit'
  <2>1. IInvEngine'
    BY <1>0, <1>1, EngineKeeps
  <2>2. UNCHANGED <<db, done, deletion, crashes>>
    BY <1>1 DEF allVars, engineVars, vars, stopVars, outsideVars
  <2>. QED
    BY <1>0, <1>1, <2>1, <2>2 DEF NothingSaved, Exists, EndsFit
<1>3. NoText \notin Messages \cup OwnMessages
  BY <1>0, TextsOfTwitter
<1>4. CASE Answer(w) \/ SocketCloses(w)
  <2>0. UNCHANGED <<heard, event>>
    BY <1>4 DEF Answer, SocketCloses
  <2>1. /\ loop[w] \in {"request", "listen"}
        /\ \E to \in {"request", "listen", "failed", "left"} : loop' = [loop EXCEPT ![w] = to]
    BY <1>4 DEF Answer, SocketCloses, Again
  <2>2. StreamTypes'
    BY <1>0, <1>1, <2>0, <2>1 DEF StreamTypes
  <2>3. ASSUME NEW v \in Senders PROVE StreamFits(v)'
    <3>1. \/ loop'[v] = loop[v]
          \/ loop[v] \in {"request", "listen"} /\ loop'[v] \in {"request", "listen", "failed", "left"}
      BY <1>0, <2>1 DEF StreamTypes
    <3>. QED
      BY <1>0, <1>1, <2>0, <3>1 DEF StreamFits
  <2>4. SettledStay
    BY <1>1, <2>0 DEF SettledStay, Settled
  <2>. QED
    BY <1>2, <2>2, <2>3, <2>4, TwitterKept
<1>5. ASSUME NEW x \in Messages \cup OwnMessages, ReadLine(w, x) PROVE IInvTwitter'
  <2>1. /\ loop[w] = "listen" /\ x \notin heard[w]
        /\ heard' = [heard EXCEPT ![w] = @ \cup ({x} \ OwnMessages)]
        /\ \/ loop' = [loop EXCEPT ![w] = "left"] /\ UNCHANGED event
           \/ loop' = [loop EXCEPT ![w] = "offer"] /\ event' = [event EXCEPT ![w] = x]
    BY <1>5 DEF ReadLine
  <2>2. x \in Messages => x \notin OwnMessages
    BY <1>0, TextsOfTwitter
  <2>3. StreamTypes'
    <3>1. heard' \in [Senders -> SUBSET Messages]
      BY <1>0, <2>1 DEF StreamTypes
    <3>. QED
      BY <1>0, <1>1, <2>1, <3>1 DEF StreamTypes
  <2>4. /\ \A v \in Senders \ {w} : heard'[v] = heard[v] /\ loop'[v] = loop[v] /\ event'[v] = event[v]
        /\ heard'[w] = heard[w] \cup ({x} \ OwnMessages)
        /\ event[w] = NoText
        /\ \/ loop'[w] = "left" /\ event'[w] = event[w]
           \/ loop'[w] = "offer" /\ event'[w] = x
    BY <1>0, <2>1 DEF StreamTypes, StreamFits
  <2>5. ASSUME NEW v \in Senders PROVE StreamFits(v)'
    <3>0. StreamFits(v)
      BY <1>0
    <3>1. CASE v = w
      <4>1. spc[w] = "save" => \E z \in Messages : /\ sheld[w] = NewMsg(Conn, z, "L")
                                                   /\ z \in heard'[w] /\ z # event'[w]
        BY <1>3, <2>1, <2>4, <3>0, <3>1 DEF StreamFits
      <4>. QED
        BY <1>1, <1>3, <2>1, <2>2, <2>4, <3>0, <3>1, <4>1 DEF StreamFits
    <3>2. CASE v # w
      BY <1>1, <2>4, <3>0, <3>2 DEF StreamFits
    <3>. QED
      BY <3>1, <3>2
  <2>6. SettledStay
    <3>. SUFFICES ASSUME NEW y \in Messages, NEW v \in Settled(y) PROVE v \in Settled(y)'
      BY DEF SettledStay
    <3>1. v \in Senders /\ y \in heard[v] /\ event[v] # y /\ ~(spc[v] = "save" /\ sheld[v].text = y)
      BY DEF Settled
    <3>2. CASE v = w
      BY <1>1, <2>1, <2>4, <3>1, <3>2 DEF Settled
    <3>3. CASE v # w
      BY <1>1, <2>4, <3>1, <3>3 DEF Settled
    <3>. QED
      BY <3>2, <3>3
  <2>. QED
    BY <1>2, <2>3, <2>5, <2>6, TwitterKept
<1>. QED
  BY <1>4, <1>5 DEF LoopStep

\* StreamSave and what its transaction comes to.
LEMMA StreamSaveOutcome ==
    ASSUME IInvTwitter, NEW w \in Senders, StreamSave(w)
    PROVE  \E x \in Messages : \E o \in SaveOutcomes(db, NewMsg(Conn, x, "L"), "inbox", "") :
               /\ sheld[w] = NewMsg(Conn, x, "L") /\ x \in heard[w] /\ x # event[w]
               /\ Transact(o) /\ db' = o.db /\ Written(db, o, x, "L", "inbox")
               /\ sheld' = [sheld EXCEPT ![w] = o.msg]
               /\ raced' = IF mpc \in {"start", "outbox"} /\ ~o.err
                           THEN raced \cup {o.msg.id} ELSE raced
<1>1. DbFits(db) /\ RoomIn(db) /\ spc[w] = "save" /\ StreamFits(w) /\ TwitterParameters
  BY DEF IInvTwitter, IInvEngine, IInvStreams, StreamSave, RoomForMessage, RoomIn
<1>2. PICK x \in Messages : sheld[w] = NewMsg(Conn, x, "L") /\ x \in heard[w] /\ x # event[w]
  BY <1>1 DEF StreamFits
<1>3. x \in Texts /\ "L" \in Priorities /\ "inbox" \in {"outbox", "inbox"} /\ "inbox" # "outbox"
  BY <1>1, TextsOfTwitter DEF Priorities
<1>4. PICK o \in SaveOutcomes(db, NewMsg(Conn, x, "L"), "inbox", "") :
               /\ Transact(o) /\ sheld' = [sheld EXCEPT ![w] = o.msg]
               /\ raced' = IF mpc \in {"start", "outbox"} /\ ~o.err
                           THEN raced \cup {o.msg.id} ELSE raced
  BY <1>2 DEF StreamSave, WriteToInbox
<1>5. Written(db, o, x, "L", "inbox")
  BY <1>1, <1>3, <1>4, WriteFits
<1>. QED
  BY <1>2, <1>4, <1>5 DEF Transact

LEMMA StreamSaveKeeps ==
    ASSUME IInvTwitter, NEW w \in Senders, StreamSave(w)
    PROVE  IInvEngine'
<1>. USE DEF mainVars, requestVars, outsideVars, bodyVars
<1>0. IInvEngine /\ EngineTypes /\ MainFits /\ HandsFit
  BY DEF IInvTwitter, IInvEngine
<1>1. PICK x \in Messages : \E o \in SaveOutcomes(db, NewMsg(Conn, x, "L"), "inbox", "") :
               /\ Transact(o) /\ db' = o.db /\ Written(db, o, x, "L", "inbox")
               /\ raced' = IF mpc \in {"start", "outbox"} /\ ~o.err
                           THEN raced \cup {o.msg.id} ELSE raced
  BY StreamSaveOutcome
<1>2. PICK o \in SaveOutcomes(db, NewMsg(Conn, x, "L"), "inbox", "") :
               /\ Transact(o) /\ db' = o.db /\ Written(db, o, x, "L", "inbox")
               /\ raced' = IF mpc \in {"start", "outbox"} /\ ~o.err
                           THEN raced \cup {o.msg.id} ELSE raced
  BY <1>1
<1>3. UNCHANGED <<vars, phase, held, mpc, backlog, rpc, rid, deletion, crashes, transmitted, forwarded>>
  BY DEF StreamSave
<1>4. StepFits(db, db') /\ raced' \subseteq MsgIds
  BY <1>0, <1>2 DEF Written, EngineTypes
<1>5. faults' \in 0 .. MaxFaults
  BY <1>0, <1>2, TransactFits DEF EngineTypes
<1>6. EngineTypes' /\ MainFits'
  BY <1>0, <1>3, <1>4, <1>5 DEF EngineTypes, MainFits, Exists, StepFits, SameBuckets
<1>7. mpc' = "outbox" /\ HasBucket(db', Conn) => backlog' \subseteq Outgoing(db'[Conn])
  BY <1>0, <1>3, <1>4 DEF HandsFit, OnTheWay, Exists, StepFits, KeepsMessages
<1>. QED
  BY <1>0, <1>3, <1>4, <1>6, <1>7, OutsideKept DEF StepFits

LEMMA NotMore ==
    \A a, b, c, d \in Nat : a <= b /\ b <= c /\ c <= d => a <= d
OBVIOUS

LEMMA NotMoreByOne ==
    \A a, b, c, d \in Nat : a <= b + 1 /\ b <= c /\ c + 1 <= d => a <= d
OBVIOUS

LEMMA OneMoreAtMost ==
    ASSUME NEW S, IsFiniteSet(S), NEW x, NEW T, T \subseteq S \cup {x}
    PROVE  /\ Cardinality(T) \in Nat /\ Cardinality(S) \in Nat
           /\ Cardinality(T) <= Cardinality(S) + 1
<1>1. IsFiniteSet(S \cup {x}) /\ Cardinality(S) \in Nat
  BY FS_AddElement, FS_CardinalityType
<1>2. /\ Cardinality(T) \in Nat /\ Cardinality(S \cup {x}) \in Nat
      /\ Cardinality(T) <= Cardinality(S \cup {x})
  BY <1>1, FS_Subset, FS_CardinalityType
<1>3. CASE x \in S
  <2>1. S \cup {x} = S
    BY <1>3
  <2>. QED
    BY <1>1, <1>2, <2>1
<1>4. CASE x \notin S
  <2>1. Cardinality(S \cup {x}) = Cardinality(S) + 1
    BY <1>4, FS_AddElement
  <2>. QED
    BY <1>1, <1>2, <2>1
<1>. QED
  BY <1>3, <1>4

\* One more message that says x, and one more stream that is done with x.
LEMMA StreamSaveCounts ==
    ASSUME IInvTwitter, NEW w \in Senders, StreamSave(w)
    PROVE  SavedFits'
<1>0. /\ IInvEngine /\ StreamTypes /\ TwitterParameters /\ SavedFits /\ DbFits(db)
  BY DEF IInvTwitter, IInvStreams, IInvEngine
<1>1. PICK x \in Messages : \E o \in SaveOutcomes(db, NewMsg(Conn, x, "L"), "inbox", "") :
               /\ sheld[w] = NewMsg(Conn, x, "L") /\ x \in heard[w] /\ x # event[w]
               /\ Transact(o) /\ db' = o.db /\ Written(db, o, x, "L", "inbox")
               /\ sheld' = [sheld EXCEPT ![w] = o.msg]
               /\ raced' = IF mpc \in {"start", "outbox"} /\ ~o.err
                           THEN raced \cup {o.msg.id} ELSE raced
  BY StreamSaveOutcome
<1>2. PICK o \in SaveOutcomes(db, NewMsg(Conn, x, "L"), "inbox", "") :
               /\ db' = o.db /\ Written(db, o, x, "L", "inbox")
               /\ sheld' = [sheld EXCEPT ![w] = o.msg]
  BY <1>1
<1>3. /\ spc[w] = "save" /\ spc' = [spc EXCEPT ![w] = "post"] /\ UNCHANGED <<heard, event>>
  BY DEF StreamSave
<1>8. sheld[w].text = x
  <2>1. NewMsg(Conn, x, "L").text = x
    BY DEF NewMsg
  <2>. QED
    BY <1>1, <2>1
<1>4. /\ spc'[w] = "post"
      /\ \A v \in Senders \ {w} : spc'[v] = spc[v] /\ sheld'[v] = sheld[v]
  BY <1>0, <1>2, <1>3 DEF StreamTypes
<1>5. /\ \A y \in Messages : Settled(y) \subseteq Settled(y)'
      /\ w \notin Settled(x) /\ w \in Settled(x)'
  <2>1. ASSUME NEW y \in Messages, NEW v \in Settled(y) PROVE v \in Settled(y)'
    <3>1. v \in Senders /\ y \in heard[v] /\ event[v] # y /\ ~(spc[v] = "save" /\ sheld[v].text = y)
      BY <2>1 DEF Settled
    <3>2. CASE v = w
      BY <1>3, <1>4, <3>1, <3>2 DEF Settled
    <3>3. CASE v # w
      BY <1>3, <1>4, <3>1, <3>3 DEF Settled
    <3>. QED
      BY <3>2, <3>3
  <2>2. w \notin Settled(x) /\ w \in Settled(x)'
    BY <1>1, <1>3, <1>4, <1>8 DEF Settled
  <2>. QED
    BY <2>1, <2>2
<1>6. CASE o.err
  BY <1>0, <1>2, <1>5, <1>6, SavedKept DEF Written, NothingSaved, SettledStay, Exists
<1>7. CASE ~o.err
  <2>0. PICK id : id = o.msg.id
    OBVIOUS
  <2>1. /\ Files(db, db', id, "inbox", "") /\ DbFits(db') /\ KeepsMessages(db, db')
        /\ db'[Conn].msgs[id].text = x /\ "inbox" # ""
    BY <1>2, <1>7, <2>0 DEF Written, StepFits
  <2>2. HasBucket(db, Conn) /\ HasBucket(db', Conn) /\ Exists
    BY <2>1 DEF Files, Exists
  <2>3. \A y : y # x => SavedIn(db', y) \subseteq SavedIn(db, y)
    BY <1>0, <2>1, FiledSays
  <2>4. \A y : SavedIn(db', y) \subseteq SavedIn(db, y) \cup {id}
    BY <1>0, <2>1, FiledSays
  <2>5. /\ \A y \in Messages : Cardinality(SavedIn(db, y)) <= Cardinality(Settled(y))
        /\ \A y \in OwnMessages : SavedIn(db, y) = {} /\ y # x
    BY <1>0, <2>2, TextsOfTwitter DEF SavedFits, SavedAs
  <2>6. ASSUME NEW y \in Messages, y # x
        PROVE  Cardinality(SavedIn(db', y)) <= Cardinality(Settled(y)')
    <3>1. SavedIn(db', y) \subseteq SavedIn(db, y) /\ IsFiniteSet(SavedIn(db, y))
      BY <1>0, <2>2, <2>3, <2>6, SavedCounts
    <3>2. /\ Cardinality(SavedIn(db', y)) \in Nat /\ Cardinality(SavedIn(db, y)) \in Nat
          /\ Cardinality(SavedIn(db', y)) <= Cardinality(SavedIn(db, y))
      BY <3>1, FS_Subset, FS_CardinalityType
    <3>3. Settled(y) \subseteq Senders /\ Settled(y)' \subseteq Senders /\ Settled(y) \subseteq Settled(y)'
      BY <1>5 DEF Settled
    <3>4. Cardinality(Settled(y)) <= Cardinality(Settled(y)')
      BY <3>3, SettledCounts, FS_Subset
    <3>5. Cardinality(Settled(y)) \in Nat /\ Cardinality(Settled(y)') \in Nat
      BY <3>3, SettledCounts
    <3>. QED
      BY <2>5, <3>2, <3>4, <3>5, NotMore
  <2>7. Cardinality(SavedIn(db', x)) <= Cardinality(Settled(x)')
    <3>1. IsFiniteSet(SavedIn(db, x))
      BY <1>0, <2>2, SavedCounts
    <3>2. /\ Cardinality(SavedIn(db', x)) \in Nat /\ Cardinality(SavedIn(db, x)) \in Nat
          /\ Cardinality(SavedIn(db', x)) <= Cardinality(SavedIn(db, x)) + 1
      BY <2>4, <3>1, OneMoreAtMost
    <3>4. /\ Settled(x) \cup {w} \subseteq Settled(x)' /\ Settled(x)' \subseteq Senders
          /\ Settled(x) \subseteq Senders /\ Settled(x) \cup {w} \subseteq Senders
      BY <1>5 DEF Settled
    <3>5. Cardinality(Settled(x) \cup {w}) <= Cardinality(Settled(x)')
      BY <3>4, SettledCounts, FS_Subset
    <3>6. Cardinality(Settled(x) \cup {w}) = Cardinality(Settled(x)) + 1
      BY <1>5, <3>4, SettledCounts, FS_AddElement
    <3>7. Cardinality(Settled(x)) \in Nat /\ Cardinality(Settled(x)') \in Nat
      BY <3>4, SettledCounts
    <3>8. Cardinality(SavedIn(db, x)) <= Cardinality(Settled(x))
      BY <2>5
    <3>. QED
      BY <3>2, <3>5, <3>6, <3>7, <3>8, NotMoreByOne
  <2>8. \A y \in OwnMessages : SavedIn(db', y) = {}
    BY <2>3, <2>5
  <2>. QED
    BY <2>6, <2>7, <2>8 DEF SavedFits, SavedAs
<1>. QED
  BY <1>6, <1>7

LEMMA TwitterOfSave ==
    ASSUME IInvTwitter, NEW w \in Senders, StreamSave(w)
    PROVE  IInvTwitter'
<1>0. /\ StreamTypes /\ EndsFit /\ TwitterParameters /\ \A v \in Senders : StreamFits(v)
  BY DEF IInvTwitter, IInvStreams
<1>1. PICK m \in HeldMsg : sheld' = [sheld EXCEPT ![w] = m]
  <2>1. PICK x \in Messages : \E o \in SaveOutcomes(db, NewMsg(Conn, x, "L"), "inbox", "") :
               /\ sheld[w] = NewMsg(Conn, x, "L") /\ x \in heard[w] /\ x # event[w]
               /\ Transact(o) /\ db' = o.db /\ Written(db, o, x, "L", "inbox")
               /\ sheld' = [sheld EXCEPT ![w] = o.msg]
               /\ raced' = IF mpc \in {"start", "outbox"} /\ ~o.err
                           THEN raced \cup {o.msg.id} ELSE raced
    BY StreamSaveOutcome
  <2>. QED
    BY <2>1 DEF Written
<1>2. /\ spc[w] = "save" /\ spc' = [spc EXCEPT ![w] = "post"]
      /\ UNCHANGED <<loop, heard, event, quit, limits, panicked, done, deletion, crashes>>
  BY DEF StreamSave, vars, stopVars, outsideVars
<1>3. StreamTypes' /\ EndsFit'
  BY <1>0, <1>1, <1>2 DEF StreamTypes, EndsFit
<1>4. ASSUME NEW v \in Senders PROVE StreamFits(v)'
  <2>1. \/ v = w /\ spc'[v] = "post" /\ sheld'[v] = m
        \/ spc'[v] = spc[v] /\ sheld'[v] = sheld[v]
    BY <1>0, <1>1, <1>2 DEF StreamTypes
  <2>. QED
    BY <1>0, <1>2, <2>1 DEF StreamFits
<1>5. IInvEngine' /\ SavedFits'
  BY StreamSaveKeeps, StreamSaveCounts
<1>. QED
  BY <1>0, <1>3, <1>4, <1>5 DEF IInvTwitter, IInvStreams, TwitterParameters

LEMMA TwitterOfPost ==
    ASSUME IInvTwitter, NEW w \in Senders, StreamPost(w)
    PROVE  IInvTwitter'
<1>. USE DEF unsentVars, mainVars, requestVars, outsideVars, countVars, bodyVars
<1>0. /\ StreamTypes /\ EndsFit /\ TwitterParameters /\ (\A v \in Senders : StreamFits(v))
      /\ IInvEngine /\ IInvTokens /\ EngineTypes /\ StepFits(db, db) /\ offered \subseteq Id
  BY StoreStays DEF IInvTwitter, IInvStreams, IInvEngine, IInvTokens, IInvTypes, TypeOK
<1>1. /\ spc[w] = "post" /\ spc' = [spc EXCEPT ![w] = "listen"]
      /\ sheld' = [sheld EXCEPT ![w] = BlankMsg] /\ SendIncoming(sheld[w].id)
      /\ UNCHANGED <<loop, heard, event, quit, limits, panicked, stopVars, db, faults>>
      /\ UNCHANGED <<dispatcherVars, ready, offered, workerVars, finished, phase, held, mpc, backlog,
                     rpc, rid, deletion, crashes, transmitted, forwarded, raced>>
  BY DEF StreamPost
<1>2. StreamTypes' /\ EndsFit'
  BY <1>0, <1>1 DEF StreamTypes, EndsFit, stopVars
<1>3. ASSUME NEW v \in Senders PROVE StreamFits(v)'
  <2>1. \/ spc'[v] = "listen" /\ spc[v] = "post"
        \/ spc'[v] = spc[v] /\ sheld'[v] = sheld[v]
    BY <1>0, <1>1 DEF StreamTypes
  <2>. QED
    BY <1>0, <1>1, <2>1 DEF StreamFits
<1>4. SettledStay /\ NothingSaved
  BY <1>0, <1>1 DEF SettledStay, Settled, StreamTypes, NothingSaved, Exists
<1>5. IInvEngine'
  <2>1. sheld[w].id \in Id
    <3>1. sheld[w].id \in MsgIds \cup {0}
      BY <1>0, <1>1 DEF StreamFits, HeldMsg
    <3>2. 0 \in Id
      BY DEF Id
    <3>. QED
      BY <3>1, <3>2, IdsAreNumbers
  <2>2. chIncoming' \in Seq(Id) /\ posted' \in [Directions -> SUBSET Id]
    BY <1>0, <1>1, <2>1, SendTyped
  <2>3. offered' \subseteq OnTheWay
    BY <1>1 DEF OnTheWay, Hands, HandsBut, OnChannel
  <2>4. /\ rpc' \in [Requests -> {"new", "found", "missing", "offering", "ok", "error", "lost"}]
        /\ rid' \in [Requests -> MsgIds \cup {0}] /\ backlog' \subseteq backlog
        /\ faults' \in 0 .. MaxFaults /\ StepFits(db, db') /\ offered' \subseteq Id
        /\ \A r \in Requests : \/ rpc'[r] \notin {"offering", "ok"}
                               \/ rpc[r] \in {"offering", "ok"} /\ rid'[r] = rid[r]
    BY <1>0, <1>1 DEF EngineTypes
  <2>. QED
    BY <1>0, <1>1, <2>2, <2>3, <2>4, PostKept
<1>. QED
  BY <1>2, <1>3, <1>4, <1>5, TwitterKept

\* The program dies, of a crash or of a send on a closed channel, and starts again.
LEMMA TwitterOfDeath ==
    ASSUME IInvTwitter, Dies, StreamsNew, deletion # "deleted", crashes' \in 0 .. MaxTroubles + 1,
           UNCHANGED <<heard, limits>>, panicked' \in BOOLEAN
    PROVE  IInvTwitter'
<1>0. /\ StreamTypes /\ TwitterParameters /\ IInvEngine
  BY DEF IInvTwitter, IInvStreams
<1>1. IInvEngine'
  BY <1>0, DiesKeeps
<1>2. StreamTypes'
  BY <1>0 DEF StreamTypes, StreamsNew
<1>3. \A w \in Senders : StreamFits(w)'
  BY <1>0, TextsOfTwitter DEF StreamFits, StreamsNew
<1>4. EndsFit' /\ NothingSaved
  BY DEF Dies, StreamsNew, EndsFit, NothingSaved, Exists
<1>5. SettledStay
  BY <1>0, TextsOfTwitter DEF SettledStay, Settled, StreamsNew
<1>. QED
  BY <1>1, <1>2, <1>3, <1>4, <1>5, TwitterKept

LEMMA TwitterKeeps == IInvTwitter /\ [TwitterNext]_everything => IInvTwitter'
<1>. SUFFICES ASSUME IInvTwitter, [TwitterNext]_everything PROVE IInvTwitter'
  OBVIOUS
<1>0. IInvEngine /\ StreamTypes /\ EndsFit /\ crashes \in 0 .. MaxTroubles + 1 /\ MaxTroubles \in Nat
  BY EngineAssumption DEF IInvTwitter, IInvStreams, IInvEngine, EngineTypes
<1>1. CASE Rest /\ UNCHANGED twitterVars
  BY <1>1, TheirSteps, TwitterOfEngine
<1>2. ASSUME NEW w \in Senders, TwitterSenderStep(w) PROVE IInvTwitter'
  <2>1. CASE WorkerRuns("outgoing", w) /\ UNCHANGED twitterVars
    BY <2>1, TheirSteps, TwitterOfEngine
  <2>. QED
    BY <1>2, <2>1, TwitterOfSender DEF TwitterSenderStep
<1>3. ASSUME NEW w \in Senders, StreamStep(w) PROVE IInvTwitter'
  BY <1>3, TwitterOfBegin, TwitterOfHear, TwitterOfSave, TwitterOfPost, TwitterOfExit DEF StreamStep
<1>4. ASSUME NEW w \in Senders, LoopStep(w) PROVE IInvTwitter'
  BY <1>4, TwitterOfLoop
<1>5. ASSUME NEW w \in Senders, Panic(w) PROVE IInvTwitter'
  <2>1. deletion # "none"
    BY <1>0, <1>5 DEF Panic, EndsFit
  <2>2. panicked' = TRUE /\ UNCHANGED <<heard, limits>>
    BY <1>5 DEF Panic
  <2>3. CASE deletion = "deleted"
    <3>1. UNCHANGED allVars /\ UNCHANGED streamVars
      BY <1>5, <2>3 DEF Panic
    <3>2. UNCHANGED <<db, done, deletion, crashes, spc, sheld, loop, event, quit>>
      BY <3>1 DEF allVars, engineVars, vars, stopVars, outsideVars, streamVars
    <3>3. IInvEngine'
      BY <1>0, <3>1, EngineKeeps
    <3>4. /\ StreamTypes' /\ EndsFit' /\ SettledStay /\ NothingSaved
          /\ \A v \in Senders : StreamFits(v)'
      BY <1>0, <2>2, <3>2
         DEF StreamTypes, EndsFit, SettledStay, Settled, NothingSaved, Exists, StreamFits, IInvTwitter, IInvStreams
    <3>. QED
      BY <3>3, <3>4, TwitterKept
  <2>4. CASE deletion # "deleted"
    <3>1. Dies /\ StreamsNew /\ crashes' = crashes + 1
      BY <1>5, <2>4 DEF Panic, Dies
    <3>2. crashes' \in 0 .. MaxTroubles + 1
      BY <1>0, <2>1, <3>1 DEF EndsFit
    <3>. QED
      BY <2>2, <2>4, <3>1, <3>2, TwitterOfDeath
  <2>. QED
    BY <2>3, <2>4
<1>6. CASE Crash /\ StreamsNew /\ UNCHANGED <<heard, limits, panicked>>
  <2>1. IInvEngine'
    BY <1>0, <1>6, CrashKeeps
  <2>2. crashes' \in 0 .. MaxTroubles + 1 /\ panicked' \in BOOLEAN /\ Dies /\ deletion # "deleted"
    BY <1>0, <1>6, <2>1 DEF IInvEngine, EngineTypes, StreamTypes, Crash
  <2>. QED
    BY <1>6, <2>2, TwitterOfDeath
<1>7. CASE UNCHANGED everything
  <2>1. UNCHANGED allVars /\ UNCHANGED <<streamVars, heard, limits, panicked>>
    BY <1>7 DEF everything, twitterVars
  <2>2. UNCHANGED <<db, done, deletion, crashes, quit>>
    BY <2>1 DEF allVars, engineVars, vars, stopVars, outsideVars, streamVars
  <2>3. IInvEngine'
    BY <1>0, <2>1, EngineKeeps
  <2>4. StreamTypes' /\ (\A v \in Senders : StreamFits(v)') /\ SettledStay
    BY <2>1, StreamsUntouched DEF IInvTwitter, IInvStreams
  <2>5. EndsFit' /\ NothingSaved
    BY <1>0, <2>2 DEF EndsFit, NothingSaved, Exists
  <2>. QED
    BY <2>3, <2>4, <2>5, TwitterKept
<1>. QED
  BY <1>1, <1>2, <1>3, <1>4, <1>5, <1>6, <1>7 DEF TwitterNext

LEMMA TwitterAlways == TwitterParameters /\ TwitterSpec => []IInvTwitter
BY TwitterStarts, TwitterKeeps, PTL DEF TwitterSpec

-----------------------------------------------------------------------------
(* What follows *)

\* The database, the messages, and what every goroutine of a Twitter connection
\* holds are well formed (twitter.go).
THEOREM TwitterTypesCorrect == TwitterParameters /\ TwitterSpec => []TwitterTypeOK
<1>1. IInvTwitter => TwitterTypeOK
  BY TypesOfEngine DEF IInvTwitter, IInvStreams, StreamTypes, StreamFits, TwitterTypeOK
<1>. QED
  BY <1>1, TwitterAlways, PTL

\* So is what a client was told of a message to Twitter: a connection keeps what it
\* answered for, whatever its senders do.
THEOREM TwitterAnswersAreKept == TwitterParameters /\ TwitterSpec => []AnsweredIsStored
<1>1. IInvTwitter => AnsweredIsStored
  BY AnswersOfEngine DEF IInvTwitter
<1>. QED
  BY <1>1, TwitterAlways, PTL

\* A direct message is saved at most once for each of the connection's senders, and
\* the user's own are never saved, whatever the streams, the loops and the requests
\* do, through reconnections and restarts (twitter.go:102-138): each stream hears a
\* message once, and holds it in one place till it is saved.
THEOREM DirectMessagesSavedOnce == TwitterParameters /\ TwitterSpec => []MessageSavedOnce
<1>1. ASSUME IInvTwitter, Exists
      PROVE  /\ \A x \in Messages : Cardinality(SavedIn(db, x)) <= Cardinality(Senders)
             /\ \A x \in OwnMessages : SavedIn(db, x) = {}
  <2>1. /\ \A x \in Messages : Cardinality(SavedIn(db, x)) <= Cardinality(Settled(x))
        /\ \A x \in OwnMessages : SavedIn(db, x) = {}
    BY <1>1 DEF IInvTwitter, IInvStreams, SavedFits, SavedAs
  <2>2. ASSUME NEW x \in Messages
        PROVE  Cardinality(SavedIn(db, x)) <= Cardinality(Senders)
    <3>1. Settled(x) \subseteq Senders
      BY DEF Settled
    <3>2. /\ Cardinality(Settled(x)) <= Cardinality(Senders)
          /\ Cardinality(Settled(x)) \in Nat /\ Cardinality(Senders) \in Nat
      BY <3>1, SettledCounts, WorkersAssumption, FS_Subset, FS_CardinalityType
    <3>3. Cardinality(SavedIn(db, x)) \in Nat
      BY <1>1, SavedCounts, FS_CardinalityType DEF IInvTwitter, IInvEngine, Exists
    <3>4. Cardinality(SavedIn(db, x)) <= Cardinality(Settled(x))
      BY <2>1
    <3>. QED
      BY <3>2, <3>3, <3>4, NotMore
  <2>. QED
    BY <2>1, <2>2
<1>2. IInvTwitter => MessageSavedOnce
  BY <1>1 DEF MessageSavedOnce, SavedIn
<1>. QED
  BY <1>2, TwitterAlways, PTL

-----------------------------------------------------------------------------
(* The promise of module Delivery *)

LEMMA TwitterMarkMoves ==
    ASSUME IInvEngine, NEW w \in Senders, TwitterMark(w)
    PROVE  StoreMoves(FALSE)
<1>0. /\ HandsFit /\ w \in Workers /\ phase[w] = "mark" /\ wpc[w] = "busy"
      /\ BodyFits(w, wpc[w], phase[w], held[w], job[w], db)
  BY DEF IInvEngine, Workers, WorkerFits, TwitterMark, FinishJob
<1>1. PICK o \in SaveOutcomes(db, [held[w] EXCEPT !.status = "S"], "sent", "outbox") :
               /\ Transact(o) /\ db' = o.db /\ StepFits(db, o.db)
               /\ held[w] = BlankMsg => o.db = db
               /\ held[w] # BlankMsg => /\ Loaded(held[w], db) /\ held[w].id = job[w]
                                        /\ Marked(db, o, held[w], "S", "sent", "outbox")
  BY TwitterMarkOutcome
<1>2. CASE held[w] # BlankMsg /\ ~o.err
  <2>1. Files(db, db', held[w].id, "sent", "outbox") /\ Exists
    BY <1>1, <1>2 DEF Marked, Files, Exists
  <2>2. held[w].id \in MsgIds /\ held[w].id = job[w]
    BY <1>1, <1>2 DEF Loaded
  <2>3. held[w].id \in Outgoing(db[Conn])
    BY <1>0, <2>1, <2>2, JobIsInHand DEF HandsFit, OnTheWay
  <2>. QED
    BY <2>1, <2>2, <2>3 DEF StoreMoves
<1>3. CASE held[w] = BlankMsg \/ o.err
  BY <1>1, <1>3 DEF Marked, StoreMoves
<1>. QED
  BY <1>2, <1>3

LEMMA StreamSaveMoves ==
    ASSUME IInvTwitter, NEW w \in Senders, StreamSave(w)
    PROVE  StoreMoves(FALSE)
<1>1. PICK x \in Messages : \E o \in SaveOutcomes(db, NewMsg(Conn, x, "L"), "inbox", "") :
               /\ sheld[w] = NewMsg(Conn, x, "L") /\ x \in heard[w] /\ x # event[w]
               /\ Transact(o) /\ db' = o.db /\ Written(db, o, x, "L", "inbox")
               /\ sheld' = [sheld EXCEPT ![w] = o.msg]
               /\ raced' = IF mpc \in {"start", "outbox"} /\ ~o.err
                           THEN raced \cup {o.msg.id} ELSE raced
  BY StreamSaveOutcome
<1>2. PICK o \in SaveOutcomes(db, NewMsg(Conn, x, "L"), "inbox", "") :
               db' = o.db /\ Written(db, o, x, "L", "inbox")
  BY <1>1
<1>. QED
  BY <1>2 DEF Written, StoreMoves

LEMMA TwitterMovesOnly == IInvTwitter /\ [TwitterNext]_everything => StoreMoves(FALSE)
<1>. SUFFICES ASSUME IInvTwitter, [TwitterNext]_everything PROVE StoreMoves(FALSE)
  OBVIOUS
<1>0. IInvEngine
  BY DEF IInvTwitter
<1>1. CASE EngineStep
  <2>1. StoreMoves(IInvDeeds)
    BY <1>0, <1>1, TheirSteps, StoreMovesOnly
  <2>. QED
    BY <2>1 DEF StoreMoves
<1>2. ASSUME NEW w \in Senders, TwitterMark(w) PROVE StoreMoves(FALSE)
  BY <1>0, <1>2, TwitterMarkMoves
<1>3. ASSUME NEW w \in Senders, StreamSave(w) PROVE StoreMoves(FALSE)
  BY <1>3, StreamSaveMoves
<1>4. ASSUME NEW w \in Senders,
             \/ TwitterLoad(w) \/ Query(w) \/ WakeUp(w)
             \/ StreamBegin(w) \/ Hear(w) \/ StreamPost(w) \/ StreamExit(w) \/ LoopStep(w) \/ Panic(w)
      PROVE  db' = db
  <2>1. CASE StreamBegin(w) \/ Hear(w) \/ StreamPost(w) \/ StreamExit(w)
    BY <2>1 DEF StreamBegin, Hear, StreamPost, StreamExit, allVars, engineVars
  <2>2. CASE TwitterLoad(w) \/ Query(w) \/ WakeUp(w)
    BY <2>2 DEF TwitterLoad, Query, WakeUp
  <2>3. CASE LoopStep(w)
    BY <2>3 DEF LoopStep, Answer, SocketCloses, ReadLine, loopOnly, allVars, engineVars
  <2>4. CASE Panic(w)
    BY <2>4 DEF Panic, Dies, allVars, engineVars
  <2>. QED
    BY <1>4, <2>1, <2>2, <2>3, <2>4
<1>5. CASE Crash \/ UNCHANGED everything
  BY <1>5 DEF Crash, Dies, everything, allVars, engineVars, StoreMoves
<1>. QED
  BY <1>1, <1>2, <1>3, <1>4, <1>5, TheirSteps DEF TwitterNext, TwitterSenderStep, StreamStep, StoreMoves

\* A connection to Twitter implements module Delivery too, though it marks what
\* may not have been sent: an id is used once and for one direction, and its message
\* goes from queued to sent or from queued to handled and never back, through
\* reconnections, panics and restarts.
THEOREM TwitterKeepsPromise == TwitterParameters /\ TwitterSpec => KeepsPromise
<1>1. IInvTwitter /\ [TwitterNext]_everything => [Promise!Next]_DeliveryState
  BY TwitterMovesOnly, PromiseSteps DEF IInvTwitter
<1>2. TwitterInit => Promise!Init
  BY PromiseStarts DEF TwitterInit
<1>. QED
  BY <1>1, <1>2, TwitterAlways, PTL DEF TwitterSpec, KeepsPromise, Promise!Spec

-----------------------------------------------------------------------------
(* No message goes out twice *)

\* A sender loads a message, asks for it to be sent, or wakes up to ask again.
LEMMA TwitterOnceOfQuery ==
    ASSUME IInvTwitter, StoreMoves(FALSE), IInvOnce, NEW w \in Senders,
           TwitterLoad(w) \/ Query(w) \/ WakeUp(w)
    PROVE  IInvOnce'
<1>. USE DEF mainVars, requestVars, outsideVars, countVars, bodyVars
<1>0. /\ IInvEngine /\ EngineTypes /\ w \in Workers /\ Senders \subseteq Workers
      /\ BodyFits(w, wpc[w], phase[w], held[w], job[w], db)
      /\ PlacesFit("outgoing") /\ "outgoing" \in Directions /\ WorkersOf("outgoing") = Senders
  BY DEF IInvTwitter, IInvEngine, Workers, WorkerFits, IInvOnce, Directions, WorkersOf
<1>1. /\ phase[w] \in Unsent
      /\ UNCHANGED <<queue, offered, wpc, job, finished, posted, db, rpc, mpc, backlog>>
      /\ \E ph \in {"query", "limited", "mark"} : phase' = [phase EXCEPT ![w] = ph]
  BY DEF TwitterLoad, Query, WakeUp, Unsent, vars, dispatcherVars, channelVars, workerVars, historyVars
<1>2. PlacesFit("outgoing")'
  <2>1. SameJobs("outgoing") /\ OnChannel("outgoing")' = OnChannel("outgoing")
    BY <1>1 DEF SameJobs, OnChannel
  <2>. QED
    BY <1>0, <1>1, <2>1, PlacesKept
<1>3. SentOf \subseteq SentOf'
  <2>1. \A v \in Senders : phase[v] \notin Unsent => phase'[v] \notin Unsent
    BY <1>0, <1>1 DEF EngineTypes
  <2>. QED
    BY <1>1, <2>1, SentOfIs
<1>4. CASE transmitted' = transmitted
  BY <1>0, <1>1, <1>2, <1>3, <1>4, OnceKept
<1>5. CASE transmitted' # transmitted
  <2>1. /\ phase[w] = "query" /\ phase' = [phase EXCEPT ![w] = "mark"]
        /\ transmitted' = [transmitted EXCEPT ![held[w].id] = @ + 1]
    BY <1>5 DEF TwitterLoad, Query, WakeUp
  <2>2. wpc[w] = "busy" /\ held[w].id = job[w]
    BY <1>0, <2>1 DEF BodyFits
  <2>3. job[w] \notin SentOf
    <3>1. job[w] \in JobsOf("outgoing")
      BY <1>0, <2>2 DEF JobsOf
    <3>2. job[w] \notin finished["outgoing"]
      BY <1>0, <3>1 DEF PlacesFit, Apart
    <3>3. \A v \in Senders : wpc[v] = "busy" /\ job[v] = job[w] => v = w
      BY <1>0, <2>2 DEF PlacesFit, JobUnique
    <3>. QED
      BY <1>1, <3>2, <3>3, SentOfIs
  <2>4. job[w] \in SentOf'
    <3>1. wpc'[w] = "busy" /\ job'[w] = job[w] /\ phase'[w] \notin Unsent
      BY <1>0, <1>1, <2>1, <2>2 DEF EngineTypes, Unsent
    <3>. QED
      BY <3>1, SentOfIs
  <2>5. CountsFit'
    <3>. SUFFICES ASSUME NEW id \in MsgIds
                  PROVE  transmitted'[id] <= 1 /\ (transmitted'[id] > 0 => id \in SentOf')
      BY DEF CountsFit
    <3>1. transmitted[id] <= 1 /\ (transmitted[id] > 0 => id \in SentOf) /\ transmitted[id] \in Nat
      BY <1>0 DEF IInvOnce, CountsFit, EngineTypes
    <3>2. transmitted'[id] = IF id = job[w] THEN transmitted[id] + 1 ELSE transmitted[id]
      BY <1>0, <2>1, <2>2 DEF EngineTypes
    <3>. QED
      BY <1>3, <2>3, <2>4, <3>1, <3>2
  <2>6. PostsFit'
    BY <1>1 DEF IInvOnce, PostsFit, Exists
  <2>. QED
    BY <1>2, <2>5, <2>6 DEF IInvOnce
<1>. QED
  BY <1>4, <1>5

LEMMA TwitterOnceOfMark ==
    ASSUME IInvTwitter, StoreMoves(FALSE), IInvOnce, NEW w \in Senders, TwitterMark(w)
    PROVE  IInvOnce'
<1>. USE DEF mainVars, requestVars, outsideVars, countVars
<1>0. /\ IInvEngine /\ EngineTypes /\ w \in Workers /\ Senders \subseteq Workers
      /\ wpc \in [Workers -> {"new", "announce", "idle", "busy", "exited"}]
      /\ job \in [Workers -> Id \cup {NoJob}] /\ finished \in [Directions -> SUBSET Id]
      /\ PlacesFit("outgoing") /\ "outgoing" \in Directions /\ WorkersOf("outgoing") = Senders
  BY DEF IInvTwitter, IInvEngine, IInvTokens, IInvTypes, TypeOK, Workers, IInvOnce, Directions, WorkersOf
<1>1. /\ phase' = [phase EXCEPT ![w] = "load"] /\ FinishJob("outgoing", w)
      /\ UNCHANGED <<queue, offered, posted, rpc, mpc, backlog, transmitted>>
  BY DEF TwitterMark, dispatcherVars, channelVars
<1>2. /\ wpc[w] = "busy" /\ wpc'[w] # "busy"
      /\ finished'["outgoing"] = finished["outgoing"] \cup {job[w]}
      /\ \A v \in Senders : v # w => wpc'[v] = wpc[v] /\ job'[v] = job[v] /\ phase'[v] = phase[v]
  BY <1>0, <1>1 DEF FinishJob, EngineTypes
<1>3. OnChannel("outgoing")' = OnChannel("outgoing")
  BY <1>1 DEF OnChannel
<1>4. PlacesFit("outgoing")'
  BY <1>0, <1>1, <1>2, <1>3, PlacesFinished
<1>5. SentOf \subseteq SentOf'
  BY <1>2, SentOfIs
<1>. QED
  BY <1>0, <1>1, <1>4, <1>5, OnceKept

LEMMA TwitterOnceOfStream ==
    ASSUME IInvTwitter, StoreMoves(FALSE), IInvOnce, NEW w \in Senders, StreamStep(w) \/ LoopStep(w)
    PROVE  IInvOnce'
<1>0. IInvEngine /\ posted \in [Directions -> SUBSET Id] /\ "outgoing" \in Directions
  BY DEF IInvTwitter, IInvEngine, IInvTokens, IInvTypes, TypeOK, Directions
<1>1. CASE StreamBegin(w) \/ StreamSave(w) \/ StreamPost(w) \/ StreamExit(w)
  <2>1. /\ UNCHANGED <<queue, offered, wpc, job, finished, phase, transmitted, mpc, backlog, rpc>>
        /\ posted'["outgoing"] = posted["outgoing"]
    BY <1>0, <1>1 DEF StreamBegin, StreamSave, StreamPost, StreamExit, SendIncoming, unsentVars, vars,
                dispatcherVars, channelVars, workerVars, historyVars, bodyVars, mainVars, requestVars, countVars
  <2>. QED
    BY <1>0, <2>1, OnceOfOthers
<1>2. CASE Hear(w) \/ LoopStep(w)
  <2>1. UNCHANGED allVars
    BY <1>2 DEF Hear, LoopStep, Answer, SocketCloses, ReadLine, loopOnly
  <2>. QED
    BY <1>0, <2>1, OnceOfOutside
<1>. QED
  BY <1>1, <1>2 DEF StreamStep

LEMMA TwitterOnceKeeps == IInvTwitter /\ IInvOnce /\ [TwitterNext]_everything => IInvOnce'
<1>. SUFFICES ASSUME IInvTwitter, IInvOnce, [TwitterNext]_everything PROVE IInvOnce'
  OBVIOUS
<1>0. IInvEngine /\ StoreMoves(FALSE)
  BY TwitterMovesOnly DEF IInvTwitter
<1>1. CASE EngineStep
  BY <1>0, <1>1, TheirSteps, OnceKeeps
<1>2. ASSUME NEW w \in Senders, TwitterLoad(w) \/ Query(w) \/ WakeUp(w) \/ TwitterMark(w)
      PROVE  IInvOnce'
  BY <1>0, <1>2, TwitterOnceOfQuery, TwitterOnceOfMark
<1>3. ASSUME NEW w \in Senders, StreamStep(w) \/ LoopStep(w) PROVE IInvOnce'
  BY <1>0, <1>3, TwitterOnceOfStream
<1>4. CASE Dies
  BY <1>0, <1>4, OnceOfDeath
<1>5. CASE UNCHANGED allVars
  BY <1>0, <1>5, OnceOfOutside
<1>6. ASSUME NEW w \in Senders, Panic(w) PROVE Dies \/ UNCHANGED allVars
  BY <1>6 DEF Panic
<1>7. (Crash => Dies) /\ (UNCHANGED everything => UNCHANGED allVars)
  BY DEF Crash, everything
<1>. QED
  BY <1>1, <1>2, <1>3, <1>4, <1>5, <1>6, <1>7, TheirSteps DEF TwitterNext, TwitterSenderStep

\* A run of the program sends no message to Twitter twice: though the client asks
\* again for one it was told to wait with (anaconda twitter.go:234-266), it does so only
\* for one that was refused.
THEOREM TwitterSendsOnce == TwitterParameters /\ TwitterSpec => []SentOncePerRun
<1>1. TwitterInit => IInvOnce
  BY OnceStarts DEF TwitterInit
<1>2. IInvOnce => SentOncePerRun
  BY DEF IInvOnce, CountsFit, SentOncePerRun
<1>. QED
  BY <1>1, <1>2, TwitterAlways, TwitterOnceKeeps, PTL DEF TwitterSpec

-----------------------------------------------------------------------------
(* No message is forgotten *)

\* What the receiving goroutines have saved and have still to post.
StreamPosts == {sheld[w].id : w \in {v \in Senders : spc[v] = "post"}}

LEMMA StreamPostsAre ==
    /\ \A x : x \in StreamPosts <=> \E v \in Senders : spc[v] = "post" /\ sheld[v].id = x
    /\ \A x : x \in StreamPosts' <=> \E v \in Senders : spc'[v] = "post" /\ sheld'[v].id = x
BY DEF StreamPosts

\* The receiving goroutines hold others, before a step and after it.
LEMMA OthersBefore ==
    ASSUME NEW others, others = StreamPosts, IInvBacklog(StreamPosts)
    PROVE  IInvBacklog(others)
BY DEF IInvBacklog, ToHandle

LEMMA OthersAfter ==
    ASSUME NEW others, others = StreamPosts', IInvBacklog(others)'
    PROVE  IInvBacklog(StreamPosts)'
BY DEF IInvBacklog, ToHandle

LEMMA BacklogOfTwitterLoad ==
    ASSUME NEW others, IInvEngine, IInvBacklog(others), NEW w \in Senders,
           TwitterLoad(w) \/ Query(w) \/ WakeUp(w)
    PROVE  IInvBacklog(others)'
<1>. USE DEF mainVars, requestVars, outsideVars, countVars, bodyVars
<1>0. /\ EngineTypes /\ DbFits(db) /\ HandsFit /\ StopFits /\ MarksFit /\ w \in Workers
      /\ BodyFits(w, wpc[w], phase[w], held[w], job[w], db) /\ Senders \subseteq Workers
  BY DEF IInvEngine, IInvBacklog, Workers, WorkerFits
<1>1. /\ UNCHANGED <<vars, db, faults, mpc, backlog, rpc, rid, deletion, crashes>>
      /\ \E ph \in {"mark", "query", "limited"} : phase' = [phase EXCEPT ![w] = ph]
      /\ \/ phase[w] \in {"query", "limited"} /\ held' = held
         \/ /\ phase[w] = "load" /\ wpc[w] = "busy"
            /\ held' = [held EXCEPT ![w] = MsgFromId(db, Conn, job[w])]
  BY DEF TwitterLoad, Query, WakeUp
<1>2. /\ \A v \in Workers \ {w} : phase'[v] = phase[v] /\ held'[v] = held[v]
      /\ phase[w] \notin {"echo", "post"} /\ phase'[w] \notin {"echo", "post"}
      /\ UNCHANGED <<offered, chIncoming, queue, wpc, job, done>>
  BY <1>0, <1>1 DEF EngineTypes, vars, dispatcherVars, channelVars, workerVars, stopVars
<1>3. Trusted => held'[w] # BlankMsg
  <2>. SUFFICES ASSUME Trusted PROVE held'[w] # BlankMsg
    OBVIOUS
  <2>1. CASE phase[w] \in {"query", "limited"}
    BY <1>0, <1>1, <2>1 DEF BodyFits
  <2>2. CASE phase[w] = "load"
    <3>1. held'[w] = MsgFromId(db, Conn, job[w]) /\ wpc[w] = "busy"
      BY <1>0, <1>1, <2>2 DEF EngineTypes
    <3>2. job[w] \in Outgoing(db[Conn])
      BY <1>0, <2>2, <3>1, JobIsInHand DEF HandsFit, OnTheWay, Trusted
    <3>. QED
      BY <1>0, <3>1, <3>2, IncomingIsFiled, FiledIsLoaded DEF Trusted, Exists
  <2>. QED
    BY <1>1, <2>1, <2>2
<1>4. Late' = Late /\ Posts' = Posts
  <2>1. \A v \in Workers : phase'[v] \in {"echo", "post"} <=> phase[v] \in {"echo", "post"}
    BY <1>2
  <2>2. {v \in Senders : phase'[v] = "post"} = {v \in Senders : phase[v] = "post"}
    BY <1>0, <1>2
  <2>3. \A v \in Senders : phase[v] = "post" => held'[v] = held[v]
    BY <1>0, <1>2
  <2>. QED
    BY <2>1, <2>2, <2>3 DEF Late, Posts
<1>5. ToSend' = ToSend /\ ToHandle(others)' = ToHandle(others)
  <2>1. \A d \in Directions : Hands(d)' = Hands(d)
    BY <1>2, HandsStay DEF Hands
  <2>2. HandsBut("outgoing", Late)' = HandsBut("outgoing", Late)
    BY <1>2, <1>4 DEF HandsBut, JobsBut, OnChannel, WorkersOf
  <2>. QED
    BY <1>1, <1>4, <2>1, <2>2 DEF ToSend, ToHandle, Directions
<1>6. UNCHANGED <<db, faults, done, mpc>> /\ StopFits'
  BY <1>0, <1>1, <1>2 DEF StopFits
<1>7. Trusted => \A v \in Workers : phase'[v] = "mark" =>
                          held'[v] # BlankMsg \/ (phase[v] = "mark" /\ held'[v] = held[v])
  BY <1>2, <1>3
<1>. QED
  BY <1>5, <1>6, <1>7, BacklogStays

LEMMA BacklogOfTwitterMark ==
    ASSUME NEW others, IInvEngine, IInvBacklog(others), NEW w \in Senders, TwitterMark(w)
    PROVE  IInvBacklog(others)'
<1>. USE DEF mainVars, requestVars, outsideVars, countVars
<1>0. /\ EngineTypes /\ DbFits(db) /\ HandsFit /\ StopFits /\ MarksFit /\ w \in Workers
      /\ wpc \in [Workers -> {"new", "announce", "idle", "busy", "exited"}]
      /\ job \in [Workers -> Id \cup {NoJob}]
      /\ Trusted => BoxesSay(db, ToHandle(others))
      /\ Trusted /\ ~done => Awaited(db, mpc, ToSend, ToHandle(others))
      /\ Senders \subseteq Workers /\ \A v \in Receivers : v \in Workers /\ v # w
  BY WorkersAssumption
  DEF IInvEngine, IInvTokens, IInvTypes, TypeOK, IInvBacklog, Workers
<1>1. /\ phase[w] = "mark" /\ FinishJob("outgoing", w)
      /\ phase' = [phase EXCEPT ![w] = "load"] /\ held' = [held EXCEPT ![w] = BlankMsg]
      /\ UNCHANGED <<dispatcherVars, channelVars, stopVars, mpc, backlog, rpc, rid, deletion, crashes>>
  BY DEF TwitterMark
<1>2. PICK o \in SaveOutcomes(db, [held[w] EXCEPT !.status = "S"], "sent", "outbox") :
               /\ Transact(o) /\ db' = o.db /\ StepFits(db, o.db)
               /\ held[w] = BlankMsg => o.db = db
               /\ held[w] # BlankMsg => /\ Loaded(held[w], db) /\ held[w].id = job[w]
                                        /\ Marked(db, o, held[w], "S", "sent", "outbox")
  BY TwitterMarkOutcome
<1>3. SameBuckets(db, db')
  BY <1>2 DEF StepFits
<1>4. /\ phase'[w] = "load" /\ wpc'[w] = "announce" /\ wpc[w] = "busy"
      /\ \A v \in Workers \ {w} : /\ phase'[v] = phase[v] /\ held'[v] = held[v]
                                  /\ wpc'[v] = wpc[v] /\ job'[v] = job[v]
      /\ UNCHANGED <<offered, chIncoming, queue, done>>
  BY <1>0, <1>1 DEF EngineTypes, FinishJob, dispatcherVars, channelVars, stopVars
<1>5. Posts' = Posts
  <2>1. {v \in Senders : phase'[v] = "post"} = {v \in Senders : phase[v] = "post"}
    BY <1>0, <1>1, <1>4
  <2>2. \A v \in Senders : phase[v] = "post" => held'[v] = held[v]
    BY <1>0, <1>1, <1>4
  <2>. QED
    BY <2>1, <2>2 DEF Posts
<1>6. ToHandle(others)' = ToHandle(others)
  <2>1. JobsBut("incoming", {})' = JobsBut("incoming", {})
    <3>1. \A v \in Receivers : wpc'[v] = wpc[v] /\ job'[v] = job[v]
      BY <1>0, <1>4
    <3>2. WorkersOf("incoming") = Receivers
      BY DEF WorkersOf
    <3>. QED
      BY <3>1, <3>2 DEF JobsBut
  <2>2. Hands("incoming")' = Hands("incoming")
    BY <1>4, <2>1 DEF Hands, HandsBut, OnChannel
  <2>. QED
    BY <1>1, <1>5, <2>2 DEF ToHandle
<1>7. ToSend \subseteq ToSend' \cup {job[w]}
  <2>1. \A v \in Senders : v # w => (v \in Late' <=> v \in Late)
    BY <1>0, <1>4 DEF Late
  <2>2. \A v \in Senders : v # w => wpc'[v] = wpc[v] /\ job'[v] = job[v]
    BY <1>0, <1>4
  <2>3. JobsBut("outgoing", Late) \subseteq JobsBut("outgoing", Late)' \cup {job[w]}
    BY <2>1, <2>2 DEF JobsBut, WorkersOf
  <2>4. HandsBut("outgoing", Late) \subseteq HandsBut("outgoing", Late)' \cup {job[w]}
    BY <1>4, <2>3 DEF HandsBut, OnChannel
  <2>. QED
    BY <1>1, <2>4 DEF ToSend
<1>8. StopFits' /\ MarksFit'
  <2>1. Trusted' => Trusted
    BY <1>0, <1>2, <1>3, TrustBefore
  <2>2. \A v \in Workers : phase'[v] = "mark" => phase[v] = "mark" /\ held'[v] = held[v]
    BY <1>4
  <2>3. MarksFit'
    BY <1>0, <2>1, <2>2 DEF MarksFit
  <2>. QED
    BY <1>0, <1>1, <1>4, <2>3 DEF StopFits
<1>9. ASSUME Trusted'
      PROVE  /\ BoxesSay(db', ToHandle(others)')
             /\ ~done' => Awaited(db', mpc', ToSend', ToHandle(others)')
  <2>1. Trusted /\ ~o.fault
    BY <1>0, <1>2, <1>3, <1>9, TrustBefore
  <2>2. held[w] # BlankMsg
    BY <1>0, <1>1, <2>1 DEF MarksFit
  <2>3. Files(db, db', job[w], "sent", "outbox") /\ db'[Conn].msgs[job[w]].status = "S"
    BY <1>2, <2>1, <2>2 DEF Marked, Trusted, Exists
  <2>4. job[w] \in Outgoing(db[Conn])
    BY <1>0, <1>4, <2>1, JobIsInHand DEF HandsFit, OnTheWay, Trusted
  <2>5. MarkedIn(db, db', job[w], "sent", "outbox")
    BY <2>3, <2>4 DEF MarkedIn, BoxOfStatus
  <2>6. BoxesFit(db[Conn]) /\ BoxesSay(db, ToHandle(others))
    BY <1>0, <2>1 DEF DbFits, BucketFits, Trusted, Exists
  <2>7. BoxesSay(db', ToHandle(others)')
    BY <1>6, <2>5, <2>6, MarkTells DEF BoxesSay
  <2>8. /\ db'[Conn].box["outbox"] = db[Conn].box["outbox"] \ {job[w]}
        /\ db'[Conn].box["inbox"] = db[Conn].box["inbox"]
    BY <2>3 DEF Files, BoxNames
  <2>9. ~done' => Awaited(db', mpc', ToSend', ToHandle(others)')
    BY <1>0, <1>1, <1>4, <1>6, <1>7, <2>1, <2>8 DEF Awaited
  <2>. QED
    BY <2>7, <2>9
<1>. QED
  BY <1>8, <1>9 DEF IInvBacklog

LEMMA BacklogOfWaitGroup ==
    ASSUME NEW others, IInvEngine, IInvBacklog(others), NEW w \in Senders, StreamBegin(w) \/ StreamExit(w)
    PROVE  IInvBacklog(others)'
<1>1. UNCHANGED <<offered, chIncoming, queue, wpc, job, done, phase, held, mpc, backlog, rpc, deletion, db, faults>>
  BY DEF StreamBegin, StreamExit, WaitGroupAdd, WaitGroupDone, unsentVars, dispatcherVars, workerVars,
         bodyVars, mainVars, requestVars, outsideVars
<1>2. StopFits'
  BY <1>1 DEF IInvBacklog, StopFits
<1>3. ToSend' = ToSend /\ ToHandle(others)' = ToHandle(others)
  <2>1. Late' = Late /\ Posts' = Posts
    BY <1>1 DEF Late, Posts
  <2>2. \A d \in Directions : Hands(d)' = Hands(d)
    BY <1>1, HandsStay DEF Hands
  <2>3. HandsBut("outgoing", Late)' = HandsBut("outgoing", Late)
    BY <1>1, <2>1 DEF HandsBut, JobsBut, OnChannel, WorkersOf
  <2>. QED
    BY <1>1, <2>1, <2>2, <2>3 DEF ToSend, ToHandle, Directions
<1>. QED
  BY <1>1, <1>2, <1>3, BacklogStays

LEMMA BacklogOfSave ==
    ASSUME NEW others, NEW after, IInvTwitter, IInvBacklog(others), NEW w \in Senders, StreamSave(w),
           after = others \cup {sheld'[w].id}
    PROVE  IInvBacklog(after)'
<1>. USE DEF mainVars, requestVars, outsideVars, bodyVars
<1>0. /\ IInvEngine /\ EngineTypes /\ DbFits(db) /\ StopFits /\ MarksFit /\ StreamTypes
      /\ Trusted => BoxesSay(db, ToHandle(others))
      /\ Trusted /\ ~done => Awaited(db, mpc, ToSend, ToHandle(others))
  BY DEF IInvTwitter, IInvStreams, IInvEngine, IInvBacklog
<1>1. UNCHANGED <<vars, phase, held, mpc, backlog, rpc, rid, deletion, crashes>>
  BY DEF StreamSave
<1>2. PICK x \in Messages : \E o \in SaveOutcomes(db, NewMsg(Conn, x, "L"), "inbox", "") :
               /\ sheld[w] = NewMsg(Conn, x, "L") /\ x \in heard[w] /\ x # event[w]
               /\ Transact(o) /\ db' = o.db /\ Written(db, o, x, "L", "inbox")
               /\ sheld' = [sheld EXCEPT ![w] = o.msg]
               /\ raced' = IF mpc \in {"start", "outbox"} /\ ~o.err
                           THEN raced \cup {o.msg.id} ELSE raced
  BY StreamSaveOutcome
<1>3. PICK o \in SaveOutcomes(db, NewMsg(Conn, x, "L"), "inbox", "") :
               /\ Transact(o) /\ db' = o.db /\ Written(db, o, x, "L", "inbox")
               /\ sheld' = [sheld EXCEPT ![w] = o.msg]
  BY <1>2
<1>4. SameBuckets(db, db') /\ sheld'[w] = o.msg
  BY <1>0, <1>3 DEF Written, StepFits, StreamTypes
<1>5. UNCHANGED <<offered, chIncoming, queue, wpc, job, done>>
  BY <1>1 DEF vars, dispatcherVars, channelVars, workerVars, stopVars
<1>6. ToSend' = ToSend /\ ToHandle(after)' = ToHandle(others) \cup {o.msg.id}
  <2>1. Late' = Late /\ Posts' = Posts
    BY <1>1 DEF Late, Posts
  <2>2. \A d \in Directions : Hands(d)' = Hands(d)
    BY <1>5, HandsStay DEF Hands
  <2>3. HandsBut("outgoing", Late)' = HandsBut("outgoing", Late)
    BY <1>5, <2>1 DEF HandsBut, JobsBut, OnChannel, WorkersOf
  <2>. QED
    BY <1>1, <1>4, <2>1, <2>2, <2>3 DEF ToSend, ToHandle, Directions
<1>7. StopFits' /\ MarksFit'
  <2>1. Trusted' => Trusted
    BY <1>0, <1>3, <1>4, TrustBefore
  <2>. QED
    BY <1>0, <1>1, <1>5, <2>1 DEF StopFits, MarksFit
<1>8. ASSUME Trusted'
      PROVE  /\ BoxesSay(db', ToHandle(after)')
             /\ ~done' => Awaited(db', mpc', ToSend', ToHandle(after)')
  <2>1. Trusted /\ ~o.fault
    BY <1>0, <1>3, <1>4, <1>8, TrustBefore
  <2>2. ~o.err
    <3>1. NewMsg(Conn, x, "L").conn = Conn
      BY DEF NewMsg
    <3>. QED
      BY <1>3, <2>1, <3>1, ErrorsAreFaults DEF Trusted, Exists
  <2>3. NewIn(db, db', o.msg.id, "inbox")
    BY <1>3, <1>4, <2>2 DEF Written, NewIn
  <2>4. BoxesSay(db, ToHandle(others))
    BY <1>0, <2>1
  <2>5. BoxesSay(db', ToHandle(after)')
    BY ZenonT(60), <1>6, <2>3, <2>4, NewTells DEF BoxesSay
  <2>6. /\ db'[Conn].box["outbox"] = db[Conn].box["outbox"]
        /\ db'[Conn].box["inbox"] = db[Conn].box["inbox"] \cup {o.msg.id}
    BY <2>3 DEF NewIn, Files, BoxNames
  <2>7. ~done' => Awaited(db', mpc', ToSend', ToHandle(after)')
    BY <1>0, <1>1, <1>5, <1>6, <2>1, <2>6 DEF Awaited
  <2>. QED
    BY <2>5, <2>7
<1>. QED
  BY <1>7, <1>8 DEF IInvBacklog

LEMMA BacklogOfPost ==
    ASSUME NEW others, NEW after, IInvTwitter, IInvBacklog(others), NEW w \in Senders, StreamPost(w),
           others = after \cup {sheld[w].id}
    PROVE  IInvBacklog(after)'
<1>. USE DEF unsentVars, mainVars, requestVars, outsideVars, countVars, bodyVars
<1>0. IInvEngine /\ StopFits /\ chIncoming \in Seq(Id) /\ StreamFits(w)
  BY DEF IInvTwitter, IInvStreams, IInvEngine, IInvTokens, IInvTypes, TypeOK, IInvBacklog
<1>1. /\ spc[w] = "post" /\ SendIncoming(sheld[w].id)
      /\ UNCHANGED <<offered, queue, wpc, job, done, phase, held, mpc, backlog, rpc, deletion, db, faults>>
  BY DEF StreamPost, dispatcherVars, workerVars, stopVars
<1>2. sheld[w].id \in Id
  <2>1. sheld[w].id \in MsgIds \cup {0}
    BY <1>0, <1>1 DEF StreamFits, HeldMsg
  <2>2. 0 \in Id
    BY DEF Id
  <2>. QED
    BY <2>1, <2>2, IdsAreNumbers
<1>3. Elements(chIncoming') = Elements(chIncoming) \cup {sheld[w].id}
  <2>1. chIncoming' = Append(chIncoming, sheld[w].id)
    BY <1>1 DEF SendIncoming
  <2>. QED
    BY <1>0, <1>2, <2>1, ElementsOfAppend
<1>4. ToHandle(after)' = ToHandle(others)
  <2>1. JobsBut("incoming", {})' = JobsBut("incoming", {}) /\ Posts' = Posts
    BY <1>1 DEF JobsBut, WorkersOf, Posts
  <2>2. Hands("incoming")' = Hands("incoming") \cup {sheld[w].id}
    BY <1>1, <1>3, <2>1 DEF Hands, HandsBut, OnChannel
  <2>. QED
    BY <1>1, <2>1, <2>2 DEF ToHandle
<1>5. ToSend' = ToSend
  <2>1. JobsBut("outgoing", Late)' = JobsBut("outgoing", Late)
    BY <1>1 DEF JobsBut, Late, WorkersOf
  <2>. QED
    BY <1>1, <2>1 DEF ToSend, HandsBut, OnChannel
<1>6. StopFits'
  BY <1>0, <1>1 DEF StopFits
<1>. QED
  BY <1>0, <1>1, <1>4, <1>5, <1>6, BacklogStays

\* What the receiving goroutines hold is lost only with the program.
LEMMA TwitterBacklogKeeps ==
    ASSUME IInvTwitter, IInvBacklog(StreamPosts), [TwitterNext]_everything
    PROVE  IInvBacklog(StreamPosts)'
<1>. PICK others : others = StreamPosts
  OBVIOUS
<1>. PICK after : after = StreamPosts'
  OBVIOUS
<1>0. IInvEngine /\ StreamTypes /\ (\A w \in Senders : StreamFits(w)) /\ IInvBacklog(others)
  BY OthersBefore DEF IInvTwitter, IInvStreams
<1>. SUFFICES IInvBacklog(after)'
  BY OthersAfter
<1>1. UNCHANGED <<spc, sheld>> => after = others
  BY DEF StreamPosts
<1>2. CASE EngineStep /\ UNCHANGED <<spc, sheld>>
  <2>1. ~Crash
    BY <1>0, <1>2, EngineStepsOn
  <2>. QED
    BY <1>0, <1>1, <1>2, <2>1, TheirSteps, BacklogKeeps
<1>3. ASSUME NEW w \in Senders, TwitterLoad(w) \/ Query(w) \/ WakeUp(w) \/ TwitterMark(w)
      PROVE  IInvBacklog(after)'
  <2>1. UNCHANGED <<spc, sheld>>
    BY <1>3 DEF TwitterLoad, Query, WakeUp, TwitterMark, twitterVars, streamVars
  <2>. QED
    BY <1>0, <1>1, <1>3, <2>1, BacklogOfTwitterLoad, BacklogOfTwitterMark
<1>4. ASSUME NEW w \in Senders, StreamBegin(w) \/ StreamExit(w) PROVE IInvBacklog(after)'
  <2>1. sheld' = sheld /\ spc[w] # "post" /\ \E to \in {"listen", "exited"} : spc' = [spc EXCEPT ![w] = to]
    BY <1>4 DEF StreamBegin, StreamExit
  <2>2. \A v \in Senders : spc'[v] = "post" <=> spc[v] = "post"
    BY <1>0, <2>1 DEF StreamTypes
  <2>3. \A x : x \in after <=> x \in others
    BY <2>1, <2>2, StreamPostsAre
  <2>4. after = others
    BY <2>3 DEF StreamPosts
  <2>. QED
    BY <1>0, <1>4, <2>4, BacklogOfWaitGroup
<1>5. ASSUME NEW w \in Senders, Hear(w) \/ LoopStep(w) PROVE IInvBacklog(after)'
  <2>1. UNCHANGED allVars
    BY <1>5 DEF Hear, LoopStep, Answer, SocketCloses, ReadLine, loopOnly
  <2>2. \A v \in Senders : /\ spc'[v] = "post" <=> spc[v] = "post"
                           /\ spc[v] = "post" => sheld'[v] = sheld[v]
    BY <1>0, <1>5 DEF Hear, LoopStep, Answer, SocketCloses, ReadLine, loopOnly, StreamTypes
  <2>3. after = others
    BY <2>2, StreamPostsAre
  <2>. QED
    BY <1>0, <2>1, <2>3, BacklogOfOutside
<1>6. ASSUME NEW w \in Senders, StreamSave(w) PROVE IInvBacklog(after)'
  <2>1. /\ spc[w] = "save" /\ spc' = [spc EXCEPT ![w] = "post"]
        /\ \E m : sheld' = [sheld EXCEPT ![w] = m]
    BY <1>6 DEF StreamSave
  <2>2. /\ spc'[w] = "post" /\ \A v \in Senders \ {w} : spc'[v] = spc[v] /\ sheld'[v] = sheld[v]
    BY <1>0, <2>1 DEF StreamTypes
  <2>3. after = others \cup {sheld'[w].id}
    BY <2>1, <2>2, StreamPostsAre
  <2>. QED
    BY <1>0, <1>6, <2>3, BacklogOfSave
<1>7. ASSUME NEW w \in Senders, StreamPost(w) PROVE IInvBacklog(after)'
  <2>1. /\ spc[w] = "post" /\ spc' = [spc EXCEPT ![w] = "listen"]
        /\ sheld' = [sheld EXCEPT ![w] = BlankMsg]
    BY <1>7 DEF StreamPost
  <2>2. spc'[w] # "post" /\ \A v \in Senders \ {w} : spc'[v] = spc[v] /\ sheld'[v] = sheld[v]
    BY <1>0, <2>1 DEF StreamTypes
  <2>3. others = after \cup {sheld[w].id}
    BY <2>1, <2>2, StreamPostsAre
  <2>. QED
    BY <1>0, <1>7, <2>3, BacklogOfPost
<1>8. CASE Dies /\ StreamsNew
  <2>1. after = {}
    BY <1>8, StreamPostsAre DEF StreamsNew
  <2>. QED
    BY <1>0, <1>8, <2>1, BacklogOfDeath
<1>9. CASE UNCHANGED allVars /\ UNCHANGED <<spc, sheld>>
  BY <1>0, <1>1, <1>9, BacklogOfOutside
<1>10. ASSUME NEW w \in Senders, Panic(w)
       PROVE  (Dies /\ StreamsNew) \/ (UNCHANGED allVars /\ UNCHANGED <<spc, sheld>>)
  BY <1>10 DEF Panic, streamVars
<1>11. /\ UNCHANGED twitterVars => UNCHANGED <<spc, sheld>>
       /\ Crash => Dies
       /\ UNCHANGED everything => UNCHANGED allVars /\ UNCHANGED <<spc, sheld>>
  BY DEF everything, twitterVars, streamVars, Crash
<1>. QED
  BY <1>2, <1>3, <1>4, <1>5, <1>6, <1>7, <1>8, <1>9, <1>10, <1>11, TheirSteps
  DEF TwitterNext, TwitterSenderStep, StreamStep

\* Each direct message is saved once for each stream, and what is in the inbox is,
\* while the program serves, in the hands of a receiver, on its way to one, or held
\* by the goroutine that saved it and is still to post it (twitter.go:102-138).
THEOREM DirectMessagesReachTheUrl == TwitterParameters /\ TwitterSpec => []EachMessageSavedOnce
<1>1. TwitterInit => IInvBacklog(StreamPosts)
  <2>. SUFFICES ASSUME TwitterInit PROVE IInvBacklog(StreamPosts)
    OBVIOUS
  <2>1. StreamPosts = {}
    BY StreamPostsAre DEF TwitterInit
  <2>2. IInvBacklog({})
    BY BacklogStarts DEF TwitterInit
  <2>. QED
    BY <2>1, <2>2 DEF IInvBacklog, ToHandle
<1>2. IInvTwitter /\ IInvBacklog(StreamPosts) => NoDirectMessageForgotten
  <2>. SUFFICES ASSUME IInvTwitter, IInvBacklog(StreamPosts), mpc = "serving", ~done, faults = 0, Exists
                PROVE  Box("inbox") \subseteq IncomingInHand \cup StreamPosts
    BY DEF NoDirectMessageForgotten, StreamPosts, Box
  <2>1. Awaited(db, mpc, ToSend, ToHandle(StreamPosts))
    BY DEF IInvBacklog, Trusted
  <2>2. Hands("incoming") \cup Posts \subseteq IncomingInHand
    BY DEF Hands, HandsBut, OnChannel, JobsBut, IncomingInHand, Taken, Posts
  <2>. QED
    BY <2>1, <2>2 DEF Awaited, ToHandle, Box, BoxIds
<1>3. TwitterParameters /\ TwitterSpec => []NoDirectMessageForgotten
  BY <1>1, <1>2, TwitterAlways, TwitterBacklogKeeps, PTL DEF TwitterSpec
<1>. QED
  BY <1>3, DirectMessagesSavedOnce, PTL DEF EachMessageSavedOnce
=============================================================================
