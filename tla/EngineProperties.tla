-------------------------- MODULE EngineProperties --------------------------
(***************************************************************************)
(* What a connection should guarantee, over the machine of module Engine.  *)
(***************************************************************************)
EXTENDS Engine

Exists == HasBucket(db, Conn)
Box(b) == IF Exists THEN BoxIds(db, Conn, b) ELSE {}
StatusOf(id) == db[Conn].msgs[id].status

HeldMsg ==
    [id : MsgIds \cup {0}, conn : {Conn}, text : Texts, priority : Priorities,
     status : Statuses]

EngineTypeOK ==
    /\ DOMAIN db \subseteq {Conn}
    /\ Exists =>
        /\ db[Conn].seq \in 0..MaxSeq
        /\ DOMAIN db[Conn].msgs \subseteq MsgIds
        /\ \A id \in DOMAIN db[Conn].msgs :
              db[Conn].msgs[id] \in HeldMsg /\ db[Conn].msgs[id].id = id
        /\ db[Conn].box \in [BoxNames -> SUBSET MsgIds]
    /\ phase \in [Workers -> {"load", "mark", "echo", "post", "query", "limited"}]
    /\ \A w \in Workers :
          held[w] = BlankMsg \/ held[w] \in HeldMsg
    /\ mpc \in {"start", "outbox", "inbox", "serving"}
    /\ backlog \subseteq MsgIds
    /\ rpc \in [Requests -> {"new", "found", "missing", "offering", "ok", "error", "lost"}]
    /\ rid \in [Requests -> MsgIds \cup {0}]
    /\ deletion \in {"none", "stopping", "forgotten", "deleted"}
    /\ crashes \in 0..MaxTroubles + 1 /\ faults \in 0..MaxFaults
    /\ raced \subseteq MsgIds

\* The four boxes never share an id, and each message's status is the one its
\* box stands for: the message record and the index buckets are written by
\* different statements of saveMsgToBucket and must still agree.  (After a
\* transaction that failed in the database an id may be given out twice.)
BoxOfStatus == [outbox |-> "Q", inbox |-> "Q", sent |-> "S", handled |-> "H"]

BoxesAgreeWithMessages ==
    Exists /\ faults = 0 =>
        /\ \A b1, b2 \in BoxNames : b1 # b2 => Box(b1) \cap Box(b2) = {}
        /\ \A b \in BoxNames : \A id \in Box(b) : StatusOf(id) = BoxOfStatus[b]
        /\ DOMAIN db[Conn].msgs = UNION {Box(b) : b \in BoxNames}

\* A client that was told its message was created finds it in the outbox or
\* among the sent ones, with what it said, whatever crashes since, until the
\* connection is deleted.
AnsweredIsStored ==
    \A r \in Requests :
        rpc[r] = "ok" /\ Exists =>
            /\ rid[r] \in Box("outbox") \cup Box("sent")
            /\ db[Conn].msgs[rid[r]].text = r

-----------------------------------------------------------------------------
Taken(d) == {job[w] : w \in {v \in WorkersOf(d) : wpc[v] = "busy"}}

\* Messages some goroutine still has in hand, by direction.
OutgoingInHand == offered \cup QueueIds(queue["outgoing"]) \cup Taken("outgoing")
IncomingInHand ==
    Elements(chIncoming) \cup QueueIds(queue["incoming"]) \cup Taken("incoming")
        \cup {held[w].id : w \in {v \in Senders : phase[v] = "post"}}

\* Once the program serves, every message of the outbox is on its way to a
\* sender and every message of the inbox on its way to a receiver: none waits
\* in the database with nobody to pick it up.  (A worker that could not mark its
\* message drops it until the next start.)
ServedIsInHand ==
    mpc = "serving" /\ ~done /\ faults = 0 =>
        /\ Box("outbox") \subseteq OutgoingInHand
        /\ Box("inbox") \subseteq IncomingInHand

\* The same while main loads the backlog: what is not in hand yet, main has
\* still to dispatch.
BacklogCoversRest ==
    faults = 0 =>
        /\ mpc = "outbox" => Box("outbox") \subseteq OutgoingInHand \cup backlog
        /\ mpc = "inbox"  => Box("inbox") \subseteq IncomingInHand \cup backlog

\* No queued message is forgotten, at any point of a start or after it.
NobodyForgotten == ServedIsInHand /\ BacklogCoversRest

\* A message enters the sent box only after this run of the program sent it
\* out, the handled box only after this run posted it to the url.
MarkedOnlyWhenDone ==
    [][/\ \A id \in Box("sent")' \ Box("sent") : transmitted[id] > 0
       /\ \A id \in Box("handled")' \ Box("handled") : forwarded[id] > 0]_allVars

\* While the program runs, an outgoing message is sent out at most once.
SentOncePerRun == \A id \in MsgIds : transmitted[id] <= 1

\* So is an incoming message posted, and once more if it was saved while main
\* loaded the backlog: main then finds in the inbox what its sender also posts.
\* Each failed transaction, which gives its id to one more message, may make it
\* one more.
ForwardedOncePerRun ==
    \A id \in MsgIds : forwarded[id] <= 1 + faults + (IF id \in raced THEN 1 ELSE 0)

\* No worker repeats a message within a run.
OncePerRun == SentOncePerRun /\ ForwardedOncePerRun

TakesHighFirst(w) ==
    \A r \in HighRequests :
        /\ job[w] = NoJob /\ job'[w] # NoJob /\ job'[w] >= LowPriorityMask
        /\ rpc[r] = "ok" /\ transmitted[rid[r]] = 0
        => rid[r] \notin Box("outbox") \ Taken("outgoing")

\* "All high priority messages will be sent before any low priority messages"
\* (README.md:179): a sender takes a low-priority message only when no
\* high-priority message that was answered still waits for a sender.
HighBeforeLow ==
    [][\A w \in Senders : TakesHighFirst(w)]_allVars

\* That is so from the creation of the connection to the first restart.
HighBeforeLowAtFirst ==
    [][crashes = 0 => \A w \in Senders : TakesHighFirst(w)]_allVars

-----------------------------------------------------------------------------
\* The state of an id as module Delivery sees it, read off the boxes.
DeliveryState ==
    [id \in MsgIds |->
        IF ~Exists THEN "gone"
        ELSE IF id \in Box("outbox") THEN "toSend"
        ELSE IF id \in Box("sent") THEN "sent"
        ELSE IF id \in Box("inbox") THEN "toHandle"
        ELSE IF id \in Box("handled") THEN "handled"
        ELSE "none"]

Promise ==
    INSTANCE Delivery WITH Ids <- MsgIds, state <- DeliveryState, ending <- deletion # "none"

\* The connection keeps the promise of module Delivery, deleted or not.
KeepsPromise == Promise!Spec

\* With fair goroutines no message stays queued for ever, crashes included, but
\* for the messages of a connection that is deleted.
KeepsFairPromise == Promise!FairSpec

Answered == {r \in Requests : rpc[r] = "ok"}
HandledEchoes == {id \in Box("handled") : db[Conn].msgs[id].text = AnEcho}

\* "returns an echo of the sent message back through our connection"
\* (echo.go:16), as far as the code goes: as many echoes are saved and handled as
\* requests were answered, unless the program dies, which between MarkSent and
\* WriteToInbox loses the echo, or a transaction fails.  What the echo says is
\* not promised (see AnEcho).
EchoArrives ==
    \A n \in 1..Cardinality(Requests) :
        Cardinality(Answered) >= n ~>
            \/ Cardinality(HandledEchoes) >= n
            \/ crashes > 0 \/ faults > 0 \/ deletion # "none"

\* Every request that is written gets its answer.
RequestAnswered == \A r \in Requests : rpc[r] = "offering" ~> rpc[r] \in {"ok", "lost"}
=============================================================================
