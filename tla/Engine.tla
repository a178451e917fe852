------------------------------- MODULE Engine -------------------------------
(***************************************************************************)
(* One connection at work: engine/engine.go, echo.go and http.go over the  *)
(* dispatcher and the message store, with the HTTP handlers that send      *)
(* messages (http/http.go), the main goroutine that loads the backlog when *)
(* the program starts again, the deletion of the connection, and crashes.  *)
(*                                                                         *)
(* The senders are EchoSenders, the receivers HttpReceivers.  A worker's   *)
(* loop body runs in the steps at which other goroutines can see a change: *)
(* every transaction of the store and every channel operation.             *)
(***************************************************************************)
EXTENDS Dispatcher, Store

CONSTANTS
    Conn,           \* the connection
    HighRequests,   \* PUT .../send requests with priority H, one message each
    LowRequests,    \* PUT .../send requests with priority L
    MaxSeq,         \* bound: messages ever saved for the connection
    MaxCrashes,     \* bound: how often the program is killed and started again
    MaxFaults,      \* bound: transactions that fail in the database
    MaxTroubles     \* bound: crashes, faults and deletions of one behaviour

Requests == HighRequests \cup LowRequests

\* What an echo says.  The sender reads the text after msg.Release() gave the
\* message back to the pool: whoever takes it from there may have changed it, so
\* nobody can say what it is, and one value stands for all it may be.
AnEcho == "echo"
EngineTexts == Requests \cup {AnEcho}

ASSUME EngineAssumption ==
    /\ Conn \in Conns
    /\ HighRequests \cap LowRequests = {}
    /\ EngineTexts \subseteq Texts
    /\ MaxSeq \in 0..255 /\ MaxSeq < LowPriorityMask
    /\ MaxCrashes \in Nat /\ MaxFaults \in Nat /\ MaxTroubles \in Nat

MsgIds == (1..MaxSeq) \cup {LowPriorityMask + n : n \in 1..MaxSeq}

VARIABLES
    db,            \* the database file
    phase,         \* where a busy worker is in its loop body
    held,          \* the message a busy worker holds in memory
    mpc,           \* the main goroutine: "start", "outbox", "inbox", "serving"
    backlog,       \* ids main has read from a box and not dispatched yet
    rpc,           \* requests: "new", "found", "missing", "offering", "ok",
                   \* "error", "lost"
    rid,           \* the id a request's message got
    deletion,      \* DELETE of the connection: "none", "stopping", "forgotten",
                   \* "deleted"
    crashes, faults,
    (* history of the program's current run *)
    transmitted,   \* how often an outgoing message was sent out
    forwarded,     \* how often an incoming message was posted to the url
    raced          \* echoes saved between the start and main's reading of the inbox

bodyVars    == <<phase, held>>
mainVars    == <<mpc, backlog>>
requestVars == <<rpc, rid>>
outsideVars == <<deletion, crashes>>
countVars   == <<transmitted, forwarded, raced>>
engineVars  == <<db, bodyVars, mainVars, requestVars, outsideVars, faults, countVars>>
allVars     == <<vars, engineVars>>

\* addConnection has saved the connection and started its engine; the server
\* takes requests.
EngineInit ==
    /\ Init
    /\ db = SaveConnection(<< >>, Conn)
    /\ phase = [w \in Workers |-> "load"]
    /\ held = [w \in Workers |-> BlankMsg]
    /\ mpc = "serving"
    /\ backlog = {}
    /\ rpc = [r \in Requests |-> "new"]
    /\ rid = [r \in Requests |-> 0]
    /\ deletion = "none"
    /\ crashes = 0 /\ faults = 0
    /\ transmitted = [id \in MsgIds |-> 0]
    /\ forwarded = [id \in MsgIds |-> 0]
    /\ raced = {}

\* One more thing may go wrong.
RoomForTrouble ==
    crashes + faults + (IF deletion = "none" THEN 0 ELSE 1) < MaxTroubles

\* A transaction: the database and the count of faults after outcome o.
Transact(o) ==
    /\ o.fault => faults < MaxFaults /\ RoomForTrouble
    /\ faults' = faults + (IF o.fault THEN 1 ELSE 0)
    /\ db' = o.db

\* The bound on saved messages, for the transactions that may make a new one.
RoomForMessage == HasBucket(db, Conn) => db[Conn].seq < MaxSeq

-----------------------------------------------------------------------------
(* sendMessage *)

PriorityOf(r) == IF r \in HighRequests THEN "H" ELSE "L"

\* engines[conn_uuid]: the handler keeps what it finds.
LookUp(r) ==
    /\ mpc = "serving"
    /\ rpc[r] = "new"
    /\ rpc' = [rpc EXCEPT ![r] =
                 IF deletion \in {"none", "stopping"} THEN "found" ELSE "missing"]
    /\ UNCHANGED <<vars, db, faults, bodyVars, mainVars, rid, outsideVars, countVars>>

\* The message is written to the outbox and, unless that fails, offered to the
\* dispatcher.  A handler that found no engine has reported the error and goes
\* on all the same: it writes too, then dies on the missing engine (net/http
\* recovers the panic).
PutMessage(r) ==
    /\ rpc[r] \in {"found", "missing"}
    /\ RoomForMessage
    /\ \E o \in WriteToOutbox(db, NewMsg(Conn, r, PriorityOf(r))) :
          /\ Transact(o)
          /\ rid' = [rid EXCEPT ![r] = o.msg.id]
          /\ IF o.err \/ rpc[r] = "missing"
             THEN rpc' = [rpc EXCEPT ![r] = "error"] /\ UNCHANGED <<offered, posted>>
             ELSE rpc' = [rpc EXCEPT ![r] = "offering"] /\ OfferOutgoing(o.msg.id)
    /\ UNCHANGED <<dispatcherVars, ready, chIncoming, workerVars, stopVars, finished,
                   bodyVars, mainVars, outsideVars, countVars>>

\* The dispatcher has taken the id: the handler answers with the message.
Respond(r) ==
    /\ rpc[r] = "offering"
    /\ rid[r] \notin offered
    /\ rpc' = [rpc EXCEPT ![r] = "ok"]
    /\ UNCHANGED <<vars, db, faults, bodyVars, mainVars, rid, outsideVars, countVars>>

-----------------------------------------------------------------------------
(* EchoSender.Start, the body of the loop *)

\* Load the message and send it (the EchoSender only sleeps).
EchoSend(w) ==
    /\ wpc[w] = "busy" /\ phase[w] = "load"
    /\ LET m == MsgFromId(db, Conn, job[w])
       IN  /\ held' = [held EXCEPT ![w] = m]
           /\ transmitted' = IF m = BlankMsg THEN transmitted
                             ELSE [transmitted EXCEPT ![m.id] = @ + 1]
    /\ phase' = [phase EXCEPT ![w] = "mark"]
    /\ UNCHANGED <<vars, db, faults, mainVars, requestVars, outsideVars, forwarded, raced>>

\* msg.MarkSent(msgLog): an error is logged and the loop goes on.
EchoMark(w) ==
    /\ wpc[w] = "busy" /\ phase[w] = "mark"
    /\ \E o \in MarkSent(db, held[w]) : Transact(o)
    /\ phase' = [phase EXCEPT ![w] = "echo"]
    /\ UNCHANGED <<vars, held, mainVars, requestVars, outsideVars, countVars>>

\* MsgFromText with what the released message now says, then
\* incoming.WriteToInbox(): again an error is only logged.
EchoWrite(w) ==
    /\ wpc[w] = "busy" /\ phase[w] = "echo"
    /\ RoomForMessage
    /\ \E o \in WriteToInbox(db, NewMsg(Conn, AnEcho, "L")) :
          /\ Transact(o)
          /\ held' = [held EXCEPT ![w] = o.msg]
          /\ raced' = IF mpc \in {"start", "outbox"} /\ ~o.err
                      THEN raced \cup {o.msg.id} ELSE raced
    /\ phase' = [phase EXCEPT ![w] = "post"]
    /\ UNCHANGED <<vars, mainVars, requestVars, outsideVars, transmitted, forwarded>>

\* Mutant: the echo is saved but not posted.
EchoNotPosted(w) ==
    /\ phase[w] = "post"
    /\ FinishJob("outgoing", w)
    /\ phase' = [phase EXCEPT ![w] = "load"]
    /\ held' = [held EXCEPT ![w] = BlankMsg]
    /\ UNCHANGED <<dispatcherVars, channelVars, posted, stopVars, db, faults, mainVars,
                   requestVars, outsideVars, countVars>>

\* Mutant: the id of the message that was sent is posted, not its echo's.
EchoPostSent(w) ==
    /\ phase[w] = "post"
    /\ SendIncoming(job[w])
    /\ FinishJob("outgoing", w)
    /\ phase' = [phase EXCEPT ![w] = "load"]
    /\ held' = [held EXCEPT ![w] = BlankMsg]
    /\ UNCHANGED <<dispatcherVars, ready, offered, stopVars, db, faults, mainVars,
                   requestVars, outsideVars, countVars>>

\* s.incoming <- incoming.Id, whatever WriteToInbox said; then round the loop.
EchoPost(w) ==
    /\ phase[w] = "post"
    /\ SendIncoming(held[w].id)
    /\ FinishJob("outgoing", w)
    /\ phase' = [phase EXCEPT ![w] = "load"]
    /\ held' = [held EXCEPT ![w] = BlankMsg]
    /\ UNCHANGED <<dispatcherVars, ready, offered, stopVars, db, faults, mainVars,
                   requestVars, outsideVars, countVars>>

-----------------------------------------------------------------------------
(* HttpReceiver.Start, the body of the loop *)

\* Load the message and post it to the url.  The outcome of the post only
\* changes the log.
HttpForward(w) ==
    /\ wpc[w] = "busy" /\ phase[w] = "load"
    /\ LET m == MsgFromId(db, Conn, job[w])
       IN  /\ held' = [held EXCEPT ![w] = m]
           /\ forwarded' = IF m = BlankMsg THEN forwarded
                           ELSE [forwarded EXCEPT ![m.id] = @ + 1]
    /\ phase' = [phase EXCEPT ![w] = "mark"]
    /\ UNCHANGED <<vars, db, faults, mainVars, requestVars, outsideVars, transmitted, raced>>

\* msg.MarkHandled(msgLog), then round the loop.
HttpMark(w) ==
    /\ phase[w] = "mark"
    /\ \E o \in MarkHandled(db, held[w]) : Transact(o)
    /\ FinishJob("incoming", w)
    /\ phase' = [phase EXCEPT ![w] = "load"]
    /\ held' = [held EXCEPT ![w] = BlankMsg]
    /\ UNCHANGED <<dispatcherVars, channelVars, posted, stopVars, mainVars, requestVars,
                   outsideVars, countVars>>

-----------------------------------------------------------------------------
(* main: after the engine is started, AddPendingMsgsFromDB *)

ReadOutbox ==
    /\ mpc = "start"
    /\ mpc' = "outbox"
    /\ backlog' = BoxIds(db, Conn, "outbox")
    /\ UNCHANGED <<vars, db, faults, bodyVars, requestVars, outsideVars, countVars>>

\* The cursor goes in the byte order of little-endian keys, which compares the
\* lowest byte first and the mask bit last: below 256 messages that is the order
\* of the sequence numbers, whatever the priority.
FirstKey(id) ==
    id \in backlog /\ \A other \in backlog : id % LowPriorityMask <= other % LowPriorityMask

\* main blocks on each id until it is taken.
DispatchOutgoing(id) ==
    /\ mpc = "outbox" /\ FirstKey(id)
    /\ offered = {}
    /\ OfferOutgoing(id)
    /\ backlog' = backlog \ {id}
    /\ UNCHANGED <<dispatcherVars, ready, chIncoming, workerVars, stopVars, finished,
                   db, faults, bodyVars, mpc, requestVars, outsideVars, countVars>>

\* Mutant: main loads the outbox only.
ReadNoInbox ==
    /\ mpc = "outbox" /\ backlog = {} /\ offered = {}
    /\ mpc' = "inbox"
    /\ backlog' = {}
    /\ UNCHANGED <<vars, db, faults, bodyVars, requestVars, outsideVars, countVars>>

ReadInbox ==
    /\ mpc = "outbox" /\ backlog = {} /\ offered = {}
    /\ mpc' = "inbox"
    /\ backlog' = BoxIds(db, Conn, "inbox")
    /\ UNCHANGED <<vars, db, faults, bodyVars, requestVars, outsideVars, countVars>>

DispatchIncoming(id) ==
    /\ mpc = "inbox" /\ FirstKey(id)
    /\ SendIncoming(id)
    /\ backlog' = backlog \ {id}
    /\ UNCHANGED <<dispatcherVars, ready, offered, workerVars, stopVars, finished,
                   db, faults, bodyVars, mpc, requestVars, outsideVars, countVars>>

StartServer ==
    /\ mpc = "inbox" /\ backlog = {}
    /\ mpc' = "serving"
    /\ UNCHANGED <<vars, db, faults, bodyVars, backlog, requestVars, outsideVars, countVars>>

MainStep ==
    \/ ReadOutbox \/ ReadInbox \/ StartServer
    \/ \E id \in backlog : DispatchOutgoing(id) \/ DispatchIncoming(id)

-----------------------------------------------------------------------------
(* deleteConnection: Stop the engine, then remove the connection's data *)

BeginDelete ==
    /\ mpc = "serving" /\ deletion = "none"
    /\ RoomForTrouble
    /\ deletion' = "stopping"
    /\ StopClose
    /\ UNCHANGED <<db, faults, bodyVars, mainVars, requestVars, crashes, countVars>>

WaitForWorkers ==
    /\ deletion = "stopping"
    /\ StopWait
    /\ UNCHANGED engineVars

\* Stop has returned: delete(engines, uuid).
ForgetEngine ==
    /\ deletion = "stopping" /\ stop = "returned"
    /\ deletion' = "forgotten"
    /\ UNCHANGED <<vars, db, faults, bodyVars, mainVars, requestVars, crashes, countVars>>

EndDelete ==
    /\ deletion = "forgotten"
    /\ deletion' = "deleted"
    /\ db' = DeleteConnection(db, Conn)
    /\ UNCHANGED <<vars, faults, bodyVars, mainVars, requestVars, crashes, countVars>>

-----------------------------------------------------------------------------
\* The program dies and starts again: memory is as if new, requests that had
\* no answer are lost (a DELETE among them), the database is what the last
\* commit left.
Dies ==
    /\ crashes' = crashes + 1
    /\ deletion' = "none"
    /\ dpc' = "new" /\ done' = FALSE /\ wg' = 0 /\ stop' = "none" /\ late' = {}
    /\ queue' = [d \in Directions |-> EmptyQueue]
    /\ available' = [d \in Directions |-> <<>>]
    /\ ready' = [d \in Directions |-> <<>>]
    /\ chIncoming' = <<>> /\ offered' = {}
    /\ wpc' = [w \in Workers |-> "new"]
    /\ job' = [w \in Workers |-> NoJob]
    /\ posted' = [d \in Directions |-> {}]
    /\ finished' = [d \in Directions |-> {}]
    /\ phase' = [w \in Workers |-> "load"]
    /\ held' = [w \in Workers |-> BlankMsg]
    /\ mpc' = "start" /\ backlog' = {}
    /\ transmitted' = [id \in MsgIds |-> 0]
    /\ forwarded' = [id \in MsgIds |-> 0]
    /\ raced' = {}
    /\ rpc' = [r \in Requests |->
                 IF rpc[r] \in {"found", "missing", "offering"} THEN "lost" ELSE rpc[r]]
    /\ UNCHANGED <<db, rid, faults>>

\* A connection whose bucket is gone is not started again.
Crash ==
    /\ crashes < MaxCrashes /\ RoomForTrouble
    /\ deletion # "deleted"
    /\ Dies

-----------------------------------------------------------------------------
DispatcherRuns == DispatcherStep /\ UNCHANGED engineVars

WorkerRuns(d, w) ==
    (WorkerBegin(w) \/ Announce(d, w) \/ WorkerExit(w)) /\ UNCHANGED engineVars

SenderStep(w) ==
    \/ WorkerRuns("outgoing", w)
    \/ EchoSend(w) \/ EchoMark(w) \/ EchoWrite(w) \/ EchoPost(w)

ReceiverStep(w) ==
    \/ WorkerRuns("incoming", w)
    \/ HttpForward(w) \/ HttpMark(w)

EngineRun ==
    \/ DispatcherRuns
    \/ \E w \in Senders : SenderStep(w)
    \/ \E w \in Receivers : ReceiverStep(w)
    \/ MainStep
    \/ \E r \in Requests : LookUp(r) \/ PutMessage(r) \/ Respond(r)
    \/ Crash

\* A connection that stays, and one that may be deleted.
EngineSpec == EngineInit /\ [][EngineRun]_allVars

DeleteStep == BeginDelete \/ WaitForWorkers \/ ForgetEngine \/ EndDelete
EngineNext == EngineRun \/ DeleteStep
DeleteSpec == EngineInit /\ [][EngineNext]_allVars

\* The scheduler runs every goroutine that can run; the endpoint answers a post
\* sooner or later.  Nothing forces a client to send a request, or a crash.
EngineFairness ==
    /\ WF_allVars(DispatcherRuns)
    /\ \A w \in Senders : WF_allVars(SenderStep(w))
    /\ \A w \in Receivers : WF_allVars(ReceiverStep(w))
    /\ WF_allVars(MainStep)
    /\ \A r \in Requests : WF_allVars(PutMessage(r) \/ Respond(r))

FairEngineSpec == EngineSpec /\ EngineFairness
FairDeleteSpec ==
    DeleteSpec /\ EngineFairness /\ WF_allVars(WaitForWorkers \/ ForgetEngine \/ EndDelete)
=============================================================================
