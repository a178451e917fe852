------------------------------- MODULE Server -------------------------------
(***************************************************************************)
(* The HTTP server over several connections: the handlers of http/http.go, *)
(* each request in a goroutine of its own, the map of engines they share   *)
(* without a lock, main (junebug.go), which starts every saved connection, *)
(* and crashes.                                                            *)
(*                                                                         *)
(* Of an engine only what the handlers meet is left: whether it runs, the  *)
(* ids it was given, and the transactions of its workers.  Module Engine   *)
(* has the rest.                                                           *)
(***************************************************************************)
EXTENDS Store, FiniteSets

CONSTANTS
    Handlers,      \* goroutines of net/http, one request each
    MaxSeq,        \* bound on the messages of a connection
    MaxCrashes,    \* bound on the restarts
    MaxFaults      \* bound on the transactions that fail in the database

ASSUME ServerAssumption == MaxSeq \in Nat /\ MaxCrashes \in Nat /\ MaxFaults \in Nat

VARIABLES
    db,            \* the saved connections
    engines,       \* the uuids in the map
    eng,           \* each connection's engine: "none", "running", "closed", "stopped"
    given,         \* the ids an engine has been given and not finished
    main,          \* "loading" the saved connections, "serving" or, given up, "fatal"
    starting,      \* connections main has still to start
    req,           \* what each handler does
    valid,         \* connections whose configuration makes a working engine
    known,         \* uuids that were generated
    saved,         \* uuids that were ever saved
    crashes, faults

serverVars == <<db, engines, eng, given, main, starting, req, valid, known, saved, crashes, faults>>

Ops == {"add", "delete", "read", "send", "list", "status"}
Counted == <<"inbox", "outbox", "handled", "sent">>
Answers == {"ok", "error", "panic", "lost"}

\* A request: the step it is at, whether it found an engine, the id of its message,
\* and what GetStatus has counted, with the messages there were when it began.
Request(op, conn, at) ==
    [op |-> op, conn |-> conn, at |-> at, found |-> FALSE, id |-> 0,
     counts |-> << >>, outgoing |-> {}, incoming |-> {}]
NoRequest == Request("", "", "free")

ServerInit ==
    /\ db = << >>
    /\ engines = {}
    /\ eng = [c \in Conns |-> "none"]
    /\ given = [c \in Conns |-> {}]
    /\ main = "serving" /\ starting = {}
    /\ req = [h \in Handlers |-> NoRequest]
    /\ valid = {} /\ known = {} /\ saved = {}
    /\ crashes = 0 /\ faults = 0

BoxOf(c, b) == IF HasBucket(db, c) THEN BoxIds(db, c, b) ELSE {}

\* Handler h, which is at a step of op, does one step and goes on to next.
At(h, op, at) == req[h].op = op /\ req[h].at = at
Goes(h, next) == req' = [req EXCEPT ![h].at = next]

Fails == faults < MaxFaults /\ faults' = faults + 1
Works == UNCHANGED faults

engineVars == <<engines, eng, given>>
mainVars == <<main, starting>>
historyVars == <<valid, known, saved, crashes>>

-----------------------------------------------------------------------------
\* A request comes in.  A new connection gets a uuid nobody has.
Arrive(h) ==
    /\ main = "serving"
    /\ req[h].at = "free"
    /\ \E op \in Ops \ {"add"}, c \in known :
          req' = [req EXCEPT ![h] =
                    [Request(op, c, "begin") EXCEPT
                        !.outgoing = BoxOf(c, "outbox") \cup BoxOf(c, "sent"),
                        !.incoming = BoxOf(c, "inbox") \cup BoxOf(c, "handled")]]
    /\ UNCHANGED <<db, engineVars, mainVars, historyVars, faults>>

ArriveAdd(h) ==
    /\ main = "serving"
    /\ req[h].at = "free"
    /\ \E c \in Conns \ known, good \in BOOLEAN :
          /\ known' = known \cup {c}
          /\ valid' = IF good THEN valid \cup {c} ELSE valid
          /\ req' = [req EXCEPT ![h] = Request("add", c, "begin")]
    /\ UNCHANGED <<db, engineVars, mainVars, saved, crashes, faults>>

-----------------------------------------------------------------------------
(* addConnection *)

\* Mutant: the error of Save is ignored.
AddSaveAnyway(h) ==
    /\ At(h, "add", "begin")
    /\ LET c == req[h].conn
       IN  \/ /\ c \notin valid
              /\ Goes(h, "error") /\ Works
              /\ UNCHANGED <<db, saved>>
           \/ /\ c \in valid
              /\ Goes(h, "start") /\ Fails
              /\ UNCHANGED <<db, saved>>
    /\ UNCHANGED <<engineVars, mainVars, valid, known, crashes>>

\* ConnectionFromJson and NewConnectionEngine must both succeed before Save.
AddSave(h) ==
    /\ At(h, "add", "begin")
    /\ LET c == req[h].conn
       IN  \/ /\ c \notin valid
              /\ Goes(h, "error") /\ Works
              /\ UNCHANGED <<db, saved>>
           \/ /\ c \in valid
              /\ db' = SaveConnection(db, c)
              /\ saved' = saved \cup {c}
              /\ Goes(h, "start") /\ Works
           \/ /\ c \in valid
              /\ Goes(h, "error") /\ Fails
              /\ UNCHANGED <<db, saved>>
    /\ UNCHANGED <<engineVars, mainVars, valid, known, crashes>>

AddStart(h) ==
    /\ At(h, "add", "start")
    /\ eng' = [eng EXCEPT ![req[h].conn] = "running"]
    /\ Goes(h, "stash")
    /\ UNCHANGED <<db, engines, given, mainVars, historyVars, faults>>

AddStash(h) ==
    /\ At(h, "add", "stash")
    /\ engines' = engines \cup {req[h].conn}
    /\ Goes(h, "ok")
    /\ UNCHANGED <<db, eng, given, mainVars, historyVars, faults>>

-----------------------------------------------------------------------------
(* readConnection, and the part deleteConnection shares with it *)

Load(h) ==
    /\ req[h].op \in {"read", "delete"} /\ req[h].at = "begin"
    /\ Goes(h, IF HasBucket(db, req[h].conn) THEN "count" ELSE "error")
    /\ UNCHANGED <<db, engineVars, mainVars, historyVars, faults>>

\* Mutant: the boxes messages go to are counted before those they come from.
CountBackwards(h) ==
    /\ req[h].at = "count"
    /\ LET c == req[h].conn
           n == Len(req[h].counts)
       IN  IF ~HasBucket(db, c) THEN Goes(h, "error")
           ELSE req' = [req EXCEPT ![h].counts =
                            Append(@, Cardinality(BoxIds(db, c, Counted[4 - n]))),
                                   ![h].at = IF n < 3 THEN "count"
                                             ELSE IF req[h].op = "read" THEN "ok" ELSE "look"]
    /\ UNCHANGED <<db, engineVars, mainVars, historyVars, faults>>

\* GetStatus: the boxes are counted in four transactions.
Count(h) ==
    /\ req[h].at = "count"
    /\ LET c == req[h].conn
           n == Len(req[h].counts)
       IN  IF ~HasBucket(db, c) THEN Goes(h, "error")
           ELSE req' = [req EXCEPT ![h].counts =
                            Append(@, Cardinality(BoxIds(db, c, Counted[n + 1]))),
                                   ![h].at = IF n < 3 THEN "count"
                                             ELSE IF req[h].op = "read" THEN "ok" ELSE "look"]
    /\ UNCHANGED <<db, engineVars, mainVars, historyVars, faults>>

-----------------------------------------------------------------------------
(* deleteConnection *)

Look(h) ==
    /\ At(h, "delete", "look")
    /\ LET found == req[h].conn \in engines
       IN  req' = [req EXCEPT ![h].found = found, ![h].at = IF found THEN "stop" ELSE "erase"]
    /\ UNCHANGED <<db, engineVars, mainVars, historyVars, faults>>

\* engine.Stop closes Done; it panics when another DELETE has closed it, and
\* net/http recovers the panic.
Close(h) ==
    /\ At(h, "delete", "stop")
    /\ LET c == req[h].conn
       IN  IF eng[c] = "running"
           THEN eng' = [eng EXCEPT ![c] = "closed"] /\ Goes(h, "wait")
           ELSE eng' = eng /\ Goes(h, "panic")
    /\ UNCHANGED <<db, engines, given, mainVars, historyVars, faults>>

\* Mutant: Stop does not wait.
WaitNot(h) ==
    /\ At(h, "delete", "wait")
    /\ Goes(h, "forget")
    /\ UNCHANGED <<db, engineVars, mainVars, historyVars, faults>>

Wait(h) ==
    /\ At(h, "delete", "wait")
    /\ eng[req[h].conn] = "stopped"
    /\ Goes(h, "forget")
    /\ UNCHANGED <<db, engineVars, mainVars, historyVars, faults>>

Forget(h) ==
    /\ At(h, "delete", "forget")
    /\ engines' = engines \ {req[h].conn}
    /\ Goes(h, "erase")
    /\ UNCHANGED <<db, eng, given, mainVars, historyVars, faults>>

\* The error of connection.Delete() is ignored.
Erase(h) ==
    /\ At(h, "delete", "erase")
    /\ \/ db' = DeleteConnection(db, req[h].conn) /\ Works
       \/ db' = db /\ Fails
    /\ Goes(h, "ok")
    /\ UNCHANGED <<engineVars, mainVars, historyVars>>

-----------------------------------------------------------------------------
(* sendMessage *)

\* A handler that finds no engine reports the error and goes on; so does one
\* whose body is no message, but that one stops there.
SendLook(h) ==
    /\ At(h, "send", "begin")
    /\ \E next \in {"write", "error"} :
          req' = [req EXCEPT ![h].found = req[h].conn \in engines, ![h].at = next]
    /\ UNCHANGED <<db, engineVars, mainVars, historyVars, faults>>

\* Without an engine the message is written all the same; then the missing
\* engine is dereferenced.
SendWrite(h) ==
    /\ At(h, "send", "write")
    /\ LET c == req[h].conn
       IN  /\ HasBucket(db, c) => db[c].seq < MaxSeq
           /\ \E o \in WriteToOutbox(db, NewMsg(c, CHOOSE x \in Texts : TRUE, "L")) :
                 /\ db' = o.db
                 /\ IF o.fault THEN Fails ELSE Works
                 /\ req' = [req EXCEPT ![h].id = o.msg.id,
                                       ![h].at = IF o.err THEN "error"
                                                 ELSE IF req[h].found THEN "offer" ELSE "panic"]
    /\ UNCHANGED <<engineVars, mainVars, historyVars>>

\* Until it has exited the dispatcher may take the id; afterwards nobody does.
SendOffer(h) ==
    /\ At(h, "send", "offer")
    /\ LET c == req[h].conn
       IN  /\ eng[c] \in {"running", "closed"}
           /\ given' = [given EXCEPT ![c] = @ \cup {req[h].id}]
    /\ Goes(h, "ok")
    /\ UNCHANGED <<db, engines, eng, mainVars, historyVars, faults>>

\* listConnections answers with what one transaction sees, or, when that
\* fails, with none.
ListConnections(h) ==
    /\ At(h, "list", "begin")
    /\ Goes(h, "ok")
    /\ Works \/ Fails
    /\ UNCHANGED <<db, engineVars, mainVars, historyVars>>

\* readMessage answers with a message, or an error when there is none with
\* that id.
ReadMessage(h) ==
    /\ At(h, "status", "begin")
    /\ \/ /\ HasBucket(db, req[h].conn) /\ db[req[h].conn].msgs # << >>
          /\ Goes(h, "ok") /\ Works
       \/ Goes(h, "error") /\ (Works \/ Fails)
    /\ UNCHANGED <<db, engineVars, mainVars, historyVars>>

-----------------------------------------------------------------------------
(* the workers of an engine, by their transactions *)

Busy(c) == eng[c] \in {"running", "closed"}

\* A sender marks a message sent, a receiver marks one handled; a fault leaves
\* the message where it was, and the worker drops it.
Finish(c, id) ==
    /\ Busy(c) /\ id \in given[c]
    /\ given' = [given EXCEPT ![c] = @ \ {id}]
    /\ LET m == MsgFromId(db, c, id)
           done == IF id \in BoxOf(c, "outbox") THEN MarkSent(db, m) ELSE MarkHandled(db, m)
       IN  \E o \in done : db' = o.db /\ (IF o.fault THEN Fails ELSE Works)
    /\ UNCHANGED <<engines, eng, mainVars, req, historyVars>>

\* A message comes in (an echo, or a direct message) and is given to the
\* receivers; it is saved when the connection still is.
Receive(c) ==
    /\ Busy(c)
    /\ HasBucket(db, c) => db[c].seq < MaxSeq
    /\ \E o \in WriteToInbox(db, NewMsg(c, CHOOSE x \in Texts : TRUE, "L")) :
          /\ db' = o.db
          /\ IF o.fault THEN Fails ELSE Works
          /\ given' = [given EXCEPT ![c] = IF o.err THEN @ ELSE @ \cup {o.msg.id}]
    /\ UNCHANGED <<engines, eng, mainVars, req, historyVars>>

\* All goroutines of an engine have left; it may also happen that one hangs.
EngineExits(c) ==
    /\ eng[c] = "closed"
    /\ eng' = [eng EXCEPT ![c] = "stopped"]
    /\ given' = [given EXCEPT ![c] = {}]
    /\ UNCHANGED <<db, engines, mainVars, req, historyVars, faults>>

-----------------------------------------------------------------------------
(* crash, and main *)

Crash ==
    /\ crashes < MaxCrashes /\ main # "fatal"
    /\ crashes' = crashes + 1
    /\ engines' = {}
    /\ eng' = [c \in Conns |-> "none"]
    /\ given' = [c \in Conns |-> {}]
    /\ main' = "loading" /\ starting' = DOMAIN db
    /\ req' = [h \in Handlers |->
                 IF req[h].at \in Answers \cup {"free"} THEN req[h]
                 ELSE [req[h] EXCEPT !.at = "lost"]]
    /\ UNCHANGED <<db, valid, known, saved, faults>>

\* Mutant: main does not put the engine into the map.
StartOneHidden(c) ==
    /\ main = "loading" /\ c \in starting
    /\ main' = main /\ starting' = starting \ {c}
    /\ eng' = [eng EXCEPT ![c] = "running"]
    /\ given' = [given EXCEPT ![c] = BoxOf(c, "outbox") \cup BoxOf(c, "inbox")]
    /\ UNCHANGED <<db, engines, req, historyVars, faults>>

\* main makes an engine for each connection, or gives up for good.
StartOne(c) ==
    /\ main = "loading" /\ c \in starting
    /\ IF c \notin valid THEN main' = "fatal" /\ UNCHANGED <<starting, engineVars>>
       ELSE /\ main' = main /\ starting' = starting \ {c}
            /\ eng' = [eng EXCEPT ![c] = "running"]
            /\ given' = [given EXCEPT ![c] = BoxOf(c, "outbox") \cup BoxOf(c, "inbox")]
            /\ engines' = engines \cup {c}
    /\ UNCHANGED <<db, req, historyVars, faults>>

Serve ==
    /\ main = "loading" /\ starting = {}
    /\ main' = "serving"
    /\ UNCHANGED <<db, starting, engineVars, req, historyVars, faults>>

Handle(h) ==
    \/ Arrive(h) \/ ArriveAdd(h)
    \/ AddSave(h) \/ AddStart(h) \/ AddStash(h)
    \/ Load(h) \/ Count(h)
    \/ Look(h) \/ Close(h) \/ Wait(h) \/ Forget(h) \/ Erase(h)
    \/ SendLook(h) \/ SendWrite(h) \/ SendOffer(h)
    \/ ListConnections(h) \/ ReadMessage(h)

ServerNext ==
    \/ \E h \in Handlers : Handle(h)
    \/ \E c \in Conns : Receive(c) \/ EngineExits(c) \/ \E id \in given[c] : Finish(c, id)
    \/ \E c \in Conns : StartOne(c)
    \/ Serve \/ Crash

ServerSpec == ServerInit /\ [][ServerNext]_serverVars
=============================================================================
