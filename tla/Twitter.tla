------------------------------- MODULE Twitter -------------------------------
(***************************************************************************)
(* A connection whose senders are TwitterConnections (engine/twitter.go):  *)
(* the machine of module Engine with another body of the senders' loop,    *)
(* and for each sender a second goroutine that listens to a user stream.   *)
(*                                                                         *)
(* Below both is the Twitter client (ChimeraCoder/anaconda): a goroutine   *)
(* that executes the queries of a sender and waits out rate limits, and    *)
(* one that keeps a stream connected, the loop.                            *)
(***************************************************************************)
EXTENDS Engine

CONSTANTS
    Messages,      \* direct messages from others that Twitter has for the user
    OwnMessages,   \* direct messages from the user
    MaxLimits      \* bound: how often a query meets the rate limit

VARIABLES
    spc,       \* stream goroutines: "new", "listen", "save", "post", "exited"
    sheld,     \* the message a stream goroutine holds
    loop,      \* the loop: "off", "request", "listen", "offer", "failed", "left"
    heard,     \* messages of others the loop has read; Twitter sends each once, if at all
    event,     \* what the loop offers on the stream's channel
    quit,      \* streams whose Quit channel is closed
    limits,    \* how often the rate limit was met
    panicked   \* history: the program died of a send on a closed channel

streamVars  == <<spc, sheld, loop, event, quit>>
twitterVars == <<streamVars, heard, limits, panicked>>
everything  == <<allVars, twitterVars>>

StreamsNew ==
    /\ spc' = [w \in Senders |-> "new"]
    /\ sheld' = [w \in Senders |-> BlankMsg]
    /\ loop' = [w \in Senders |-> "off"]
    /\ event' = [w \in Senders |-> NoText]
    /\ quit' = {}

TwitterInit ==
    /\ EngineInit
    /\ spc = [w \in Senders |-> "new"]
    /\ sheld = [w \in Senders |-> BlankMsg]
    /\ loop = [w \in Senders |-> "off"]
    /\ heard = [w \in Senders |-> {}]
    /\ event = [w \in Senders |-> NoText]
    /\ quit = {}
    /\ limits = 0 /\ panicked = FALSE

-----------------------------------------------------------------------------
(* the sending goroutine, and the client's throttledQuery it waits for *)

TwitterLoad(w) ==
    /\ wpc[w] = "busy" /\ phase[w] = "load"
    /\ LET m == MsgFromId(db, Conn, job[w])
       IN  /\ held' = [held EXCEPT ![w] = m]
           /\ phase' = [phase EXCEPT ![w] = IF m = BlankMsg THEN "mark" ELSE "query"]
    /\ UNCHANGED <<vars, db, faults, mainVars, requestVars, outsideVars, countVars, twitterVars>>

\* Mutant: a query is repeated after an answer that did arrive.
QueryAgain(w) ==
    /\ phase[w] = "query"
    /\ transmitted' = [transmitted EXCEPT ![held[w].id] = @ + 1]
    /\ \/ limits' = limits /\ phase' = [phase EXCEPT ![w] = "mark"]
       \/ /\ limits < MaxLimits /\ limits' = limits + 1
          /\ phase' = [phase EXCEPT ![w] = "limited"]
    /\ UNCHANGED <<vars, db, faults, held, mainVars, requestVars, outsideVars, forwarded, raced,
                   streamVars, heard, panicked>>

\* A query is executed: the message goes out, or there is an error, with which
\* it may have gone out too, or the rate limit is met.
Query(w) ==
    /\ phase[w] = "query"
    /\ \/ /\ transmitted' = [transmitted EXCEPT ![held[w].id] = @ + 1]
          /\ phase' = [phase EXCEPT ![w] = "mark"] /\ UNCHANGED limits
       \/ /\ phase' = [phase EXCEPT ![w] = "mark"] /\ UNCHANGED <<transmitted, limits>>
       \/ /\ limits < MaxLimits /\ limits' = limits + 1
          /\ phase' = [phase EXCEPT ![w] = "limited"] /\ UNCHANGED transmitted
    /\ UNCHANGED <<vars, db, faults, held, mainVars, requestVars, outsideVars, forwarded, raced,
                   streamVars, heard, panicked>>

\* The client puts the query back and sleeps till the window is over; nobody
\* else uses its queue, so the query comes out again.
WakeUp(w) ==
    /\ phase[w] = "limited"
    /\ phase' = [phase EXCEPT ![w] = "query"]
    /\ UNCHANGED <<vars, db, faults, held, mainVars, requestVars, outsideVars, countVars, twitterVars>>

\* msg.MarkSent(msgLog), whatever became of the query; then round the loop.
TwitterMark(w) ==
    /\ phase[w] = "mark"
    /\ \E o \in MarkSent(db, held[w]) : Transact(o)
    /\ FinishJob("outgoing", w)
    /\ phase' = [phase EXCEPT ![w] = "load"]
    /\ held' = [held EXCEPT ![w] = BlankMsg]
    /\ UNCHANGED <<dispatcherVars, channelVars, posted, stopVars, mainVars, requestVars,
                   outsideVars, countVars, twitterVars>>

-----------------------------------------------------------------------------
(* the receiving goroutine *)

unsentVars == <<dispatcherVars, ready, offered, workerVars, finished,
                bodyVars, mainVars, requestVars, outsideVars>>

StreamBegin(w) ==
    /\ spc[w] = "new"
    /\ spc' = [spc EXCEPT ![w] = "listen"]
    /\ loop' = [loop EXCEPT ![w] = "request"]
    /\ WaitGroupAdd
    /\ UNCHANGED <<unsentVars, chIncoming, posted, db, faults, countVars,
                   sheld, heard, event, quit, limits, panicked>>

\* event = <-userStream.C: messages of the user are passed over.
Hear(w) ==
    /\ spc[w] = "listen" /\ loop[w] = "offer"
    /\ loop' = [loop EXCEPT ![w] = "listen"]
    /\ event' = [event EXCEPT ![w] = NoText]
    /\ IF event[w] \in OwnMessages THEN UNCHANGED <<spc, sheld>>
       ELSE /\ spc' = [spc EXCEPT ![w] = "save"]
            /\ sheld' = [sheld EXCEPT ![w] = NewMsg(Conn, event[w], "L")]
    /\ UNCHANGED <<allVars, heard, quit, limits, panicked>>

\* msg.WriteToInbox(): an error is only logged.
StreamSave(w) ==
    /\ spc[w] = "save"
    /\ RoomForMessage
    /\ \E o \in WriteToInbox(db, sheld[w]) :
          /\ Transact(o)
          /\ sheld' = [sheld EXCEPT ![w] = o.msg]
          /\ raced' = IF mpc \in {"start", "outbox"} /\ ~o.err
                      THEN raced \cup {o.msg.id} ELSE raced
    /\ spc' = [spc EXCEPT ![w] = "post"]
    /\ UNCHANGED <<vars, bodyVars, mainVars, requestVars, outsideVars, transmitted, forwarded,
                   loop, heard, event, quit, limits, panicked>>

\* Mutant: what was saved is not posted.
StreamPostNot(w) ==
    /\ spc[w] = "post"
    /\ spc' = [spc EXCEPT ![w] = "listen"]
    /\ sheld' = [sheld EXCEPT ![w] = BlankMsg]
    /\ UNCHANGED <<allVars, loop, heard, event, quit, limits, panicked>>

\* t.incoming <- msg.Id, without a look at Done.
StreamPost(w) ==
    /\ spc[w] = "post"
    /\ SendIncoming(sheld[w].id)
    /\ spc' = [spc EXCEPT ![w] = "listen"]
    /\ sheld' = [sheld EXCEPT ![w] = BlankMsg]
    /\ UNCHANGED <<unsentVars, stopVars, db, faults, countVars,
                   loop, heard, event, quit, limits, panicked>>

\* case <-t.done: Interrupt closes Quit.
StreamExit(w) ==
    /\ spc[w] = "listen" /\ done /\ loop[w] # "failed"
    /\ quit' = quit \cup {w}
    /\ spc' = [spc EXCEPT ![w] = "exited"]
    /\ WaitGroupDone
    /\ UNCHANGED <<unsentVars, chIncoming, posted, db, faults, countVars,
                   sheld, loop, heard, event, limits, panicked>>

-----------------------------------------------------------------------------
(* the loop *)

loopOnly == <<allVars, spc, sheld, limits, panicked>>

\* Where the loop goes next, past the look at Quit.
Again(w) == IF w \in quit THEN "left" ELSE "request"

\* The request is answered, or is to be tried again, or fails for good.
Answer(w) ==
    /\ loop[w] = "request"
    /\ \/ loop' = [loop EXCEPT ![w] = "listen"]
       \/ w \in quit /\ loop' = [loop EXCEPT ![w] = "left"]
       \/ w \notin quit /\ loop' = [loop EXCEPT ![w] = "failed"]
    /\ UNCHANGED <<loopOnly, heard, event, quit>>

\* Mutant: what was read comes again.
ReadLineAgain(w, x) ==
    /\ loop[w] = "listen"
    /\ UNCHANGED heard
    /\ IF w \in quit THEN loop' = [loop EXCEPT ![w] = "left"] /\ UNCHANGED event
       ELSE /\ loop' = [loop EXCEPT ![w] = "offer"]
            /\ event' = [event EXCEPT ![w] = x]
    /\ UNCHANGED <<loopOnly, quit>>

\* listen reads a message and offers it on the unbuffered channel, where it hangs
\* for good when the receiving goroutine has gone.  What Twitter sends while
\* no stream is connected is never read.
ReadLine(w, x) ==
    /\ loop[w] = "listen" /\ x \notin heard[w]
    /\ heard' = [heard EXCEPT ![w] = @ \cup ({x} \ OwnMessages)]
    /\ IF w \in quit THEN loop' = [loop EXCEPT ![w] = "left"] /\ UNCHANGED event
       ELSE /\ loop' = [loop EXCEPT ![w] = "offer"]
            /\ event' = [event EXCEPT ![w] = x]
    /\ UNCHANGED <<loopOnly, quit>>

SocketCloses(w) ==
    /\ loop[w] = "listen"
    /\ loop' = [loop EXCEPT ![w] = Again(w)]
    /\ UNCHANGED <<loopOnly, heard, event, quit>>

\* A request that fails for good is followed by s.Quit <- true.  Nobody receives
\* from Quit, so the loop hangs there; and when Quit is closed, before or after,
\* the send panics and takes the program down.
Panic(w) ==
    /\ \/ loop[w] = "failed" /\ spc[w] = "listen" /\ done
       \/ loop[w] = "request" /\ w \in quit
    /\ IF deletion = "deleted" THEN UNCHANGED <<allVars, streamVars>> ELSE Dies /\ StreamsNew
    /\ panicked' = TRUE
    /\ UNCHANGED <<heard, limits>>

-----------------------------------------------------------------------------
TwitterSenderStep(w) ==
    \/ WorkerRuns("outgoing", w) /\ UNCHANGED twitterVars
    \/ TwitterLoad(w) \/ Query(w) \/ WakeUp(w) \/ TwitterMark(w)

StreamStep(w) ==
    StreamBegin(w) \/ Hear(w) \/ StreamSave(w) \/ StreamPost(w) \/ StreamExit(w)

LoopStep(w) ==
    \/ Answer(w) \/ SocketCloses(w)
    \/ \E x \in Messages \cup OwnMessages : ReadLine(w, x)

Rest ==
    \/ DispatcherRuns
    \/ \E w \in Receivers : ReceiverStep(w)
    \/ MainStep
    \/ \E r \in Requests : LookUp(r) \/ PutMessage(r) \/ Respond(r)
    \/ DeleteStep

TwitterNext ==
    \/ Rest /\ UNCHANGED twitterVars
    \/ \E w \in Senders : TwitterSenderStep(w) \/ StreamStep(w) \/ LoopStep(w)
    \/ \E w \in Senders : Panic(w)
    \/ Crash /\ StreamsNew /\ UNCHANGED <<heard, limits, panicked>>

TwitterSpec == TwitterInit /\ [][TwitterNext]_everything
=============================================================================
