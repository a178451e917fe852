---------------------------- MODULE Dispatcher ----------------------------
(***************************************************************************)
(* disp/dispatcher.go: the goroutine that matches queued messages with     *)
(* idle workers, the channels it listens on, the loop skeleton every       *)
(* worker goroutine shares (engine/echo.go, twitter.go, http.go), and the  *)
(* ordered shutdown with the Done channel and the WaitGroup.               *)
(*                                                                         *)
(* One dispatcher serves two directions: "outgoing" messages go to the     *)
(* senders, "incoming" messages to the receivers.  What a worker does with *)
(* a message is left to the modules that EXTEND this one: DispatcherAlone  *)
(* takes a body to be a single step, Engine and Twitter give the bodies.   *)
(***************************************************************************)
EXTENDS Queue, FiniteSets

CONSTANTS
    Senders,      \* the sender goroutines of the connection
    Receivers,    \* the receiver goroutines of the connection
    NoJob         \* the job of a worker that has none

Directions == {"outgoing", "incoming"}
Workers == Senders \cup Receivers
WorkersOf(d) == IF d = "outgoing" THEN Senders ELSE Receivers

ASSUME WorkersAssumption ==
    /\ IsFiniteSet(Senders) /\ Senders # {}
    /\ IsFiniteSet(Receivers) /\ Receivers # {}
    /\ Senders \cap Receivers = {}
    /\ "dispatcher" \notin Workers   \* the name of the dispatcher's own goroutine

ASSUME NoJobAssumption == NoJob \notin Id

VARIABLES
    dpc,         \* the dispatcher goroutine: "new", "select", "match" or "exited"
    queue,       \* available_outgoing and available_incoming, by direction
    available,   \* available_senders and available_receivers, by direction
    ready,       \* the buffered channels Senders and Receivers, by direction
    chIncoming,  \* the buffered channel Incoming
    offered,     \* ids whose goroutine is blocked on the unbuffered Outgoing
    wpc,         \* worker goroutines: "new", "announce", "idle", "busy", "exited"
    job,         \* the id a busy worker works on
    done,        \* is the Done channel closed?
    wg,          \* the WaitGroup's counter
    stop,        \* the call of Stop: "none", "closed", "waiting", "returned"
    late,        \* history: goroutines that had not begun when Stop called Wait
    posted,      \* history: ids ever put on a channel, by direction
    finished     \* history: ids a worker is done with, by direction

dispatcherVars == <<dpc, queue, available>>
channelVars    == <<ready, chIncoming, offered>>
workerVars     == <<wpc, job>>
stopVars       == <<done, wg, stop, late>>
historyVars    == <<posted, finished>>
vars == <<dispatcherVars, channelVars, workerVars, stopVars, historyVars>>

-----------------------------------------------------------------------------
\* Mutant: both ready channels get the number of senders, as Incoming does.
ReadyCapacityOfSenders(d) == Cardinality(Senders)

\* CreateDispatcher gives Senders room for every sender and Receivers room
\* for every receiver; the capacity of Incoming is the number of senders too.
ReadyCapacity(d) == Cardinality(WorkersOf(d))
IncomingCapacity == Cardinality(Senders)

\* The goroutines have been started with go and none has run yet.
Init ==
    /\ dpc = "new"
    /\ queue = [d \in Directions |-> EmptyQueue]
    /\ available = [d \in Directions |-> <<>>]
    /\ ready = [d \in Directions |-> <<>>]
    /\ chIncoming = <<>>
    /\ offered = {}
    /\ wpc = [w \in Workers |-> "new"]
    /\ job = [w \in Workers |-> NoJob]
    /\ done = FALSE
    /\ wg = 0
    /\ stop = "none"
    /\ late = {}
    /\ posted = [d \in Directions |-> {}]
    /\ finished = [d \in Directions |-> {}]

-----------------------------------------------------------------------------
\* wg.Add(1), the first statement of every goroutine.
WaitGroupAdd == wg' = wg + 1 /\ UNCHANGED <<done, stop, late>>

\* The deferred wg.Done(): at zero it releases the goroutine blocked in Wait.
WaitGroupDone ==
    /\ wg' = wg - 1
    /\ stop' = IF stop = "waiting" /\ wg' = 0 THEN "returned" ELSE stop
    /\ UNCHANGED <<done, late>>

-----------------------------------------------------------------------------
(* The dispatcher goroutine. *)

DispatcherBegin ==
    /\ dpc = "new"
    /\ dpc' = "select"
    /\ WaitGroupAdd
    /\ UNCHANGED <<queue, available, channelVars, workerVars, historyVars>>

\* case outgoing := <-d.Outgoing: the rendezvous frees the posting goroutine.
ReceiveOutgoing(id) ==
    /\ dpc = "select"
    /\ id \in offered
    /\ offered' = offered \ {id}
    /\ queue' = [queue EXCEPT !["outgoing"] = Insert(@, id)]
    /\ dpc' = "match"
    /\ UNCHANGED <<available, ready, chIncoming, workerVars, stopVars, historyVars>>

\* case incoming := <-d.Incoming
ReceiveIncoming ==
    /\ dpc = "select"
    /\ chIncoming # <<>>
    /\ chIncoming' = Tail(chIncoming)
    /\ queue' = [queue EXCEPT !["incoming"] = Insert(@, Head(chIncoming))]
    /\ dpc' = "match"
    /\ UNCHANGED <<available, ready, offered, workerVars, stopVars, historyVars>>

\* case sender := <-d.Senders and case receiver := <-d.Receivers
ReceiveReady(d) ==
    /\ dpc = "select"
    /\ ready[d] # <<>>
    /\ ready' = [ready EXCEPT ![d] = Tail(@)]
    /\ available' = [available EXCEPT ![d] = Append(@, Head(ready[d]))]
    /\ dpc' = "match"
    /\ UNCHANGED <<queue, chIncoming, offered, workerVars, stopVars, historyVars>>

\* case <-d.Done: return
DispatcherExit ==
    /\ dpc = "select"
    /\ done
    /\ dpc' = "exited"
    /\ WaitGroupDone
    /\ UNCHANGED <<queue, available, channelVars, workerVars, historyVars>>

Pairable(d) == available[d] # <<>> /\ QueueLen(queue[d]) > 0

\* The loop the dispatcher is in: all outgoing pairs come before incoming ones.
Matching(d) ==
    /\ dpc = "match"
    /\ Pairable(d)
    /\ d = "incoming" => ~Pairable("outgoing")

\* Mutants: the worker stays in the slice; the id stays in the queue.
GiveJobKeepingWorker(d) ==
    /\ Matching(d)
    /\ wpc[Head(available[d])] = "idle"
    /\ wpc' = [wpc EXCEPT ![Head(available[d])] = "busy"]
    /\ job' = [job EXCEPT ![Head(available[d])] = PopId(queue[d])]
    /\ queue' = [queue EXCEPT ![d] = PopRest(@)]
    /\ UNCHANGED <<available, dpc, channelVars, stopVars, historyVars>>

GiveJobKeepingMsg(d) ==
    /\ Matching(d)
    /\ wpc[Head(available[d])] = "idle"
    /\ wpc' = [wpc EXCEPT ![Head(available[d])] = "busy"]
    /\ job' = [job EXCEPT ![Head(available[d])] = PopId(queue[d])]
    /\ available' = [available EXCEPT ![d] = Tail(@)]
    /\ UNCHANGED <<queue, dpc, channelVars, stopVars, historyVars>>

\* Send and Receive hand the id over on the worker's unbuffered pendingMsg:
\* the dispatcher blocks until the worker is in its select and takes it.
GiveJob(d) ==
    /\ Matching(d)
    /\ wpc[Head(available[d])] = "idle"
    /\ wpc' = [wpc EXCEPT ![Head(available[d])] = "busy"]
    /\ job' = [job EXCEPT ![Head(available[d])] = PopId(queue[d])]
    /\ queue' = [queue EXCEPT ![d] = PopRest(@)]
    /\ available' = [available EXCEPT ![d] = Tail(@)]
    /\ UNCHANGED <<dpc, channelVars, stopVars, historyVars>>

\* Mutant: the dispatcher goes back to its select with pairs left.
MatchEndEarly ==
    /\ dpc = "match"
    /\ dpc' = "select"
    /\ UNCHANGED <<queue, available, channelVars, workerVars, stopVars, historyVars>>

MatchEnd ==
    /\ dpc = "match"
    /\ \A d \in Directions : ~Pairable(d)
    /\ dpc' = "select"
    /\ UNCHANGED <<queue, available, channelVars, workerVars, stopVars, historyVars>>

DispatcherStep ==
    \/ DispatcherBegin
    \/ \E id \in offered : ReceiveOutgoing(id)
    \/ ReceiveIncoming
    \/ \E d \in Directions : ReceiveReady(d) \/ GiveJob(d)
    \/ MatchEnd
    \/ DispatcherExit

-----------------------------------------------------------------------------
(* The worker goroutines. *)

WorkerBegin(w) ==
    /\ wpc[w] = "new"
    /\ wpc' = [wpc EXCEPT ![w] = "announce"]
    /\ WaitGroupAdd
    /\ UNCHANGED <<dispatcherVars, channelVars, job, historyVars>>

\* readySenders <- s, readyReceivers <- r: "this never blocks".
Announce(d, w) ==
    /\ wpc[w] = "announce"
    /\ Len(ready[d]) < ReadyCapacity(d)
    /\ ready' = [ready EXCEPT ![d] = Append(@, w)]
    /\ wpc' = [wpc EXCEPT ![w] = "idle"]
    /\ UNCHANGED <<dispatcherVars, chIncoming, offered, job, stopVars, historyVars>>

\* Mutant: the job is cleared before it is recorded.
FinishJobCleared(d, w) ==
    /\ wpc[w] = "busy"
    /\ wpc' = [wpc EXCEPT ![w] = "announce"]
    /\ job' = [job EXCEPT ![w] = NoJob]
    /\ finished' = [finished EXCEPT ![d] = @ \cup {job'[w]}]

\* The worker is done with its message and goes round its loop.
FinishJob(d, w) ==
    /\ wpc[w] = "busy"
    /\ wpc' = [wpc EXCEPT ![w] = "announce"]
    /\ job' = [job EXCEPT ![w] = NoJob]
    /\ finished' = [finished EXCEPT ![d] = @ \cup {job[w]}]

\* The body of a receiver's loop (http.go), or of the sending loop of a
\* TwitterConnection, as one step: neither touches a channel.
Finish(d, w) ==
    /\ FinishJob(d, w)
    /\ UNCHANGED <<dispatcherVars, channelVars, stopVars, posted>>

\* Mutant: Stop sends one value on Done instead of closing it.
WorkerExitAlone(w) ==
    /\ wpc[w] = "idle"
    /\ done
    /\ done' = FALSE
    /\ wpc' = [wpc EXCEPT ![w] = "exited"]
    /\ wg' = wg - 1
    /\ UNCHANGED <<stop, late, dispatcherVars, channelVars, job, historyVars>>

\* case <-s.done: return
WorkerExit(w) ==
    /\ wpc[w] = "idle"
    /\ done
    /\ wpc' = [wpc EXCEPT ![w] = "exited"]
    /\ WaitGroupDone
    /\ UNCHANGED <<dispatcherVars, channelVars, job, historyVars>>

-----------------------------------------------------------------------------
(* The goroutines that use the dispatcher: whoever posts messages, and the  *)
(* one that calls Stop.                                                     *)

\* d.Outgoing <- id: the poster blocks until the dispatcher receives.
OfferOutgoing(id) ==
    /\ offered' = offered \cup {id}
    /\ posted' = [posted EXCEPT !["outgoing"] = @ \cup {id}]

\* d.Incoming <- id: the poster blocks only while the buffer is full.
SendIncoming(id) ==
    /\ Len(chIncoming) < IncomingCapacity
    /\ chIncoming' = Append(chIncoming, id)
    /\ posted' = [posted EXCEPT !["incoming"] = @ \cup {id}]

\* Stop: close(d.Done), then d.WaitGroup.Wait().
StopClose ==
    /\ stop = "none"
    /\ stop' = "closed"
    /\ done' = TRUE
    /\ UNCHANGED <<wg, late, dispatcherVars, channelVars, workerVars, historyVars>>

NotBegun ==
    {w \in Workers : wpc[w] = "new"} \cup (IF dpc = "new" THEN {"dispatcher"} ELSE {})

\* Mutant: Stop does not wait.
StopWithoutWait ==
    /\ stop = "closed"
    /\ stop' = "returned"
    /\ late' = NotBegun
    /\ UNCHANGED <<done, wg, dispatcherVars, channelVars, workerVars, historyVars>>

StopWait ==
    /\ stop = "closed"
    /\ stop' = IF wg = 0 THEN "returned" ELSE "waiting"
    /\ late' = NotBegun
    /\ UNCHANGED <<done, wg, dispatcherVars, channelVars, workerVars, historyVars>>

=============================================================================
