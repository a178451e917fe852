-------------------------- MODULE DispatcherAlone --------------------------
(***************************************************************************)
(* The dispatcher of module Dispatcher on its own, between goroutines that *)
(* post every message once and a goroutine that may stop it; and what it   *)
(* guarantees.  An EchoSender posts the echo of every message it sends on  *)
(* Incoming itself, and waits there while the channel is full.             *)
(***************************************************************************)
EXTENDS Dispatcher

CONSTANTS OutIds,   \* ids posted on the Outgoing channel, once each
          InIds,    \* ids others than the senders post on Incoming, once each
          EchoOf    \* the id of the echo, for each message an EchoSender sends

Echoes == {EchoOf[id] : id \in DOMAIN EchoOf}

ASSUME IdsAssumption == OutIds \subseteq Id /\ InIds \subseteq Id

\* Every echo is a new message of the inbox, with an id of its own.
ASSUME EchoAssumption ==
    /\ DOMAIN EchoOf \subseteq OutIds /\ Echoes \subseteq Id \ InIds
    /\ \A x, y \in DOMAIN EchoOf : EchoOf[x] = EchoOf[y] => x = y

PostOutgoing(id) ==
    /\ id \notin posted["outgoing"]
    /\ OfferOutgoing(id)
    /\ UNCHANGED <<dispatcherVars, ready, chIncoming, workerVars, stopVars, finished>>

PostIncoming(id) ==
    /\ id \notin posted["incoming"]
    /\ SendIncoming(id)
    /\ UNCHANGED <<dispatcherVars, ready, offered, workerVars, stopVars, finished>>

Post ==
    \/ \E id \in OutIds : PostOutgoing(id)
    \/ \E id \in InIds : PostIncoming(id)

Echoing(d, w) == d = "outgoing" /\ job[w] \in DOMAIN EchoOf

\* Mutant: the sender drops the echo when there is no room for it.
FinishDroppingEcho(w) ==
    /\ FinishJob("outgoing", w)
    /\ posted' = [posted EXCEPT !["incoming"] = @ \cup {EchoOf[job[w]]}]
    /\ chIncoming' = IF Len(chIncoming) < IncomingCapacity
                     THEN Append(chIncoming, EchoOf[job[w]]) ELSE chIncoming
    /\ UNCHANGED <<dispatcherVars, ready, offered, stopVars>>

\* The body of an EchoSender's loop as one step, its last statement
\* s.incoming <- incoming.Id: the sender is busy until there is room for it.
FinishWithEcho(w) ==
    /\ FinishJob("outgoing", w)
    /\ SendIncoming(EchoOf[job[w]])
    /\ UNCHANGED <<dispatcherVars, ready, offered, stopVars>>

WorkerStep(d, w) ==
    \/ WorkerBegin(w)
    \/ Announce(d, w)
    \/ Echoing(d, w) /\ FinishWithEcho(w)
    \/ ~Echoing(d, w) /\ Finish(d, w)
    \/ WorkerExit(w)

Run ==
    \/ DispatcherStep
    \/ \E d \in Directions : \E w \in WorkersOf(d) : WorkerStep(d, w)
    \/ Post

\* The connection may be stopped once, at any moment.
Next == Run \/ StopClose \/ StopWait

Spec == Init /\ [][Next]_vars

\* Every goroutine that can take a step eventually does (the Go scheduler
\* preempts and select chooses at random among the ready cases), and a worker
\* finishes the message it has, once there is room for its echo.
Fairness ==
    /\ WF_vars(DispatcherStep)
    /\ \A d \in Directions : \A w \in WorkersOf(d) : WF_vars(WorkerStep(d, w))

FairSpec == Spec /\ Fairness /\ WF_vars(StopWait)

-----------------------------------------------------------------------------
TypeOK ==
    /\ dpc \in {"new", "select", "match", "exited"}
    /\ queue \in [Directions -> [high : Seq(Id), low : Seq(Id)]]
    /\ available \in [Directions -> Seq(Workers)]
    /\ ready \in [Directions -> Seq(Workers)]
    /\ chIncoming \in Seq(Id)
    /\ offered \subseteq Id
    /\ wpc \in [Workers -> {"new", "announce", "idle", "busy", "exited"}]
    /\ job \in [Workers -> Id \cup {NoJob}]
    /\ done \in BOOLEAN
    /\ wg \in Int
    /\ stop \in {"none", "closed", "waiting", "returned"}
    /\ late \subseteq Workers \cup {"dispatcher"}
    /\ posted \in [Directions -> SUBSET Id]
    /\ finished \in [Directions -> SUBSET Id]

-----------------------------------------------------------------------------
\* The announcements of a direction the dispatcher has not used up: those in
\* the channel, then those in the slice.
Tokens(d) == available[d] \o ready[d]

Injective(s) == \A i, j \in DOMAIN s : s[i] = s[j] => i = j

\* A worker is announced at most once, in its own direction, and is then in
\* its select or gone; a worker in its select has been announced.  Otherwise
\* it would be handed a message while it is busy with another.
OneTokenPerWorker ==
    \A d \in Directions :
        /\ Injective(Tokens(d))
        /\ Elements(Tokens(d)) \subseteq WorkersOf(d)
        /\ \A w \in WorkersOf(d) :
              /\ w \in Elements(Tokens(d)) => wpc[w] \in {"idle", "exited"}
              /\ wpc[w] = "idle" => w \in Elements(Tokens(d))

\* "mark ourselves as ready for work, this never blocks" (echo.go:47,
\* http.go:45, twitter.go:55): whenever a worker is about to announce itself
\* its channel has room.
AnnounceNeverBlocks ==
    \A d \in Directions : \A w \in WorkersOf(d) :
        wpc[w] = "announce" => Len(ready[d]) < ReadyCapacity(d)

\* The dispatcher blocks in Send or Receive only when the worker it picked has
\* left on Done; before Stop it never blocks there.
HandOffBlocksOnlyOnExited ==
    \A d \in Directions :
        Matching(d) /\ wpc[Head(available[d])] # "idle" =>
            done /\ wpc[Head(available[d])] = "exited"

\* Neither side of a hand-over waits for the other while the connection runs.
BlocksOnlyOnExited == AnnounceNeverBlocks /\ HandOffBlocksOnlyOnExited

-----------------------------------------------------------------------------
JobsOf(d) == {job[w] : w \in {v \in WorkersOf(d) : wpc[v] = "busy"}}

\* Where an id of a direction waits before it reaches the queue.
OnChannel(d) == IF d = "outgoing" THEN offered ELSE Elements(chIncoming)

\* No message is dropped between the channel, the queue and the workers.
NothingLost ==
    \A d \in Directions :
        posted[d] = OnChannel(d) \cup QueueIds(queue[d]) \cup JobsOf(d) \cup finished[d]

\* None is there twice or goes to two workers.
NothingDoubled ==
    /\ Injective(chIncoming)
    /\ \A d \in Directions :
        /\ Injective(queue[d].high) /\ Injective(queue[d].low)
        /\ \A v, w \in WorkersOf(d) :
              wpc[v] = "busy" /\ wpc[w] = "busy" /\ job[v] = job[w] => v = w
        /\ OnChannel(d) \cap QueueIds(queue[d]) = {}
        /\ OnChannel(d) \cap JobsOf(d) = {}
        /\ QueueIds(queue[d]) \cap JobsOf(d) = {}
        /\ finished[d] \cap (OnChannel(d) \cup QueueIds(queue[d]) \cup JobsOf(d)) = {}

\* An id put on a channel is in exactly one place until a worker is done with it.
EachInOnePlace == NothingLost /\ NothingDoubled

\* Both queues stay sorted and split at the mask while the dispatcher mixes
\* inserts and pops.
QueuesWellFormed == \A d \in Directions : WellFormedQueue(queue[d])

\* A worker is given a message only when no message queued in its direction
\* precedes it: high priority before low, older before newer.
SmallestFirst ==
    [][\A d \in Directions : \A w \in WorkersOf(d) :
          job[w] = NoJob /\ job'[w] # NoJob =>
              \A id \in QueueIds(queue[d]) : job'[w] <= id]_vars

-----------------------------------------------------------------------------
Begun(g) == IF g = "dispatcher" THEN dpc # "new" ELSE wpc[g] # "new"
Exited(g) == IF g = "dispatcher" THEN dpc = "exited" ELSE wpc[g] = "exited"
Goroutines == Workers \cup {"dispatcher"}

Running == {g \in Goroutines : Begun(g) /\ ~Exited(g)}

\* When Stop returns, every goroutine that had begun when it called Wait has
\* exited.
StopWaitsForBegun ==
    stop = "returned" => \A g \in Goroutines \ late : Exited(g)

\* dispatcher.go:59: Stop "blocks until they are all complete".
StopWaitsForAll ==
    stop = "returned" => \A g \in Goroutines : Exited(g)

-----------------------------------------------------------------------------
\* While the connection is not stopped, every message that is put on a channel
\* is dealt with by a worker: again and again nothing is left to do.
EveryMessageFinishes == []<>(done \/ \A d \in Directions : posted[d] = finished[d])

\* The dispatcher takes nothing from its channels any more: it has returned, or
\* it waits to hand a message to a worker that has.
NobodyReceives ==
    \/ dpc = "exited"
    \/ \E d \in Directions : Matching(d) /\ wpc[Head(available[d])] = "exited"

\* A sender at s.incoming <- incoming.Id (echo.go:89), which does not look at
\* Done, with the channel full and nobody left to receive from it.
StuckPosting(w) ==
    /\ wpc[w] = "busy" /\ Echoing("outgoing", w)
    /\ Len(chIncoming) = IncomingCapacity /\ NobodyReceives

\* Once Done is closed every receiver leaves, and every sender but one whose
\* echo found the channel full when the dispatcher had gone: that one stays.
WorkersLeave ==
    done ~> [](\A w \in Workers : wpc[w] = "exited" \/ (w \in Senders /\ StuckPosting(w)))

\* dispatcher.go:59 and the README: deleting a connection blocks until the
\* workers have stopped, so Stop returns.
StopReturns == done ~> stop = "returned"
=============================================================================
