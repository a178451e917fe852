# A verification project for Junebug

Junebug is a message router in Go. It accepts outgoing messages over HTTP,
stores them in a boltdb file, hands them to *senders*, and hands incoming
messages to *receivers*, which post them to a URL. This directory holds TLA+
modules translated from its source and from the source of the libraries it
carries, TLC configurations that check them, and proofs checked by TLAPS.

Paths below are relative to `src/src/github.com/nyaruka/junebug/`; those of
libraries to `src/src/github.com/`.

## Inventory

| component | source | state | operations |
|---|---|---|---|
| priority queue | `store/queue.go` | two slices of ids, high and low | `Insert`, `Len`, `Pop` |
| dispatcher | `disp/dispatcher.go` | two priority queues, two slices of idle workers, channels `Outgoing` (unbuffered), `Incoming`, `Senders`, `Receivers` (buffered), `Done`, a WaitGroup | `Start` (one goroutine), `Stop` |
| connection engine | `engine/engine.go` | a dispatcher, its senders and receivers | `Start`, `Stop`, `AddPendingMsgsFromDB` |
| echo sender | `engine/echo.go` | one goroutine, a pending channel | `Send`, the loop of `Start` |
| http receiver | `engine/http.go` | one goroutine, a pending channel | `Receive`, the loop of `Start` |
| twitter connection | `engine/twitter.go` | a sending and a stream goroutine | `Send`, the loops of `Start` |
| twitter client | `ChimeraCoder/anaconda` | a queue of queries; per stream a loop, a channel `C` and a channel `Quit` | `throttledQuery`, `Stream.loop`, `Interrupt` |
| message store | `store/bolt.go` | per connection: a sequence, the messages, four boxes of ids | saving, marking, loading messages; saving, deleting, listing connections |
| message pool | `store/bolt.go:90` | a `sync.Pool` of `Msg` | `Get` with `init`, `Release` |
| http server | `http/http.go` | the map `engines` | add, delete, list, read a connection; send, read a message |
| main | `junebug.go` | - | opens the store, starts every saved connection with its backlog, starts the server |
| boltdb transactions | `boltdb/bolt/db.go`, `tx.go` | the file, two meta pages, the map of the file, the open readers, the writer | `View`, `Update`: begin, commit, rollback, remap, sync |
| boltdb free list | `boltdb/bolt/freelist.go` | free ids, pending ids by transaction | `allocate`, `free`, `release`, `rollback`, `read`, `write`, `reload` |
| boltdb buckets | `boltdb/bolt/bucket.go`, `node.go`, `cursor.go` | a B+tree of pages, the nodes a transaction has made of them | `Get`, `Put`, `Delete`, `NextSequence`, `ForEach`, create and delete a bucket, `rebalance`, `spill` |
| http router | `julienschmidt/httprouter` | a tree of path pieces per method | registering a route, `ServeHTTP`, `CleanPath` |
| json | `dustin/gojson`, `dustin/go-jsonpointer` | - | `Unmarshal`, `Find`, `FindMany`, `ListPointers`, `Get` |
| configuration | `cfg/config.go`, `scalingdata/gcfg` | one global, read once | `ReadConfig` |

How they interact. A handler or a worker *writes a message to the store and
then posts its id on a channel*; the dispatcher queues the id and hands it to an
idle worker on that worker's own unbuffered channel; the worker loads the
message, deals with it, and moves its id from one box to another in one
transaction. Memory knows only ids; the store is what survives. The store in
turn rests on boltdb's promise that a transaction is serialised and all or
nothing, which module `Bolt` looks into. Requests find their handler through the
router; the Twitter client takes the lines of a stream apart with the JSON
libraries (`ChimeraCoder/anaconda/streaming.go:328`); `main` reads the
configuration once, before anything else.

What is hard:

* **Concurrency.** One goroutine per worker, one for the dispatcher, one per
  HTTP request, two per Twitter connection; the dispatcher blocks on hand-overs,
  workers block on `Incoming`, handlers block on `Outgoing`, and `close(Done)`
  races all of them. In boltdb, readers and the writer share the map of the file
  under three locks.
* **Shutdown.** The WaitGroup is incremented by the goroutines it counts.
* **Crashes.** Between the steps "send", "mark", "write the echo", "post the
  echo" the process may die; what the next run finds is what the boxes say. In
  boltdb, between the write of a page and its sync.
* **Failures.** Errors of the store are logged and the loop goes on.
* **Order.** Priority is a bit in the id, kept by the queue in memory, and not by
  the order of keys in the store.

What makes each component correct:

* queue: both slices sorted, the mask separates them, `Pop` takes the smallest;
* dispatcher: no id lost or doubled, smallest id first, one announcement per
  worker and turn, no blocking hand-over before `Stop`, `Stop` waits and returns;
* engine, workers and store: boxes and messages agree, an answered message is
  stored, everything in a box is on its way to a worker or will be, a message is
  filed as done only when it was, nothing goes out twice in a run;
* server and main: an engine per saved connection, none for a deleted one, an
  answer for every request;
* twitter: a direct message is saved once per stream and not forgotten, and a
  query that waits out a rate limit is not executed twice;
* router: a request gets the handler and the parameters its path has by the routes,
  in whatever order they were registered, and a cleaned path is canonical;
* json: a text is read as the grammar says, or refused, and a pointer finds the
  bytes of its part of a text;
* configuration: a file sets the variables that its lines name, in their order, and an
  error is reported at the line that has it;
* boltdb: readers keep their version, a crash keeps what was acknowledged, every
  page has one owner, and a bucket's tree is what the calls made of it.

## Modules

| module | models | remarks |
|---|---|---|
| `Queue` | `store/queue.go` | operators only; `sort.Search` by its contract |
| `SortedList` | abstract: one sorted list | what the queue promises |
| `PriorityQueue` | the queue as a machine | refines `SortedList` |
| `Dispatcher` | `disp/dispatcher.go` and the loop skeleton all workers share | parameterised by the sets of senders and receivers |
| `DispatcherAlone` | the dispatcher with posting goroutines, echo senders that post themselves and a caller of `Stop` | its properties |
| `Store` | `store/bolt.go` | operators on a database value; a save is the set of its outcomes |
| `Delivery` | abstract: the life of every id | what a connection promises |
| `Engine` | `engine/*.go`, the handlers of `http/http.go`, `main` for one connection | composes `Dispatcher` and `Store`; echo senders, http receivers, requests, deletion, crashes |
| `EngineProperties` | the properties of `Engine` | the refinement of `Delivery` |
| `Twitter`, `TwitterProperties` | `engine/twitter.go` over the Twitter client | extends `Engine` with another body of the senders and with stream goroutines |
| `Server`, `ServerProperties` | `http/http.go` and `junebug.go` over several connections | composes the handlers with `Store`; of an engine only what handlers meet |
| `Freelist` | `boltdb/bolt/freelist.go` | operators on sets of page ids |
| `Bolt`, `BoltProperties` | transactions of boltdb, crashes and failing calls | on `Freelist` |
| `Snapshots` | abstract: versions, readers' views, acknowledged versions | what boltdb promises the store; `Bolt` refines it |
| `BoltTree` | the B+tree of a bucket | operators, on `Freelist`; recursive, so only for TLC |
| `BoltBucket` | write transactions on one bucket | with the map it ought to hold beside it |
| `RouteTree`, `Router` | `httprouter/tree.go`; `router.go`, `path.go` | the tree of routes by pieces of text; look-ups against the routes as registered; recursive |
| `JsonScanner`, `JsonDecoder`, `JsonPointer`, `Json` | `gojson/scanner.go`, `decode.go`; `go-jsonpointer` | the scanner's state machine, reading values with it, and pointers; `Json` builds texts and compares with the grammar; recursive |
| `ConfigReader`, `Config` | `scalingdata/gcfg`, `cfg/config.go` | scanner, reader and setter; `Config` builds files and compares with one pass over their lines; recursive |
| `MC*` | instances for TLC | `MCParts` joins parts that do not meet in one run: a behaviour chooses its subject |
| `QueueLemmas`, `PriorityQueueProofs`, `DispatcherProofs`, `ServerProofs`, `EngineProofs`, `MessageProofs`, `TwitterProofs`, `BoltProofs` | proofs | |

Definitions marked *Mutant* in a module are plausible bugs of the definition that
follows; nothing uses them in the specifications. They are kept to show that each
property can fail: put in place of the definition, they make the property named
for them in `PROJECT.json` fail in its run.

### Correspondence

*Dispatcher.* `dpc` says where the dispatcher's goroutine is: before its first
statement, in the `select`, in the two matching loops, or gone. `queue` and
`available` are its fields by direction, `ready[d]` are the channels `Senders`
and `Receivers`. The `select` is `ReceiveOutgoing`, `ReceiveIncoming`,
`ReceiveReady` and `DispatcherExit`; Go chooses any ready case, so does `Next`.
`GiveJob` is one turn of a matching loop: `Pop`, the send on the worker's
`pendingMsg`, the removal from the slice. The send is a rendezvous, so the step
needs the worker in its `select` (`wpc = "idle"`); without that the dispatcher
is stuck in it, which `BlocksOnlyOnExited` describes. The outgoing
loop runs until it has no pair, then the incoming one (`Matching`).
A goroutine blocked on the unbuffered `Outgoing` is an id in `offered`; as a
post of main or of a handler always follows a fresh id or the previous id was
taken, no id is offered twice at once.
The body of a worker's loop is one step in `DispatcherAlone`: a receiver's ends
with `Finish`, which touches no channel; an EchoSender's with `FinishWithEcho`, which
posts the echo's id on `Incoming` and so waits while the channel is full (`EchoOf`
gives the id). The post does not look at `Done`. After a `Stop` the dispatcher may be
gone, or blocked in a hand-over, with the channel full: that sender stays where it is for
ever (`StuckPosting`), the one exception in `WorkersLeave`.
`WaitGroupAdd` and `WaitGroupDone` are the counter; `Wait` returns in the step in
which the counter reaches zero. `late`, `posted` and `finished` are history.

*Store.* A database maps connections to buckets `[seq, msgs, box]`. bolt
serialises updates and they are all or nothing, so a transaction is one step; a
failed commit leaves the database unchanged but the id stays in the message in
memory, exactly as `saveMsgToBucket` leaves it. An id is the sequence number, plus
the mask when the priority is low. Addresses, times and logs are left out; address and
text are one value (`text`). The text of an echo is a value of its own, `AnEcho`: the
sender reads address and text of the message after it has given it back to the pool (`engine/echo.go:79-82`),
so another goroutine may have cleared it or filled it with another message, and no property says what an echo
reads.

*Engine.* A worker's loop body is split at its transactions and channel
operations (`phase`): `EchoSend`, `EchoMark`, `EchoWrite`, `EchoPost`,
`HttpForward`, `HttpMark`. A request is `LookUp`, `PutMessage` (the write and the start of
the blocking offer: nobody but the store sees the moment between) and `Respond`.
`MainStep` is `AddPendingMsgsFromDB`, one id at a time. `Crash` resets all of
memory and keeps `db`; main begins at its reading of the backlog.
Deletion is `close(Done)`, `Wait`, `delete(engines)`, removal of the bucket;
workers that are late may run in between and after it, and their
saves fail. `transmitted` and `forwarded` count, per run of the program, how often
a message went out; a POST that fails counts, since the code treats it like one
that succeeds. `raced` remembers the echoes saved between the start of the engine and
main's reading of the inbox.

*Twitter.* The sender's body is `TwitterLoad`, `Query`, `WakeUp` (the client has
put the query back on its queue and slept) and `TwitterMark`; the receiving
goroutine is `spc`: it listens, saves, posts; the client's goroutine below it is
`loop`, which requests a stream, reads lines from it, offers each on the
channel `C` (`event`) and ends, on a failure for good, in a send on `Quit`.
`heard` keeps Twitter's promise to send a message once per stream. A deletion of
the connection closes `Quit` through `Interrupt`; a goroutine that then sends on
it takes the program down (`Panic`, `panicked`).

*Server.* Each request is one goroutine, `req[h]` its local variables and its
place (`at`) in the handler; an access to the map `engines`, a transaction, and a
channel operation are one step each. An add is `AddSave`, `AddStart`, `AddStash`; a DELETE is `Look`,
`Close`, `Wait`, `Forget`, `Erase`; a message is `SendLook`, `SendWrite`,
`SendOffer`; `Count` is one of the four transactions of `GetStatus`; `ListConnections` and
`ReadMessage` are one transaction each. `eng` is what is left of an engine. main starts the
saved connections one at a time (`StartOne`) and gives up (`"fatal"`) at the
first whose engine cannot be made. A second close of `Done` panics: net/http
recovers it, the request ends where it stands.

*Router.* A tree is a record of nodes with the pieces of path they stand for, the
indices of their children's first characters, priorities, and the kinds static,
parameter and catch-all. `AddRoute` splits edges, counts priorities and moves
children to the front as `tree.go` does; the look-up with its recommendation of a
redirect follows it statement by statement. `Register` is the action: it adds
routes one after another, so that every order of registration is a behaviour.

*JSON.* `JsonScanner` is the scanner's `step` functions as a transition function on its state,
its stack of `parseState` and a piece of text; a piece is a character or a run of
characters the scanner treats alike. `JsonDecoder` reads values by it, and
`JsonPointer` walks over a text by `Find`'s and `FindMany`'s loops. A
behaviour builds a text piece by piece, and an invariant compares what is read from it
with what the grammar says.

*Configuration.* `ConfigReader` has gcfg's scanner and the reader's loop over tokens;
a section's variables are set through the kinds of Junebug's fields.
A file is a sequence of lines from a small set, values are built character by
character.

*boltdb.* `Bolt` has a reader at one of the steps of `View` at which another
goroutine can act (`reader[r].pc`) and the writer at one of `Update`'s: its body,
the spilling of pages, the new list, a remapping, then the dirty pages, the sync,
the meta page, its sync. `file` is what transactions see
through the map, `disk` what is sure to be there after a crash; a crash keeps any
subset of the difference. Each failing call leads to the rollback the code does there.
`BoltTree` works on a record `t`, the bucket as a transaction has it: pages,
materialised nodes, free list; `Put`, `Delete`, `Rebalance`, `Spill` and the
cursor follow the code statement by statement, with a size for a byte count.
`BoltBucket` runs transactions with them and keeps in `want` what the bucket
ought to hold.

## Runs

| run | asks | result |
|---|---|---|
| `parts` | the queue as one sorted list; a bucket's tree after any two transactions; the server's connections; a Twitter connection; requests by the routes; JSON texts by the grammar; configuration files by their lines | holds |
| `dispatcher` | are ids lost, doubled or misordered; do announcements or hand-overs block; does `Stop` wait; does every message reach a worker and every worker leave, with a stop at any moment? | holds, `Stop` for the goroutines that had begun, the leaving but for a sender whose echo finds `Incoming` full and the dispatcher gone |
| `dispatcher_stop_hangs` | does `Stop` return? | **no** |
| `dispatcher_stop_early` | does `Stop` wait for every goroutine started? | **no** |
| `engine_safety` | with a crash, a failing transaction or a deletion anywhere: agreement of boxes and messages, stored answers, a complete backlog, one sending per run, the life of every id that of `Delivery` | holds |
| `engine_live` | does no message stay queued for ever, with a crash or a deletion; is an echo handled for every answered request, without a crash or a failure? | yes |
| `engine_hangs` | is every request answered when the connection may be deleted? | **no** |
| `engine_restart_order` | does high priority go first after a restart? | **no** |
| `bolt` | do readers keep their version, does a crash keep what was acknowledged, has every page one owner, does a writer that waits get the map? | holds |
| `bolt_sync` | the same when the sync of a meta page may fail | **no** |
| `tree` | does a bucket hold what was put into it after three calls in one transaction? | **no** |
| `twitter` | does deleting a Twitter connection leave the program alone? | **no** |

The negative answers are documented claims the program or its libraries do not meet:

* `dispatcher_stop_hangs` (`disp/dispatcher.go:59`, README of the repository,
  line 149). The worker leaves on `Done` while the dispatcher has already picked
  it: the dispatcher blocks for ever in `Send`, and `Stop` in `Wait`. A sender can
  hang in the post of its echo at `engine/echo.go:89`, with the same result (`WorkersLeave` has it as its
  exception), and a Twitter stream's goroutine likewise at `engine/twitter.go:135`.
* `dispatcher_stop_early` (`disp/dispatcher.go:59`). A goroutine started with `go`
  that has not reached its `Add(1)` is not waited for.
* `engine_hangs` (README, line 181). A handler that found the engine before a
  DELETE offers its id to a dispatcher that has gone.
* `engine_restart_order` (README, line 179). The backlog comes in key order; the
  keys are little-endian, so the mask bit is compared last.
* `bolt_sync` (`boltdb/bolt/tx.go:20-22`). The meta page is written before it is
  synced; when the sync fails the transaction is rolled back in memory although
  everybody who comes next begins with its version, and pages of the version
  before, which a reader may use, are given away.
* `tree` (`boltdb/bolt/bucket.go:347`). A put below the first key of a leaf leaves
  the old key in the parent and in the node; `rebalance` then finds the parent's
  items by it. The message store makes at most one put or delete per bucket in
  a transaction and does not reach it.
* `twitter` (`ChimeraCoder/anaconda/streaming.go:153`). The stream's goroutine
  sends on `Quit`, which `Interrupt` closes.

Further facts seen while modelling. No run of its own refutes a document with them; where a
document says otherwise, it is named. With a
failing commit of an echo its id goes to the next message, which a receiver then
posts and marks handled (`BoxesAgreeWithMessages` is stated for behaviours
without a fault). A crash between `MarkSent` and `WriteToInbox` loses the echo, and a message
that is taken from the pool in time changes its text, while `engine/echo.go:16` has a sender that "returns an
echo of the sent message": `EchoArrives` only counts echoes, in behaviours without a crash. Of the libraries:

* The router misses the redirect for a trailing slash behind parameters that precede a
  catch-all (`/:x/:y/*z`, request `/a/a`); with only `/ab` registered a request for
  `//` is redirected to the empty path again and again. httprouter's README
  (lines 22-25) and the comment at `router.go:115-120` promise such redirects whenever there is a handler for
  the other path. `RoutesAsRegistered` holds the router to the routes it finds, not to its redirects.
* `Find` panics on a text that is cut off where a value should begin, while `FindDecode`'s comment
  (`bytes.go:77-79`) has an error when there is no document at a path; `unescape` (`bytes.go:29`)
  replaces `~0` before `~1`, against RFC 6901, which the package claims to implement (`doc.go:1`,
  `README.markdown:3`), so that `Find` in `{"~1":0}` misses `/~01` (`map.go` has the right order, and
  `FindMany` compares paths as they are written). `FindsParts` has
  both as exceptions, and says that there are no others. `FindMany` fails at the
  first place of an empty array and misses paths when a name comes twice; `Get` panics for
  `-1` and accepts `+1` and `01`; `ListPointers` lists `/0` for an empty array. Of two
  equal names `Find` takes the first and `Unmarshal` the last.
* A configuration that cannot be read keeps the settings of the lines before the
  error; an unknown section is accepted until it has a variable; a
  variable without a value is an error for every kind of field Junebug has.

### Bounds

* `parts`. A behaviour chooses its subject, so the states of the subjects add up
  and do not multiply.
  *Queue*: three ids on either side of the mask, at most four queued: an insert at the
  front, in the middle, at the end, of an equal id, into either slice all occur.
  *Bucket*: two transactions of two calls with five keys and values of two sizes, on pages with room for five,
  on an empty tree, on a leaf of four keys, and on trees of ten and of fourteen even keys, which have two
  and three levels and two items in most leaves and branches. Reached are: a leaf that splits, below a branch and as the root; a branch that splits, below
  another and as the root; a tree that grows by a level when a transaction ends; leaves and
  branches that take an item from a sibling or are merged with it; a root that collapses, also in
  the commit in which branches merge. New keys come at the front, in the middle and at the end of a leaf, and 23
  between two keys of the largest tree.
  *Server*: three requests of any kind, two connections, one crash, one failing
  transaction, one message. Two DELETEs of one connection, an add that meets a
  DELETE, and counts that meet a move take two or three requests.
  *Connection*, *deletion*: one sender and receiver, one direct message, one of the
  user's own, one rate limit or one crash; with one request, or with the
  connection's deletion.
  *Router*: Junebug's eight routes, abbreviated, and any three of seventeen others that share
  beginnings and have parameters and catch-alls; asked for paths of up to four characters.
  `CleanPath` on texts of up to five characters over `/`, `.` and `a`.
  *JSON*: texts of up to five pieces, and documents without spaces of up to nine; two names, with
  the characters and pairs of them that a pointer escapes (`/`, `~`, `~1`); seven pointers, alone and in pairs; strings and numbers of up to four pieces.
  *Configuration*: values of up to four characters of nine, after two beginnings; files of up to three
  of eighteen lines.
  Requests are interchangeable, and so are the server's connections, hence the
  symmetry; the run has no liveness property.
* `dispatcher`: an EchoSender with a message to send, whose echo has a low id; a high id that
  another goroutine posts on `Incoming`; two receivers (so two announcements, and two workers that may be given
  the same id); `Stop` at any time. The queue of incoming ids so uses both slices. `Incoming` has room for as
  many ids as there are senders, one, so the echo finds it full. Senders and receivers are handled by the same
  definitions, so two of one kind are enough. `dispatcher_stop_hangs` has two messages of both priorities to send and their echoes.
* Engine runs: one sender and receiver; one high and one low request; `MaxSeq`
  messages, the requests and their echoes plus the resends after a crash;
  `MaxTroubles` 1: a behaviour has a crash, a fault or a deletion. A second crash
  meets the program in a state of the same kind: everything in memory is reset.
  `MaxSeq` stays below 256 because `FirstKey` describes the key order for one byte.
* `bolt`: two readers and a writer, two keys, four transactions that write (so a
  page freed by the first is released, reused and freed again), a map of eight
  pages that has to grow (`MapSizes` are the sizes it can have, powers of two as in
  `mmapSize`), one crash or failing call at any moment. `LastPage` bounds the file: a
  transaction that would need more pages does not go on placing them (`HasRoom`), it
  can still fail; twenty pages are more than four transactions take.
* `tree`: one transaction of three calls on twelve keys.

`RoomForMessage` stops a worker from saving beyond `MaxSeq`. In the runs with
liveness `MaxSeq` is large enough for every message the run can make, so the
bound never stops one there.

`CHECK_DEADLOCK FALSE` is set in all runs but those of `Bolt`: clients send finitely
many requests, and once all is dealt with, or after a stop, the program idles.
That nothing is left undone when it does is what the liveness properties say.

### Fairness

Weak fairness of each goroutine: the Go scheduler runs every goroutine that can
run. The dispatcher is one goroutine, so one condition covers its whole step; that
suffices because a finite number of messages is posted. Fairness of a receiver's step includes
that the endpoint answers a post sooner or later (the client has no timeout), that of a
sender's step that its API does. In `Bolt`, of the writer once it has begun and of
readers that have: a function given to `View` ends. No fairness is assumed for
clients, `Stop`, DELETE, crashes or faults. Once DELETE has been received, its own steps are fair.

## Proofs

For every number of senders and receivers, every set of messages and every mask:

* `QueueLemmas`: `sort.Search` has an answer (by well-founded induction on the
  least index not below the id), an insert at that position keeps a slice sorted and adds just
  that id and repeats none, a `Pop` takes the smallest; either changes how often one id is in the
  queue (`CountQueue`) by one. `PriorityQueueProofs` concludes
  `QueueStaysWellFormed`, `QueueRefinesSortedList` (the step simulation of
  `SortedList`) and `PopAnswersSmallest`.
* `DispatcherProofs`, `IInvTypes`: the types and `QueuesWellFormed` are inductive together
  with `BusyHasJob` (a worker has a job just while it is busy), as the insert
  position is a number only for a sorted slice, and what a worker finishes is an id only
  if it has a job. This gives `TypeCorrect` and `DispatcherQueuesWellFormed`.
* `IInvTokens` adds `OneTokenPerWorker` and that a worker exits only after `Done`
  is closed. The announcements of a direction are the slice followed by the
  channel; they are a sequence without repetitions over the workers in their
  `select` or gone, and every step either keeps it, takes its head or appends a worker that is
  not in it. From it follow `NeverBlocksBeforeStop` (a sequence without repetitions over the
  other workers is shorter than the number of workers: the pigeonhole
  principle) and `SmallestGoesFirst`.
* `IInvStop`: the counter of the WaitGroup is the number of goroutines that have
  begun and not left (`WaitGroupCounts`), so it is zero only when none is left
  that had begun when `Stop` closed `Done`: `StopWaits`.
* `IInvPlaces`: every posted id is in exactly one of the offers, the channel, one
  of the two slices of its queue, one worker's hand, or among the finished, for each direction by a
  predicate of its own, with frame lemmas for the steps of the other direction. The echo that a sender
  posts is new on its channel, as echoes have ids of their own and one is posted only in the step
  that finishes its message (`EchoesFit`). Conclusion: `NothingLostOrDoubled`.

With these every safety property of the run `dispatcher` is proved.

For every set of connections, handlers and texts, and every bound on sequence
numbers, crashes and failing transactions:

* `ServerProofs`: `IInvTypes` types the database and what main and each handler hold
  at each step. `IInvServed` says who attends to a saved connection: main, which is
  still to start it, its running engine in the map, or a handler that is between
  two steps of adding or of deleting it (`Attended`); that nobody can find
  the engine of a connection which is just being added (`Unborn`); and what a DELETE has
  done by each of its steps (`Departed`). Conclusions: `ServerTypes`,
  `EverySavedIsServed`, `EveryDeletedIsGone`; and `DeletedStaysDeleted`, as no transaction but
  that of a new connection makes a bucket.
* There too, `NoMessageIsLeftOut`: a count of boxes that are read one after
  the other cannot miss a message, since messages move only in the direction in which the boxes
  are read (`SavingMovesForwards`). The invariant bounds the messages that were there when the
  request came and have left the boxes still to be read by the counts made so far (`FirstCounts`, `LastCounts`).

For every set of requests, of senders and receivers, and all bounds of `Engine`:

* `EngineProofs`, `IInvEngine`: the tokens and types of `DispatcherProofs` (their
  frame lemmas are cited for the steps in which the dispatcher runs) with the
  types of the store and of every goroutine, and three relations between them. An
  id on its way out (offered, queued, in a hand) is in the outbox or
  the sent box (`OnTheWay`); a message in a hand is the one the store filed under its id
  (`HandsFit`); what a PUT answered is stored (`AnswersFit`). What makes it inductive is
  that a save is a set of outcomes, each of which either leaves the database alone or
  files one message (`TransactFits`, `WriteFits`, `MarkFits`), so a failed transaction and
  a success are one case.
* From it: `EngineTypesCorrect` and `AnswersAreKept`. `IInvDeeds` adds that a message whose mark
  is being made has been sent or posted, which is true of echo senders only: one for Twitter marks a
  message whatever became of its query. `MarksFollowDeeds` needs this and
  that only two steps of workers move a message between boxes
  (`StoreMovesOnly`), which also gives `ConnectionKeepsPromise`: every step of the
  connection is a step of `Delivery` or leaves its state alone (`PromiseSteps`).
* `MessageProofs`, `IInvBacklog` (with the set of ids that goroutines of other kinds hold, empty here): while no transaction has failed, the boxes tell of each
  message what its record says (`BoxesSay`) and each id of the outbox or the inbox has somebody
  who will send or handle it (`Awaited`): main, which has read it from the box and not yet
  dispatched it, a channel, a queue, a worker (`ToSend`, `ToHandle`). A worker that has marked its
  message no longer counts (`Late`), so that nothing is lost when it lets go of it. What
  makes it inductive is that a worker marks a message which is
  in the box it came from, as messages change boxes only forwards (`MarkedIn`), and that a deletion shuts `done`
  before any PUT can miss the engine (`StopFits`). Conclusions: `BoxesAlwaysAgree`, `NobodyIsForgotten`.
* `UnsentFits`: until the first crash a high-priority message that was accepted has an id
  below the mask, and it is on the channel, has reached the dispatcher or has been sent. When a sender
  takes an id with the mask bit, which `Pop` found to be the smallest of its queue, every high-priority
  message that reached the dispatcher and is not sent is in a hand: `HighGoesFirst`.
* `IInvOnce` uses the places of `DispatcherProofs` for the ids that were posted to go out: such an
  id is in one place, a new message gets an id that is in no box, and main has
  dispatched the outbox before the server takes a request (`PostsFit`).
  `IInvCopies` counts the other direction, where an id may be in several places: the copies of
  an id in the channel, the queue, the receivers' and the senders' hands and what main has still to
  dispatch, with the posts already made, are at most the failed transactions, one more
  when its echo was saved before main read the inbox and one more when the id is in a box that
  main will not read again (`Allowed`). An echo adds a copy and moves its id from no box to
  one; reading the inbox does the same for all ids it finds; every other step of a run moves a copy or
  uses one up. Conclusion: `NothingIsRepeated`.

For every set of requests, direct messages, senders and receivers, and all bounds,
`TwitterProofs`. Its theorems have a hypothesis, `TwitterParameters`: the bound on rate limits
is a natural number, and the texts of other people's direct messages, of the user's own and of requests are
different. The modules tell a message in the store by its text, where the code has the fields
`Address` and `Text`, so without it a count of what came from a direct message would also count what a client
has sent. `IInvTwitter` is `IInvEngine`, whose lemmas are cited for the steps the two kinds
of connection share, with `IInvStreams`:

* `StreamFits`: what a stream's loop offers and what its goroutine is saving has been
  heard, and is not the same message.
* `EndsFit`: only a deletion closes `Done` or a stream, and it begins only while
  another trouble is within the bound, so that a panic is still one the model counts.
* `SavedFits`: a message is saved at most as often as there are streams that have heard it and
  neither offer nor save it any more (`Settled`). Hearing takes no stream out of this set; saving a message, or
  failing to, puts one in. A crash takes none out, as `heard` is what Twitter remembers.

From it `TwitterTypesCorrect`, `TwitterAnswersAreKept` and `TwitterKeepsPromise` (the lemma
`PromiseSteps` asks only which message moves between boxes, and `TwitterMovesOnly` answers it for the
steps of Twitter). `TwitterSendsOnce` is `IInvOnce` with the phases of a query:
a query that waits or was refused has not gone out (`Unsent`), and only such a one is repeated.
`DirectMessagesReachTheUrl` combines `SavedFits` with `IInvBacklog(StreamPosts)`, where a stream's
goroutine holds a message from its save until it has posted the id.
The last two are the properties `SentOncePerRun` and `EachMessageSavedOnce` that the run `parts` checks of
its instance `Connection`.

For every number of readers, every set of keys, and all bounds on pages, transactions
and troubles, `BoltProofs`. Its theorems have a hypothesis, `Regular`: the last sync of a
commit does not fail, without which they are false (run `bolt_sync`), and the file has
fewer pages than the count of a page header holds, as a longer list loses its last id
when it is read (`freelist.go:163`, `ReadList`). `IInv` says what the code relies on:

* `Sound(file)`: the two meta pages are of successive transactions, and the newer version
  is complete: a tree of different pages, a list apart from it, and on the list all other pages
  below the high water mark (`Version`). The older version need not be complete: its pages are reused.
* `WriterTypes`, `FreelistFits`: where the writer is and the number it writes under; a page is on the
  free list once, and between transactions the list in memory has the ids of the list in the file
  (`Listed`). While the writer is at work the pages that others have freed and readers hold are still
  among these (`Kept`), and what it frees itself is of the newest version (`Own`).
* `DirtyFits`: pages it has taken come from the list or lie behind the last page, so writing them
  touches nothing of the newest version. This is why a rollback needs to undo nothing in the file.
* `NodesFit`: what it has freed, with the nodes that are where they were, is exactly the tree it
  began with, so nothing leaks: this makes the new list complete. `VersionFits`: once the list is
  placed, the file as it will be with the dirty pages written (`After`) has the new version.
* `DiskFits`: what a crash would find. Outside the last sync it has the same meta
  pages as the file and all pages of the newest version; within it, it is sound by itself, as
  only the new meta page differs.
* `MapFits`: written pages are mapped, and so is what the writer has taken; a writer that came back
  from growing the map has room for what it asked for.
* `ReadersFit`: the version that a reader has copied, or is about to copy, is a tree whose pages cannot
  be reused, not even after a rollback has put pages back on the list (`Reusable`), and are pending only
  for later transactions (`Safe`). `Released` stops at the oldest open reader, which keeps it so. A reader that has compared the
  meta pages and not copied one yet is covered as the writer cannot overwrite that one before it has
  begun another transaction.

The proof has a lemma per action; the placing of a page, which all of spilling shares, is done
once for both its cases, off the list and behind the last page. Conclusions: `TypeCorrect`,
`EveryPageHasOneOwner`, `ReadersKeepTheirPages`, `UsedPagesAreMapped`, and with the contents of a version as
the value of the database `TransactionsKeepThePromise`: writing the meta page is the step
that publishes, its sync the one that acknowledges, a crash goes back to what is
acknowledged or to what was published, and every other step leaves the values alone.

Assumptions: the mask is a positive natural number; senders and receivers are
finite, non-empty, disjoint sets (a connection has at least one of each,
`store/bolt.go:547`), none of them called "dispatcher", the name of the
dispatcher's goroutine in the WaitGroup's history; `NoJob` is no id; posted ids
are ids, and every echo has an id of its own (`EchoAssumption`). The empty text is no connection's uuid, `NoText` is no text of a request, and there is
a text. High and low requests are disjoint, and every bound is a natural number; `MaxSeq` is
below 256 and below the mask (see Bounds). Keys of boltdb are numbers, as only their
order counts; the map can be larger than the file may grow (`mmapSize` goes to 256 TB). TLC evaluates them in every run.

Only model-checked:

* all liveness, as fairness and ENABLED are out of the prover's reach;
* what the buckets of boltdb hold (`TreeIsSound`, `HoldsLastPut`) and what is said of `Router`, `Json` and `Config`: trees, texts
  and their readers are recursive;
* `PartsTypeOK`, which types all subjects of the run `parts`; of these only the queue, the server and the
  Twitter connection have a theorem of their own.

That a mark follows the deed (`MarkedOnlyWhenDone`) is stated of echo connections only: see
`engine/twitter.go:73-82`, where a failed query is logged and the message marked as sent.

## Not modelled

* The static page.
* The router's `CONNECT`, `PanicHandler` and file server.
* The message pool itself: which message it gives to whom depends on `sync.Pool`. Where a message is
  read after its release, its text may be anything (`AnEcho`).
* The order in which a return statement evaluates a pointer and the call that sets it
  (`store/bolt.go:140`, `:486`): the modules take the one the program depends on.
* Data races on the map `engines` as such: an access to it is one step.
* Messages whose JSON brings an id of its own.
* boltdb: a failing unmapping or mapping of the file (`db.go:236-243`), a meta page that is
  torn by a crash, nested transactions of one goroutine, `Batch`, backups, file locks,
  `NoSync`, buckets below buckets, cursors that move backwards.
* The other vendored libraries (the JSON encoder, OAuth, uuids): conversions of
  data without a state that outlives a call.
