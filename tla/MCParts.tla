------------------------------ MODULE MCParts ------------------------------
(***************************************************************************)
(* Parts of the program that do not meet, checked in one run: a behaviour  *)
(* chooses its subject at the start, and only that moves.                  *)
(*   queue       three high and three low ids around the mask, queues of   *)
(*               up to four, every id insertable again while it is queued  *)
(*   bucket      two transactions of two calls on trees of none to         *)
(*               fourteen keys, on pages with room for five, so that       *)
(*               leaves and branches split, borrow and merge, and the root *)
(*               splits and collapses                                      *)
(*   server      two connections and three requests, of which two may be   *)
(*               DELETEs of a connection that a third one has just made    *)
(*   connection  a Twitter connection with one request, one direct         *)
(*               message and one of the user's own, and a crash            *)
(*   deletion    the same without the request, until it is deleted         *)
(*   router      the program's routes with shorter names, and any three of *)
(*               seventeen that share prefixes, parameters and methods     *)
(*   json        texts of up to five pieces, documents of up to nine       *)
(*   config      a value of a configuration file, character by character,  *)
(*               and files of up to three lines                            *)
(***************************************************************************)
EXTENDS PriorityQueue, ServerProperties, TLC

CONSTANTS
    PageSize, IdsPerPage, CountMax, Vals, Wide, MaxTxs, MaxOps,
    Senders, Receivers, NoJob, Conn, Said, MaxSaid,
    HighRequests, LowRequests, MaxTroubles,
    Messages, OwnMessages, MaxLimits

VARIABLES
    subject,
    file, t, calls, want, ops,
    dpc, queue, available, ready, chIncoming, offered, wpc, job, done, wg, stop, late,
    posted, finished,
    store, phase, held, mpc, backlog, rpc, rid, deletion, kills, failures,
    transmitted, forwarded, raced,
    spc, sheld, loop, heard, event, quit, limits, panicked,
    trees, routes,
    text, scan, pieces,
    beginning, rest

Evens(n) == {2 * i : i \in 1 .. n}
FirstTrees == {{}, {2, 4, 10, 12}, Evens(10), Evens(14)}

Bucket == INSTANCE BoltBucket WITH
    phase <- calls, Keys <- {2, 4, 10, 12, 23}, FirstKeys <- FirstTrees

Connection == INSTANCE TwitterProperties WITH
    db <- store, crashes <- kills, faults <- failures,
    Conns <- {Conn}, Texts <- Said, MaxSeq <- MaxSaid, MaxFaults <- 0
ConnectionTexts ==
    LET said == HighRequests \cup LowRequests
    IN  said \cup {"echo"} \cup Messages \cup OwnMessages

Routing == INSTANCE MCRouter
JSON == INSTANCE MCJson
Configuration == INSTANCE MCConfig

bucketVars == <<file, t, calls, want, ops>>
connectionVars ==
    <<dpc, queue, available, ready, chIncoming, offered, wpc, job, done, wg, stop, late,
      posted, finished,
      store, phase, held, mpc, backlog, rpc, rid, deletion, kills, failures,
      transmitted, forwarded, raced,
      spc, sheld, loop, heard, event, quit, limits, panicked>>
routerVars == <<trees, routes>>
textVars == <<text, scan, pieces>>
configVars == <<beginning, rest>>
partsVars == <<subject, vars, bucketVars, serverVars, connectionVars, routerVars, textVars, configVars>>

Subjects ==
    {"queue", "bucket", "server", "connection", "deletion", "router", "json", "config"}

PartsInit ==
    /\ subject \in Subjects
    /\ Init
    /\ IF subject = "bucket" THEN Bucket!Init
       ELSE file = {} /\ t = {} /\ calls = "" /\ want = {} /\ ops = 0
    /\ ServerInit
    /\ Connection!TwitterInit
    /\ IF subject = "router" THEN Routing!Init ELSE trees = << >> /\ routes = {}
    /\ JSON!Init
    /\ IF subject = "config" THEN Configuration!Init ELSE beginning = << >> /\ rest = << >>

PartsNext ==
    \/ /\ subject = "queue" /\ Next
       /\ UNCHANGED <<subject, bucketVars, serverVars, connectionVars, routerVars, textVars, configVars>>
    \/ /\ subject = "bucket" /\ Bucket!Next
       /\ UNCHANGED <<subject, vars, serverVars, connectionVars, routerVars, textVars, configVars>>
    \/ /\ subject = "server" /\ ServerNext
       /\ UNCHANGED <<subject, vars, bucketVars, connectionVars, routerVars, textVars, configVars>>
    \/ /\ subject \in {"connection", "deletion"} /\ Connection!TwitterNext
       /\ IF subject = "connection" THEN deletion' = deletion /\ kills' + limits' <= 1
          ELSE rpc' = rpc
       /\ UNCHANGED <<subject, vars, bucketVars, serverVars, routerVars, textVars, configVars>>
    \/ /\ subject = "router" /\ Routing!Next
       /\ UNCHANGED <<subject, vars, bucketVars, serverVars, connectionVars, textVars, configVars>>
    \/ /\ subject = "json" /\ JSON!Next
       /\ UNCHANGED <<subject, vars, bucketVars, serverVars, connectionVars, routerVars, configVars>>
    \/ /\ subject = "config" /\ Configuration!Next
       /\ UNCHANGED <<subject, vars, bucketVars, serverVars, connectionVars, routerVars, textVars>>

PartsSpec == PartsInit /\ [][PartsNext]_partsVars

\* Requests are interchangeable, and so are the connections of the server.
PartsSymmetry == Permutations(Handlers) \cup Permutations(Conns)

-----------------------------------------------------------------------------
(* The properties of the parts; those of the queue and of the server are in *)
(* the modules extended.                                                    *)

AConnection == subject \in {"connection", "deletion"}

\* Type: every part's variables are what its module says.
PartsTypeOK ==
    /\ TypeOK
    /\ ServerTypeOK
    /\ AConnection => Connection!TwitterTypeOK

\* A bucket holds for each key what was put there last, in the look-up and in the
\* walk over its leaves (bolt/bucket.go, cursor.go).
HoldsLastPut == subject = "bucket" => Bucket!GetFindsLastPut /\ Bucket!WalkYieldsAll

\* Its pages are sorted, balanced and each in one place (bolt/node.go).
TreeIsSound == subject = "bucket" => Bucket!TreeIsSound

\* A direct message is saved at most once for each stream, and every message in
\* the inbox is in somebody's hand (engine/twitter.go).
EachMessageSavedOnce ==
    AConnection => Connection!EachMessageSavedOnce

\* Twitter is asked to send a message once in a run (anaconda/twitter.go).
SentOncePerRun == AConnection => Connection!SentOncePerRun

\* A request gets what the routes say, in whatever order they were registered
\* (httprouter/tree.go), and a cleaned path has the elements that "." and ".."
\* leave of it (path.go).
RoutesAsRegistered == subject = "router" => Routing!RoutesAsRegistered
CleansPaths == subject = "router" /\ routes = {} => Routing!CleansPaths

\* JSON is read as its grammar says (gojson/decode.go), and a pointer finds its
\* part of a text (go-jsonpointer/bytes.go).
ReadsJson == subject = "json" => JSON!ReadsJson
FindsParts == subject = "json" => JSON!FindsParts

\* A configuration file is read as in a single pass over its lines (gcfg/read.go).
ReadsConfiguration == subject = "config" => Configuration!ReadsConfiguration
=============================================================================
