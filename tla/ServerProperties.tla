-------------------------- MODULE ServerProperties --------------------------
(***************************************************************************)
(* What the HTTP server should guarantee, over the machine of module       *)
(* Server.                                                                 *)
(***************************************************************************)
EXTENDS Server

ServerTypeOK ==
    /\ DOMAIN db \subseteq saved /\ saved \subseteq known
    /\ known \subseteq Conns /\ valid \subseteq known
    /\ engines \subseteq saved
    /\ eng \in [Conns -> {"none", "running", "closed", "stopped"}]
    /\ given \in [Conns -> SUBSET {LowPriorityMask + n : n \in 1 .. MaxSeq}]
    /\ main \in {"loading", "serving", "fatal"} /\ starting \subseteq known
    /\ \A h \in Handlers :
          req[h].op \in Ops \cup {""} /\ Len(req[h].counts) <= 4

\* Somebody still works on the making or the removal of a connection.
InTheMiddle(c) ==
    \E h \in Handlers :
        req[h].conn = c /\ req[h].op \in {"add", "delete"} /\ req[h].at \notin Answers

\* A connection that is saved has a running engine the handlers find, unless a
\* request is just adding or deleting it: none is left behind by two requests
\* that meet, by a panic or by a restart (http.go:47-49, 93-100, junebug.go:52-78).
\* (A DELETE whose transaction fails leaves one.)  And main never meets one it
\* cannot make an engine of, which would end it at every later start too
\* (junebug.go:63-66, http.go:34-41).
SavedIsServed ==
    /\ main # "fatal"
    /\ main = "serving" /\ faults = 0 =>
          \A c \in DOMAIN db : ~InTheMiddle(c) => c \in engines /\ eng[c] = "running"

\* A connection that was deleted never comes back: what its workers, or handlers
\* that still hold its engine, save afterwards does not make its buckets again
\* (bolt.go:100-120 against :122-136).
GoneStaysGone == [][\A c \in saved : c \notin DOMAIN db => c \notin DOMAIN db']_serverVars

\* A DELETE that was answered has removed the connection, and the engine it
\* found has stopped; only one that came before the PUT had put the engine into
\* the map leaves the engine running (http.go:93-100).
DeletedIsGone ==
    \A h \in Handlers :
        At(h, "delete", "ok") /\ faults = 0 =>
            /\ req[h].conn \notin DOMAIN db
            /\ req[h].found => /\ eng[req[h].conn] \in {"stopped", "none"}
                               /\ req[h].conn \notin engines

\* The counts of a GET are of four moments, while messages move from box to box;
\* still no message that was there when the request came is left out: the
\* boxes messages leave are counted first (bolt.go:450-472).
StatusCountsEach ==
    \A h \in Handlers :
        At(h, "read", "ok") =>
            /\ req[h].counts[1] + req[h].counts[3] >= Cardinality(req[h].incoming)
            /\ req[h].counts[2] + req[h].counts[4] >= Cardinality(req[h].outgoing)
=============================================================================
