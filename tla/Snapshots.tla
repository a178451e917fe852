------------------------------ MODULE Snapshots ------------------------------
(***************************************************************************)
(* What boltdb promises the message store: one writer at a time changes a  *)
(* private copy and publishes it in one step; a reader looks at the        *)
(* version that was published when it began, until it ends; a version that *)
(* was acknowledged survives a crash.                                      *)
(***************************************************************************)
EXTENDS Integers

CONSTANTS Readers, Keys, Values, NoView

VARIABLES
    db,       \* the published version, a function of the keys that have a value
    acked,    \* the last version whose Update has returned
    draft,    \* what the open write transaction has made of it
    views     \* per reader, the version it looks at, or NoView

abstract == <<db, acked, draft, views>>

Versions == UNION {[K -> Values] : K \in SUBSET Keys}

Init ==
    /\ db = << >> /\ acked = << >> /\ draft = << >>
    /\ views = [r \in Readers |-> NoView]

Change ==
    /\ draft' \in Versions
    /\ UNCHANGED <<db, acked, views>>

Forget ==
    /\ draft' = db
    /\ UNCHANGED <<db, acked, views>>

Publish ==
    /\ db' = draft
    /\ UNCHANGED <<acked, draft, views>>

Acknowledge ==
    /\ acked' = db
    /\ UNCHANGED <<db, draft, views>>

BeginView(r) ==
    /\ views[r] = NoView
    /\ views' = [views EXCEPT ![r] = db]
    /\ UNCHANGED <<db, acked, draft>>

EndView(r) ==
    /\ views' = [views EXCEPT ![r] = NoView]
    /\ UNCHANGED <<db, acked, draft>>

Crash ==
    /\ db' \in {db, acked}
    /\ acked' = db'
    /\ draft' = db'
    /\ views' = [r \in Readers |-> NoView]

Next ==
    \/ Change \/ Forget \/ Publish \/ Acknowledge \/ Crash
    \/ \E r \in Readers : BeginView(r) \/ EndView(r)

Spec == Init /\ [][Next]_abstract
=============================================================================
