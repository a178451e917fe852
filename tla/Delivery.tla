------------------------------ MODULE Delivery ------------------------------
(***************************************************************************)
(* What a connection promises for each message, whatever the program does  *)
(* in memory: an id is used once, for one direction; an outgoing message   *)
(* is queued and then sent, an incoming one is queued and then handled;    *)
(* nothing goes back, nothing disappears before the connection does, and   *)
(* as long as the connection lives no message stays queued for ever.       *)
(***************************************************************************)
CONSTANT Ids

VARIABLES
    state,   \* the state of every id, or of the whole connection
    ending   \* whether the connection is being deleted

None == "none"
States == {None, "toSend", "sent", "toHandle", "handled", "gone"}

Init == state = [id \in Ids |-> None]

\* (The second conjunct says what the third says of id, before it.)
Step(id, from, to) ==
    /\ state[id] = from
    /\ state'[id] = to
    /\ state' = [state EXCEPT ![id] = to]

Accept(id)  == Step(id, None, "toSend")
Send(id)    == Step(id, "toSend", "sent")
Receive(id) == Step(id, None, "toHandle")
Handle(id)  == Step(id, "toHandle", "handled")

\* The connection is deleted with all its messages.
Delete ==
    /\ \E id \in Ids : state[id] # "gone"
    /\ state' = [id \in Ids |-> "gone"]

\* (The first conjunct spares the evaluation of the others where nothing changed.)
Next ==
    /\ state' # state
    /\ \/ \E id \in Ids : Accept(id) \/ Send(id) \/ Receive(id) \/ Handle(id)
       \/ Delete

Spec == Init /\ [][Next]_state

\* No message stays queued for ever, unless somebody deletes the connection.
Progress ==
    \A id \in Ids : \A queued \in {"toSend", "toHandle"} :
        state[id] = queued ~> state[id] # queued \/ ending

FairSpec == Spec /\ Progress
=============================================================================
