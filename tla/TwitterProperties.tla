------------------------- MODULE TwitterProperties -------------------------
(***************************************************************************)
(* What a connection to Twitter should guarantee, beside what module       *)
(* EngineProperties says of every connection.                              *)
(***************************************************************************)
EXTENDS EngineProperties, Twitter

TwitterTypeOK ==
    /\ EngineTypeOK
    /\ spc \in [Senders -> {"new", "listen", "save", "post", "exited"}]
    /\ \A w \in Senders : sheld[w] = BlankMsg \/ sheld[w] \in HeldMsg
    /\ loop \in [Senders -> {"off", "request", "listen", "offer", "failed", "left"}]
    /\ heard \in [Senders -> SUBSET Messages]
    /\ \A w \in Senders : (loop[w] = "offer") = (event[w] # NoText)
    /\ quit \subseteq Senders
    /\ limits \in 0..MaxLimits /\ panicked \in BOOLEAN

\* A direct message is saved at most once for each stream, that is, for each of
\* the connection's senders, and the user's own are never saved: neither a
\* reconnection nor a restart makes a message of it again (twitter.go:102-138).
MessageSavedOnce ==
    Exists =>
        LET SavedAs(x) == {id \in DOMAIN db[Conn].msgs : db[Conn].msgs[id].text = x}
        IN  /\ \A x \in Messages : Cardinality(SavedAs(x)) <= Cardinality(Senders)
            /\ \A x \in OwnMessages : SavedAs(x) = {}

\* As NobodyForgotten, with the stream goroutines: every message in the inbox is
\* in somebody's hand while the program serves.
NoDirectMessageForgotten ==
    mpc = "serving" /\ ~done /\ faults = 0 =>
        Box("inbox") \subseteq
            IncomingInHand \cup {sheld[w].id : w \in {v \in Senders : spc[v] = "post"}}

\* Each direct message becomes one message of the connection, and reaches a
\* receiver: neither repeated nor lost, short of a failed transaction.
EachMessageSavedOnce == MessageSavedOnce /\ NoDirectMessageForgotten

\* Interrupt "starts the finishing sequence" of a stream (streaming.go:153): to
\* delete a connection never takes the program down.
FinishesQuietly == ~panicked
=============================================================================
