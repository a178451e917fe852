---------------------------- MODULE MCDispatcher ----------------------------
(* Instances of the dispatcher for model checking.  With mask 4, ids 1 and 2 *)
(* are high-priority, 5, 6 and 7 low.                                        *)
EXTENDS DispatcherAlone, TLC

\* The senders of a connection are EchoSenders: their echoes have ids of both
\* priorities.
MCEchoOf == 1 :> 7 @@ 5 :> 2

\* The same for a connection with the message 1 alone.
MCEchoOfOne == 1 :> 7
=============================================================================
