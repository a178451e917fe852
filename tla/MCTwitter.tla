----------------------------- MODULE MCTwitter -----------------------------
(* Instances of a connection of either sender type for model checking. *)
EXTENDS TwitterProperties

MCTwitterTexts == EngineTexts \cup Messages \cup OwnMessages
=============================================================================
