------------------------------ MODULE MCEngine ------------------------------
(* Instances of the engine for model checking. *)
EXTENDS EngineProperties

MCTexts == EngineTexts

=============================================================================
