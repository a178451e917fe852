------------------------------- MODULE MCBolt -------------------------------
(***************************************************************************)
(* Instances of boltdb's transactions for TLC.                             *)
(***************************************************************************)
EXTENDS BoltProperties, TLC

\* Both keys, new or again, and one key again while the other is deleted.
SomeChanges == {[puts |-> {1, 2}, dels |-> {}], [puts |-> {2}, dels |-> {1}]}

Symmetry == Permutations(Readers)
=============================================================================
