---------------------------- MODULE MCBoltBucket ----------------------------
(***************************************************************************)
(* One bucket of boltdb with three calls in one transaction: a key is put  *)
(* below all others, and the leaf next to it shrinks, so that it borrows   *)
(* or is merged before the tree is spilled.                                *)
(***************************************************************************)
EXTENDS BoltBucket

Evens == {2 * i : i \in 1 .. 12}
TwelveKeys == {Evens}
SomeKeys == {1, 2, 4, 6, 8, 25}
=============================================================================
