----------------------------- MODULE MCDiggers ------------------------------
(* Instances of Diggers for TLC. *)
EXTENDS Diggers
=============================================================================
