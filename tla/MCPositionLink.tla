--------------------------- MODULE MCPositionLink ---------------------------
(* Instances of PositionLink for TLC. *)
EXTENDS PositionLink

MCTxPositions == {0, 1}
=============================================================================
