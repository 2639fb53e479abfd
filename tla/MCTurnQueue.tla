------------------------------ MODULE MCTurnQueue ------------------------------
(* Instances of TurnQueue for TLC. *)
EXTENDS TurnQueue, TLC

CONSTANTS p1, p2, p3

================================================================================
