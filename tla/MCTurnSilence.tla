----------------------------- MODULE MCTurnSilence ----------------------------
(* Instances of TurnSilence for TLC. *)
EXTENDS TurnSilence, TLC

CONSTANTS p1, p2

================================================================================
