----------------------------- MODULE MCClientSync ------------------------------
(* Instances of ClientSync for TLC. *)
EXTENDS ClientSync, TLC

CONSTANTS m1, m2, o

Symmetric == Permutations(Turns)

================================================================================
