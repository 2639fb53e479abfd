------------------------------ MODULE MCFrameBus ------------------------------
(* Instances of FrameBus for TLC.  No definition tells the processes apart, or
   the tabs. *)
EXTENDS FrameBus, TLC

CONSTANTS a, b, t, u

Symmetric == Permutations(Gates) \cup Permutations(Tabs)

================================================================================
