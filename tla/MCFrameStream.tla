------------------------------ MODULE MCFrameStream -----------------------------
(* Two tabs: one that resumes while the other drives the session. *)
EXTENDS FrameStream, TLC

CONSTANTS x, y  \* tabs

Symmetry == Permutations(Tabs)
================================================================================
