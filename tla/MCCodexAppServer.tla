---------------------------- MODULE MCCodexAppServer ----------------------------
(* Instances of CodexAppServer for TLC. *)
EXTENDS CodexAppServer, TLC

CONSTANTS p1, p2, p3
================================================================================
