---------------------------- MODULE MCReleaseWorker ----------------------------
(* Two releases: enough for a second claim to race the first job's close, its *)
(* fuse and its still-living scope.                                           *)
EXTENDS ReleaseWorker, TLC

CONSTANTS a, b,  \* release jobs
          r, s   \* repairs

OwnRepairs == (a :> r) @@ (b :> s)
OneRepair  == (a :> r) @@ (b :> r)
================================================================================
