-------------------------------- MODULE MCCron ---------------------------------
(* Instances of Cron for TLC. *)
EXTENDS Cron, TLC

CONSTANTS d, o, c, k

================================================================================
