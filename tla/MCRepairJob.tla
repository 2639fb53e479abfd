------------------------------ MODULE MCRepairJob ------------------------------
(* Instances of RepairJob for TLC. *)
EXTENDS RepairJob

CONSTANT r

(* v5 may change its mind about a repair between two attempts. *)
AnyRoute == [x \in Repairs |-> Route]

================================================================================
