----------------------------- MODULE RepairPromise -----------------------------
(***************************************************************************)
(* What the gateway promises v5 about a repair: it is open from its         *)
(* dispatch until it ends, in exactly one way and for good; its host action *)
(* is taken at most once, and only while the repair is open and no cancel   *)
(* is closing it.                                                           *)
(***************************************************************************)
CONSTANT Repairs

VARIABLES
  fate,   \* what has become of each repair
  acted   \* how often the host action of each repair was taken

Fate == {"unknown", "open", "closing", "succeeded", "failed", "cancelled"}

Init ==
  /\ fate = [r \in Repairs |-> "unknown"]
  /\ acted = [r \in Repairs |-> 0]

Move(r, from, to) ==
  /\ fate[r] \in from
  /\ fate' = [fate EXCEPT ![r] = to]
  /\ UNCHANGED acted

Open(r)    == Move(r, {"unknown"}, "open")
Succeed(r) == Move(r, {"open"}, "succeeded")
Fail(r)    == Move(r, {"open"}, "failed")
Close(r)   == Move(r, {"open"}, "closing")
Cancel(r)  == Move(r, {"unknown", "open", "closing"}, "cancelled")

Act(r) ==
  /\ fate[r] = "open"
  /\ acted[r] = 0
  /\ acted' = [acted EXCEPT ![r] = 1]
  /\ UNCHANGED fate

Next == \E r \in Repairs :
  Open(r) \/ Succeed(r) \/ Fail(r) \/ Close(r) \/ Cancel(r) \/ Act(r)

Spec == Init /\ [][Next]_<<fate, acted>>

================================================================================
