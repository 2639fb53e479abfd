--------------------------- MODULE AtMostOnceDeploy ----------------------------
(***************************************************************************)
(* What the release worker promises, without its worker, lane, crashes or   *)
(* single-slot fuse: releases are deployed one at a time, each at most      *)
(* once, and none begins while an earlier one still needs a human.          *)
(***************************************************************************)
CONSTANTS Jobs

VARIABLES
  phase,     \* where each release is
  launched,  \* releases whose deploy was ever started
  waived     \* releases a human has adjudicated

vars == <<phase, launched, waived>>

NeedsHuman == {"deploy_unknown", "deployed_unpushed"}
Begun      == {"deployed", "deploy_failed"} \cup NeedsHuman \cup {"manual_required"}

Init ==
  /\ phase = [j \in Jobs |-> "absent"]
  /\ launched = {}
  /\ waived = {}

Move(j, from, to) == phase[j] = from /\ phase' = [phase EXCEPT ![j] = to]

Accept(j) == Move(j, "absent", "received") /\ UNCHANGED <<launched, waived>>

(* Before it begins, a release can be cancelled or handed to a human. *)
Decline(j) ==
  /\ \E to \in {"cancelled", "manual_required"} : Move(j, "received", to)
  /\ UNCHANGED <<launched, waived>>

Begin(j) ==
  /\ \A k \in Jobs : phase[k] # "deploying"
  /\ \A k \in Jobs \ waived : phase[k] \notin NeedsHuman
  /\ Move(j, "received", "deploying")
  /\ UNCHANGED <<launched, waived>>

Launch(j) ==
  /\ phase[j] = "deploying"
  /\ j \notin launched
  /\ launched' = launched \cup {j}
  /\ UNCHANGED <<phase, waived>>

(* Only a release that was launched has a definite outcome. *)
Finish(j) ==
  /\ \E to \in Begun : /\ Move(j, "deploying", to)
                       /\ to # "deploy_unknown" => j \in launched
  /\ UNCHANGED <<launched, waived>>

Waive(j) ==
  /\ j \notin waived
  /\ waived' = waived \cup {j}
  /\ UNCHANGED <<phase, launched>>

Next == \E j \in Jobs :
  Accept(j) \/ Decline(j) \/ Begin(j) \/ Launch(j) \/ Finish(j) \/ Waive(j)

Spec == Init /\ [][Next]_vars
================================================================================
