------------------------- MODULE ReleaseWorker_proofs --------------------------
(* What the runs of ReleaseWorker show for two jobs, for any set of jobs.   *)
(* One lemma per part of the inductive invariant IInv, one step per action  *)
(* that can disturb the part; the QED step shows that no other action does. *)
EXTENDS ReleaseWorker, TLAPS

(* Types. A step changes few of the groups; where it leaves a group alone  *)
(* the group stays typed.                                                  *)

(* The initial state is well typed. *)
LEMMA TypeInit == Init => TypeOK
<1> SUFFICES ASSUME Init PROVE TypeOK
  OBVIOUS
<1> USE JobAssumption DEF Init
<1>1. RowsTyped
  BY DEF RowsTyped, Status
<1>2. GatesTyped
  BY DEF GatesTyped
<1>3. WorkTyped
  BY DEF WorkTyped, WorkerPc
<1>4. ProcTyped
  BY DEF ProcTyped
<1>5. HostTyped
  BY DEF HostTyped
<1>6. CountersTyped
  BY DEF CountersTyped
<1>7. QED
  BY <1>1, <1>2, <1>3, <1>4, <1>5, <1>6 DEF TypeOK

(* The terminal CAS with its callback row keeps the ledger's rows typed. *)
LEMMA TerminalizeTyped ==
  ASSUME RowsTyped, NEW j \in Jobs, NEW from, NEW to \in Phase, NEW pending \in BOOLEAN,
         Terminalize(j, from, to, pending), UNCHANGED <<checkpoint, receipt, pushed>>
  PROVE  RowsTyped'
<1>1. CASE status[j] \in from
  <2>1. status' \in [Jobs -> Status] /\ pushPending' \in [Jobs -> BOOLEAN]
    BY <1>1 DEF RowsTyped, Terminalize, Phase, Status, Closed
  <2>2. posted' \subseteq Jobs \X Phase
    BY <1>1 DEF RowsTyped, Terminalize
  <2>3. QED
    BY <2>1, <2>2 DEF RowsTyped
<1>2. CASE status[j] \notin from
  BY <1>2 DEF RowsTyped, Terminalize
<1>3. QED
  BY <1>1, <1>2

(* What a close of the worker's job is, whatever its outcome. *)
LEMMA ClosesJob ==
  ASSUME Owned, CloseDeployed \/ CloseUnknown \/ CloseFailed \/ CloseManual
  PROVE  /\ wjob \in Jobs /\ status[wjob] = "deploying"
         /\ \E to \in {"deployed", "deploy_unknown", "deploy_failed", "manual_required"} :
              /\ status' = [status EXCEPT ![wjob] = to]
              /\ posted' = posted \cup {<<wjob, to>>}
              /\ to = "deploy_unknown" => wpc = "close_unknown"
              /\ to = "deploy_failed" => wpc = "close_failed"
              /\ to = "manual_required" => wpc = "close_manual"
              /\ to = "deployed" => wpc \in {"close_pushed", "close_pending"}
         /\ pushPending' = [pushPending EXCEPT ![wjob] = (wpc = "close_pending")]
         /\ LetGo
         /\ UNCHANGED <<checkpoint, receipt, pushed, gateVars, procVars, hostVars, crashes, faults>>
<1>1. CASE CloseDeployed
  BY <1>1 DEF CloseDeployed, CloseAs, Terminalize, Owned, AtWork
<1>2. CASE CloseUnknown
  BY <1>2 DEF CloseUnknown, CloseAs, Terminalize, Owned, AtWork
<1>3. CASE CloseFailed
  BY <1>3 DEF CloseFailed, CloseAs, Terminalize, Owned, AtWork
<1>4. CASE CloseManual
  BY <1>4 DEF CloseManual, CloseAs, Terminalize, Owned, AtWork
<1>5. QED
  BY <1>1, <1>2, <1>3, <1>4

(* Every step keeps the ledger's rows typed. *)
LEMMA RowsStep ==
  ASSUME TypeOK, Owned, [Next]_vars
  PROVE  RowsTyped'
<1> USE DEF TypeOK
<1>1. CASE UNCHANGED rowVars
  BY <1>1 DEF RowsTyped, rowVars
<1>2. ASSUME NEW j \in Jobs, InsertRelease(j) PROVE RowsTyped'
  BY <1>2 DEF InsertRelease, RowsTyped, Status
<1>3. ASSUME NEW j \in Jobs, CancelRelease(j) PROVE RowsTyped'
  BY <1>3 DEF CancelRelease, CancelRow, RowsTyped, Status, Closed
<1>4. CASE CloseRevoked
  BY <1>4 DEF CloseRevoked, CancelRow, RowsTyped, Status, Closed
<1>5. CASE CloseManualPlan
  BY <1>5, TerminalizeTyped DEF CloseManualPlan, Phase, Owned
<1>6. CASE Claim
  BY <1>6 DEF Claim, Phase, Owned, RowsTyped, Status
<1>7. ASSUME NEW j \in Jobs, ReadLine(j) PROVE RowsTyped'
  BY <1>7 DEF ReadLine, RowsTyped
<1>8. CASE PersistReceipt
  BY <1>8 DEF PersistReceipt, WorkTyped, RowsTyped
<1>9. CASE PushCanonical
  BY <1>9 DEF PushCanonical, RowsTyped
<1>10. CASE CloseDeployed \/ CloseUnknown \/ CloseFailed \/ CloseManual
  <2>1. status' \in [Jobs -> Status] /\ posted' \subseteq Jobs \X Phase
    BY <1>10, ClosesJob DEF RowsTyped, Status, Closed, Phase
  <2>2. pushPending' \in [Jobs -> BOOLEAN]
    BY <1>10, ClosesJob DEF RowsTyped
  <2>3. QED
    BY <1>10, <2>1, <2>2, ClosesJob DEF RowsTyped
<1> HIDE DEF TypeOK
<1>11. QED
  BY <1>1, <1>2, <1>3, <1>4, <1>5, <1>6, <1>7, <1>8, <1>9, <1>10
  DEF Next, Webhook, Worker, WorkerStep, Host, LaneProgress, vars, CheckIntake, ClearFuse,
      CancelEnter, CancelRevoke, ReadFuse, LoseCheckpoint, Recover, EnterLock, Spawn,
      SpawnError, LaneExit, ScopeConfirmedDead, KillScope, HoldJob, SettleFromDurableState,
      Adjudicate, EngageForPending, EngageForUnknown, LaneTimeout, LaneRefuse, LaneDeploy,
      ChildEnds, LaneProve, LaneReport, LeaderDies, Fault, Crash, Restart, LaneStep

(* Every step keeps the fuse, its tombstones and the revocations typed. *)
LEMMA GatesStep ==
  ASSUME TypeOK, Owned, [Next]_vars
  PROVE  GatesTyped'
<1> USE DEF TypeOK
<1>1. CASE UNCHANGED gateVars
  BY <1>1 DEF GatesTyped, gateVars
<1>2. ASSUME NEW j \in Jobs, ClearFuse(j) PROVE GatesTyped'
  BY <1>2 DEF ClearFuse, GatesTyped
<1>3. ASSUME NEW r \in Repairs, CancelRevoke(r) PROVE GatesTyped'
  BY <1>3 DEF CancelRevoke, GatesTyped
<1>4. CASE EngageForPending \/ EngageForUnknown
  BY <1>4 DEF EngageForPending, EngageForUnknown, EngageFuse, GatesTyped, Owned, AtWork
<1> HIDE DEF TypeOK
<1>5. QED
  BY <1>1, <1>2, <1>3, <1>4
  DEF Next, Webhook, Worker, WorkerStep, Host, LaneProgress, vars, CheckIntake,
      InsertRelease, CancelRelease, CancelEnter, ReadFuse, ReadLine, LoseCheckpoint, Recover,
      EnterLock, CloseRevoked, CloseManualPlan, Claim, Spawn, SpawnError, LaneExit,
      ScopeConfirmedDead, KillScope, HoldJob, SettleFromDurableState, PersistReceipt,
      Adjudicate, PushCanonical, CloseDeployed, CloseUnknown, CloseFailed, CloseManual,
      LaneTimeout, LaneRefuse, LaneDeploy, ChildEnds, LaneProve, LaneReport, LeaderDies, Fault,
      Crash, Restart, LaneStep, CloseAs

(* Every step keeps the intake, the mutexes and the attached lanes typed. *)
LEMMA ProcStep ==
  ASSUME TypeOK, Owned, [Next]_vars
  PROVE  ProcTyped'
<1> USE JobAssumption DEF TypeOK
<1>1. CASE UNCHANGED procVars
  BY <1>1 DEF ProcTyped, procVars
<1>2. ASSUME NEW j \in Jobs, CheckIntake(j) \/ InsertRelease(j) PROVE ProcTyped'
  BY <1>2 DEF CheckIntake, InsertRelease, ProcTyped
<1>3. ASSUME NEW r \in Repairs, CancelEnter(r) \/ CancelRevoke(r) PROVE ProcTyped'
  BY <1>3 DEF CancelEnter, CancelRevoke, ProcTyped
<1>4. CASE EnterLock
  BY <1>4 DEF EnterLock, ProcTyped
<1>5. CASE CloseRevoked \/ CloseManualPlan \/ Claim
  BY <1>5 DEF CloseRevoked, CloseManualPlan, Claim, Unlock, ProcTyped
<1>6. CASE Spawn
  BY <1>6 DEF Spawn, ProcTyped, Owned, AtWork
<1>7. CASE Fault
  BY <1>7 DEF Fault, ProcTyped
<1>8. CASE Crash
  BY <1>8 DEF Crash, ProcTyped
<1> HIDE DEF TypeOK
<1>9. QED
  BY <1>1, <1>2, <1>3, <1>4, <1>5, <1>6, <1>7, <1>8
  DEF Next, Webhook, Worker, WorkerStep, Host, LaneProgress, vars, ClearFuse, CancelRelease,
      ReadFuse, ReadLine, LoseCheckpoint, Recover, SpawnError, LaneExit, ScopeConfirmedDead,
      KillScope, HoldJob, SettleFromDurableState, PersistReceipt, Adjudicate, PushCanonical,
      EngageForPending, EngageForUnknown, CloseDeployed, CloseUnknown, CloseFailed, CloseManual,
      LaneTimeout, LaneRefuse, LaneDeploy, ChildEnds, LaneProve, LaneReport, LeaderDies,
      Restart, LaneStep, CloseAs

(* Every step keeps the two bounding counters natural numbers. *)
LEMMA CountersStep ==
  ASSUME TypeOK, [Next]_vars
  PROVE  CountersTyped'
<1> USE DEF TypeOK, CountersTyped
<1>1. CASE UNCHANGED <<crashes, faults>>
  BY <1>1
<1>2. ASSUME NEW j \in Jobs, LoseCheckpoint(j) PROVE CountersTyped'
  BY <1>2 DEF LoseCheckpoint
<1>3. CASE Fault
  BY <1>3 DEF Fault
<1>4. CASE Crash
  BY <1>4 DEF Crash
<1> HIDE DEF TypeOK, CountersTyped
<1>5. QED
  BY <1>1, <1>2, <1>3, <1>4
  DEF Next, Webhook, Worker, WorkerStep, Host, LaneProgress, vars, CheckIntake,
      InsertRelease, ClearFuse, CancelRelease, CancelEnter, CancelRevoke, ReadFuse, ReadLine,
      Recover, EnterLock, CloseRevoked, CloseManualPlan, Claim, Spawn, SpawnError, LaneExit,
      ScopeConfirmedDead, KillScope, HoldJob, SettleFromDurableState, PersistReceipt,
      Adjudicate, PushCanonical, EngageForPending, EngageForUnknown, CloseDeployed,
      CloseUnknown, CloseFailed, CloseManual, LaneTimeout, LaneRefuse, LaneDeploy, ChildEnds,
      LaneProve, LaneReport, LeaderDies, Restart, LaneStep, CloseAs

(* A signal to a scope keeps the host typed. *)
LEMMA SignalTyped ==
  ASSUME HostTyped, NEW j \in Jobs, SignalScope(j), UNCHANGED <<effect, pipe, starts>>
  PROVE  HostTyped'
<1>1. lane' \in [Jobs -> {"unstarted"} \cup LaneLive \cup LaneOver]
  BY DEF HostTyped, SignalScope, LaneLive, LaneOver
<1>2. childUp' \in [Jobs -> BOOLEAN]
  BY DEF HostTyped, SignalScope
<1>3. QED
  BY <1>1, <1>2 DEF HostTyped

(* A line written by a lane, or the SIGPIPE it gets, keeps the host typed. *)
LEMMA EmitTyped ==
  ASSUME HostTyped, NEW j \in Jobs, NEW event \in Event, NEW next \in LaneLive \cup LaneOver,
         Emit(j, event, next), UNCHANGED <<childUp, effect, starts>>
  PROVE  HostTyped'
<1>1. lane' \in [Jobs -> {"unstarted"} \cup LaneLive \cup LaneOver]
  BY DEF HostTyped, Emit, LaneOver
<1>2. pipe' \in [Jobs -> Seq(Event)]
  <2>1. Append(pipe[j], event) \in Seq(Event)
    BY DEF HostTyped
  <2>2. QED
    BY <2>1 DEF HostTyped, Emit
<1>3. QED
  BY <1>1, <1>2 DEF HostTyped

(* Every step keeps the lanes, their children, effects and pipes typed. *)
LEMMA HostStep ==
  ASSUME TypeOK, Owned, [Next]_vars
  PROVE  HostTyped'
<1> USE DEF TypeOK
<1>1. CASE UNCHANGED hostVars
  BY <1>1 DEF HostTyped, hostVars
<1>2. CASE Spawn
  BY <1>2 DEF Spawn, Owned, AtWork, HostTyped, LaneLive
<1>3. ASSUME NEW j \in Jobs, ReadLine(j) \/ LoseCheckpoint(j) PROVE HostTyped'
  <2>1. Tail(pipe[j]) \in Seq(Event)
    BY <1>3 DEF ReadLine, LoseCheckpoint, HostTyped
  <2>2. QED
    BY <1>3, <2>1 DEF ReadLine, LoseCheckpoint, Drop, HostTyped
<1>4. CASE KillScope \/ LaneTimeout
  BY <1>4, SignalTyped DEF KillScope, LaneTimeout, Owned, AtWork
<1>5. ASSUME NEW j \in Jobs, LaneRefuse(j) \/ LaneProve(j) \/ LaneReport(j) PROVE HostTyped'
  <2>1. PICK event \in Event, next \in LaneLive \cup LaneOver : Emit(j, event, next)
    BY <1>5 DEF LaneRefuse, LaneProve, LaneReport, Event, Verdict, LaneLive, LaneOver
  <2>2. UNCHANGED <<childUp, effect, starts>>
    BY <1>5 DEF LaneRefuse, LaneProve, LaneReport, LaneStep
  <2>3. QED
    BY <2>1, <2>2, EmitTyped
<1>6. ASSUME NEW j \in Jobs, LaneDeploy(j) \/ ChildEnds(j) \/ LeaderDies(j) PROVE HostTyped'
  BY ZenonT(40), <1>6 DEF LaneDeploy, ChildEnds, LeaderDies, LaneStep, HostTyped, LaneLive, LaneOver
<1>7. CASE Crash
  BY <1>7 DEF Crash, HostTyped
<1> HIDE DEF TypeOK
<1>8. QED
  BY <1>1, <1>2, <1>3, <1>4, <1>5, <1>6, <1>7
  DEF Next, Webhook, Worker, WorkerStep, Host, LaneProgress, vars, CheckIntake,
      InsertRelease, ClearFuse, CancelRelease, CancelEnter, CancelRevoke, ReadFuse, Recover,
      EnterLock, CloseRevoked, CloseManualPlan, Claim, SpawnError, LaneExit, ScopeConfirmedDead,
      HoldJob, SettleFromDurableState, PersistReceipt, Adjudicate, PushCanonical,
      EngageForPending, EngageForUnknown, CloseDeployed, CloseUnknown, CloseFailed, CloseManual,
      Fault, Restart, CloseAs

(* A worker that lets its job go is typed. *)
LEMMA LetGoTyped == LetGo => WorkTyped'
  BY DEF LetGo, WorkTyped, WorkerPc

(* A worker that only moves on in its program stays typed. *)
LEMMA GotoTyped ==
  ASSUME WorkTyped, NEW pc \in WorkerPc, Goto(pc)
  PROVE  WorkTyped'
  BY DEF WorkTyped, Goto

(* Every step keeps the worker's memory typed. *)
LEMMA WorkStep ==
  ASSUME TypeOK, Owned, [Next]_vars
  PROVE  WorkTyped'
<1> USE DEF TypeOK
<1>1. CASE UNCHANGED workVars
  BY <1>1 DEF WorkTyped, workVars
<1>2. CASE LetGo
  BY <1>2, LetGoTyped
<1>3. CASE \E pc \in WorkerPc : Goto(pc)
  BY <1>3, GotoTyped
<1>4. ASSUME NEW j \in Jobs, ReadFuse(j) \/ Recover(j) PROVE WorkTyped'
  BY <1>4 DEF ReadFuse, Recover, WorkTyped, WorkerPc, AtWork
<1>5. CASE EnterLock /\ ~LetGo
  <2>1. wpc' = "locked" /\ wrevoked' = (RepairOf[wjob] \in revoked)
        /\ UNCHANGED <<wjob, wreceipt, wtry>>
    BY <1>5 DEF EnterLock
  <2>2. wrevoked' \in BOOLEAN
    <3>1. (RepairOf[wjob] \in revoked) \in BOOLEAN
      OBVIOUS
    <3>2. QED
      BY <2>1, <3>1
  <2>3. QED
    BY <2>1, <2>2 DEF WorkTyped, WorkerPc
<1>6. CASE Claim /\ ~LetGo
  BY <1>6 DEF Claim, WorkTyped, WorkerPc, AtWork
<1>7. ASSUME NEW j \in Jobs, ReadLine(j) PROVE WorkTyped'
  BY <1>7 DEF ReadLine, Verdicts, WorkTyped
<1>8. CASE SettleFromDurableState /\ ~LetGo
  BY <1>8 DEF SettleFromDurableState, WorkTyped, RowsTyped, Owned, WorkerPc, AtWork
<1>9. CASE PersistReceipt
  BY <1>9 DEF PersistReceipt, WorkTyped, RowsTyped, Owned, WorkerPc, AtWork
<1>10. CASE Fault /\ ~LetGo
  BY <1>10 DEF Fault, WorkTyped, WorkerPc, AtWork
<1>11. CASE Crash \/ Restart
  BY <1>11 DEF Crash, Restart, WorkTyped, WorkerPc
<1> HIDE DEF TypeOK
<1>12. CASE CloseDeployed \/ CloseUnknown \/ CloseFailed \/ CloseManual
  BY <1>2, <1>12 DEF CloseDeployed, CloseUnknown, CloseFailed, CloseManual, CloseAs
<1>13. CASE Adjudicate
  BY <1>3, <1>13 DEF Adjudicate, WorkerPc, AtWork
<1>14. QED
  <2>1. \A pc \in {"streaming", "hung", "exited", "confirm", "confirm_killed", "settle", "close_pushed",
                  "pending_fuse", "close_pending", "close_unknown"} : pc \in WorkerPc
    BY DEF WorkerPc, AtWork
  <2>2. QED
    BY <2>1, <1>1, <1>2, <1>3, <1>4, <1>5, <1>6, <1>7, <1>8, <1>9, <1>10, <1>11, <1>12, <1>13
    DEF Next, Webhook, Worker, WorkerStep, Host, LaneProgress, vars, CheckIntake,
      InsertRelease, ClearFuse, CancelRelease, CancelEnter, CancelRevoke, LoseCheckpoint,
      EnterLock, CloseRevoked, CloseManualPlan, Claim, Spawn, SpawnError, LaneExit,
      ScopeConfirmedDead, KillScope, HoldJob, SettleFromDurableState, PushCanonical,
      EngageForPending, EngageForUnknown, LaneTimeout, LaneRefuse, LaneDeploy, ChildEnds,
      LaneProve, LaneReport, LeaderDies, Fault, LaneStep

(* Initially the worker owns no job. *)
LEMMA OwnedInit == Init => Owned
  BY DEF Init, Owned, AtWork

(* Every step keeps the worker's job deploying while the worker works on
   it: no cancel, recovery or other close takes it away. *)
LEMMA OwnedStep ==
  ASSUME TypeOK, Owned, [Next]_vars
  PROVE  Owned'
<1> USE DEF TypeOK, RowsTyped
<1>1. CASE UNCHANGED <<wpc, wjob, wtry, status>>
  BY <1>1 DEF Owned, workVars
<1>2. ASSUME NEW j \in Jobs, InsertRelease(j) PROVE Owned'
  BY <1>2 DEF InsertRelease, workVars, Owned, AtWork
<1>3. ASSUME NEW j \in Jobs, CancelRelease(j) PROVE Owned'
  BY <1>3 DEF CancelRelease, CancelRow, workVars, Owned, AtWork
<1>4. CASE LetGo
  BY <1>4 DEF LetGo, Owned, AtWork
<1>5. ASSUME NEW pc \in AtWork, wpc \in AtWork, Goto(pc), UNCHANGED status PROVE Owned'
  BY <1>5 DEF Goto, Owned, AtWork
<1>6. ASSUME NEW j \in Jobs, ReadFuse(j) \/ Recover(j) PROVE Owned'
  BY <1>6 DEF ReadFuse, Recover, rowVars, Owned, AtWork
<1>7. CASE EnterLock /\ ~LetGo
  BY <1>7 DEF EnterLock, rowVars, Owned, AtWork
<1>8. CASE Claim /\ ~LetGo
  BY <1>8 DEF Claim, Owned, AtWork
<1>9. CASE (SettleFromDurableState \/ PersistReceipt) /\ ~LetGo
  BY <1>9 DEF SettleFromDurableState, PersistReceipt, rowVars, Owned, AtWork
<1>10. CASE Fault /\ ~LetGo
  BY <1>10 DEF Fault, Throwing, LetGo, rowVars, Owned, AtWork
<1>11. CASE Crash \/ Restart
  BY <1>11 DEF Crash, Restart, Owned, AtWork
<1>12. CASE CloseDeployed \/ CloseUnknown \/ CloseFailed \/ CloseManual
  BY <1>4, <1>12, ClosesJob
<1>13. CASE Adjudicate
  BY <1>5, <1>13 DEF Adjudicate, AtWork, rowVars
<1> HIDE DEF TypeOK, RowsTyped
<1>14. QED
  <2>1. \A pc \in {"streaming", "hung", "exited", "confirm", "confirm_killed", "settle", "close_pushed",
                  "pending_fuse", "close_pending", "close_unknown"} : pc \in AtWork
    BY DEF AtWork
  <2>2. \A pc \in {"prepare", "streaming", "confirm", "confirm_killed", "push", "pending_fuse", "unknown_fuse"} : pc \in AtWork
    BY DEF AtWork
  <2>3. QED
    BY <2>1, <2>2, <1>1, <1>2, <1>3, <1>4, <1>5, <1>6, <1>7, <1>8, <1>9, <1>10, <1>11, <1>12, <1>13
    DEF Next, Webhook, Worker, WorkerStep, Host, LaneProgress, vars, CheckIntake, ClearFuse,
      CancelEnter, CancelRevoke, ReadLine, LoseCheckpoint, EnterLock, CloseRevoked,
      CloseManualPlan, Claim, Spawn, SpawnError, LaneExit, ScopeConfirmedDead, KillScope,
      HoldJob, SettleFromDurableState, PushCanonical, EngageForPending, EngageForUnknown,
      LaneTimeout, LaneRefuse, LaneDeploy, ChildEnds, LaneProve, LaneReport, LeaderDies, Fault,
      LaneStep, rowVars, workVars

(* Everything that ever happens to a job's status, and to its callbacks. *)
LEMMA StatusMoves ==
  ASSUME TypeOK, Owned, [Next]_vars
  PROVE  \/ UNCHANGED <<status, posted>>
         \/ \E j \in Jobs : /\ status[j] = "absent"
                            /\ status' = [status EXCEPT ![j] = "received"]
                            /\ UNCHANGED <<posted, workVars, starts>>
         \/ \E j \in Jobs : /\ status[j] = "received"
                            /\ status' = [status EXCEPT ![j] = "cancelled"]
                            /\ UNCHANGED <<posted, pushPending, starts>>
                            /\ wpc' \in {wpc, "idle"}
         \/ CloseManualPlan /\ status[wjob] = "received"
         \/ Claim /\ Claimable(wjob)
         \/ CloseDeployed \/ CloseUnknown \/ CloseFailed \/ CloseManual
<1>1. CASE CloseRevoked
  BY <1>1 DEF CloseRevoked, CancelRow, LetGo, hostVars, Owned
<1>2. CASE CloseManualPlan
  BY <1>2 DEF CloseManualPlan, Terminalize, Owned
<1>3. CASE Claim
  BY <1>3 DEF Claim
<1>4. ASSUME NEW j \in Jobs, InsertRelease(j) \/ CancelRelease(j)
      PROVE  \/ /\ status[j] = "absent"
                /\ status' = [status EXCEPT ![j] = "received"]
                /\ UNCHANGED <<posted, workVars, starts>>
             \/ /\ status[j] = "received"
                /\ status' = [status EXCEPT ![j] = "cancelled"]
                /\ UNCHANGED <<posted, pushPending, starts>>
                /\ wpc' \in {wpc, "idle"}
  BY <1>4 DEF InsertRelease, CancelRelease, CancelRow, hostVars, workVars
<1>5. QED
  BY <1>1, <1>2, <1>3, <1>4
  DEF Next, Webhook, Worker, WorkerStep, Host, LaneProgress, vars, CheckIntake, ClearFuse,
      CancelEnter, CancelRevoke, ReadFuse, ReadLine, LoseCheckpoint, Recover, EnterLock, Spawn,
      SpawnError, LaneExit, ScopeConfirmedDead, KillScope, HoldJob, SettleFromDurableState,
      PersistReceipt, Adjudicate, PushCanonical, EngageForPending, EngageForUnknown,
      LaneTimeout, LaneRefuse, LaneDeploy, ChildEnds, LaneProve, LaneReport, LeaderDies, Fault,
      Crash, Restart, LaneStep, rowVars

(* Every step keeps at most one row deploying: only a claim makes one, and
   it looks for another in the same transaction. *)
LEMMA SingleflightStep ==
  ASSUME TypeOK, Owned, Singleflight, [Next]_vars
  PROVE  Singleflight'
<1> USE DEF TypeOK, RowsTyped, Singleflight
<1>1. CASE UNCHANGED status
  BY <1>1
<1>2. CASE Claim /\ Claimable(wjob)
  BY <1>2 DEF Claim, Claimable
<1>3. CASE CloseManualPlan /\ status[wjob] = "received"
  BY <1>3 DEF CloseManualPlan, Terminalize
<1>4. CASE CloseDeployed \/ CloseUnknown \/ CloseFailed \/ CloseManual
  BY <1>4, ClosesJob
<1>5. QED
  BY <1>1, <1>2, <1>3, <1>4, StatusMoves

(* The ledger and the callback rows move together. *)
LEMMA VerdictStep ==
  ASSUME TypeOK, Owned, OneVerdict, [Next]_vars
  PROVE  OneVerdict'
<1> SUFFICES ASSUME NEW k \in Jobs, NEW phase \in Phase \ {"deploying"}
             PROVE  <<k, phase>> \in posted' <=> status'[k] = phase
  BY DEF OneVerdict
<1>1. <<k, phase>> \in posted <=> status[k] = phase
  BY DEF OneVerdict
<1>2. ASSUME NEW j \in Jobs, NEW to, status[j] \notin Phase \ {"deploying"},
             status' = [status EXCEPT ![j] = to], posted' = posted \cup {<<j, to>>}
      PROVE  <<k, phase>> \in posted' <=> status'[k] = phase
  <2>1. <<k, phase>> \in posted' <=> <<k, phase>> \in posted \/ (k = j /\ phase = to)
    BY <1>2
  <2>2. QED
    BY <1>1, <1>2, <2>1 DEF TypeOK, RowsTyped
<1>3. ASSUME NEW j \in Jobs, NEW to \in {"received", "cancelled"}, status[j] \in {"absent", "received"},
             status' = [status EXCEPT ![j] = to], UNCHANGED posted
      PROVE  <<k, phase>> \in posted' <=> status'[k] = phase
  BY <1>1, <1>3 DEF TypeOK, RowsTyped, Phase
<1>4. CASE UNCHANGED <<status, posted>>
  BY <1>1, <1>4
<1>5. CASE Claim /\ Claimable(wjob)
  BY <1>2, <1>5 DEF Claim, Claimable, Owned, Phase
<1>6. CASE CloseManualPlan /\ status[wjob] = "received"
  BY <1>2, <1>6 DEF CloseManualPlan, Terminalize, Owned, Phase
<1>7. CASE CloseDeployed \/ CloseUnknown \/ CloseFailed \/ CloseManual
  <2>1. wjob \in Jobs /\ status[wjob] \notin Phase \ {"deploying"}
    BY <1>7, ClosesJob
  <2>2. PICK to : status' = [status EXCEPT ![wjob] = to] /\ posted' = posted \cup {<<wjob, to>>}
    BY <1>7, ClosesJob
  <2>3. QED
    BY <1>2, <2>1, <2>2
<1>8. QED
  BY <1>3, <1>4, <1>5, <1>6, <1>7, StatusMoves

(* Only Spawn starts a lane. *)
LEMMA StartsMoves ==
  ASSUME TypeOK, Owned, [Next]_vars
  PROVE  Spawn \/ UNCHANGED starts
  BY DEF Next, Webhook, Worker, WorkerStep, Host, LaneProgress, vars, CheckIntake,
      InsertRelease, ClearFuse, CancelRelease, CancelEnter, CancelRevoke, ReadFuse, ReadLine,
      LoseCheckpoint, Recover, EnterLock, CloseRevoked, CloseManualPlan, Claim, SpawnError,
      LaneExit, ScopeConfirmedDead, KillScope, HoldJob, SettleFromDurableState, PersistReceipt,
      Adjudicate, PushCanonical, EngageForPending, EngageForUnknown, CloseDeployed,
      CloseUnknown, CloseFailed, CloseManual, LaneTimeout, LaneRefuse, LaneDeploy, ChildEnds,
      LaneProve, LaneReport, LeaderDies, Fault, Crash, Restart, LaneStep, CloseAs, hostVars, CancelRow

(* Every step keeps the count of lanes right: a job that was never claimed,
   or was claimed and not yet spawned, has none. *)
LEMMA StartedStep ==
  ASSUME TypeOK, Owned, Started, [Next]_vars
  PROVE  Started'
<1> USE DEF TypeOK, RowsTyped, HostTyped, Started, AtMostOneStart
<1>1. CASE Spawn
  BY <1>1 DEF Spawn, Goto, Owned, AtWork, rowVars
<1>2. CASE UNCHANGED starts
  <2>1. \A j \in Jobs : status'[j] \in {"absent", "received", "cancelled"} => status[j] \in {"absent", "received", "cancelled"}
    <3>1. CASE UNCHANGED status
      BY <3>1
    <3>2. CASE Claim /\ Claimable(wjob)
      BY <3>2 DEF Claim, Claimable
    <3>3. CASE CloseManualPlan /\ status[wjob] = "received"
      BY <3>3 DEF CloseManualPlan, Terminalize
    <3>4. CASE CloseDeployed \/ CloseUnknown \/ CloseFailed \/ CloseManual
      BY <3>4, ClosesJob
    <3>5. QED
      BY <3>1, <3>2, <3>3, <3>4, StatusMoves
  <2>2. wpc' = "prepare" => starts[wjob'] = 0
    <3>1. CASE UNCHANGED <<wpc, wjob>>
      BY <3>1
    <3>2. CASE Claim
      BY <3>2 DEF Claim, Claimable, LetGo, Owned
    <3>3. CASE wpc' # "prepare"
      BY <3>3
    <3>4. QED
      BY <1>2, <3>1, <3>2, <3>3 
      DEF Next, Webhook, Worker, WorkerStep, Host, LaneProgress, vars, CheckIntake,
      InsertRelease, ClearFuse, CancelRelease, CancelEnter, CancelRevoke, ReadFuse, ReadLine,
      LoseCheckpoint, Recover, EnterLock, CloseRevoked, CloseManualPlan, Spawn, SpawnError,
      LaneExit, ScopeConfirmedDead, KillScope, HoldJob, SettleFromDurableState, PersistReceipt,
      Adjudicate, PushCanonical, EngageForPending, EngageForUnknown, CloseDeployed,
      CloseUnknown, CloseFailed, CloseManual, LaneTimeout, LaneRefuse, LaneDeploy, ChildEnds,
      LaneProve, LaneReport, LeaderDies, Fault, Crash, Restart, LaneStep, CloseAs, workVars, Goto, LetGo
  <2>3. QED
    BY <1>2, <2>1, <2>2
<1>3. QED
  BY <1>1, <1>2, StartsMoves

(* Who engages and who clears the fuse. *)
LEMMA FuseMoves ==
  ASSUME [Next]_vars
  PROVE  \/ UNCHANGED <<fuse, cleared>>
         \/ /\ \E j \in Jobs : cleared' = cleared \cup {j} /\ fuse' = IF fuse = j THEN None ELSE fuse
            /\ UNCHANGED <<status, pushPending, wpc, wjob>>
         \/ EngageForPending \/ EngageForUnknown
<1>1. ASSUME NEW j \in Jobs, ClearFuse(j)
      PROVE  /\ cleared' = cleared \cup {j} /\ fuse' = IF fuse = j THEN None ELSE fuse
             /\ UNCHANGED <<status, pushPending, wpc, wjob>>
  BY <1>1 DEF ClearFuse, rowVars, workVars
<1>2. QED
  BY <1>1 DEF Next, Webhook, Worker, WorkerStep, Host, LaneProgress, vars, CheckIntake,
      InsertRelease, CancelRelease, CancelEnter, CancelRevoke, ReadFuse, ReadLine,
      LoseCheckpoint, Recover, EnterLock, CloseRevoked, CloseManualPlan, Claim, Spawn,
      SpawnError, LaneExit, ScopeConfirmedDead, KillScope, HoldJob, SettleFromDurableState,
      PersistReceipt, Adjudicate, PushCanonical, CloseDeployed, CloseUnknown, CloseFailed,
      CloseManual, LaneTimeout, LaneRefuse, LaneDeploy, ChildEnds, LaneProve, LaneReport,
      LeaderDies, Fault, Crash, Restart, LaneStep, CloseAs, gateVars

(* Every step keeps the one-slot fuse on the job that needs it: while a job
   is deploying the slot is free or its own, because a claim wants the slot
   free and only the deploying job engages it. *)
LEMMA FusedStep ==
  ASSUME TypeOK, Owned, Singleflight, Fused, [Next]_vars
  PROVE  Fused'
<1> USE JobAssumption DEF TypeOK, RowsTyped, GatesTyped, Fused, FuseHoldsUnresolved, Unresolved
<1>1. CASE EngageForPending \/ EngageForUnknown
  <2>1. wjob \in Jobs /\ status[wjob] = "deploying"
    BY <1>1 DEF EngageForPending, EngageForUnknown, Owned, AtWork
  <2>2. \A j \in Jobs : status[j] = "deploying" => j = wjob
    BY <2>1 DEF Singleflight
  <2>3. fuse' = (IF wjob \notin cleared /\ fuse = None THEN wjob ELSE fuse)
        /\ wjob' = wjob /\ UNCHANGED <<cleared, status, pushPending>>
    BY <1>1 DEF EngageForPending, EngageForUnknown, EngageFuse, Goto, rowVars
  <2>4. QED
    BY <2>1, <2>2, <2>3
<1>2. ASSUME NEW j \in Jobs, cleared' = cleared \cup {j}, fuse' = IF fuse = j THEN None ELSE fuse,
             UNCHANGED <<status, pushPending, wpc, wjob>>
      PROVE  Fused'
  BY <1>2
<1>3. CASE UNCHANGED <<fuse, cleared>>
  <2>1. wpc' \in {"close_unknown", "close_pending"} => UNCHANGED <<wpc, wjob>> \/ EngageForPending \/ EngageForUnknown
    BY DEF Next, Webhook, Worker, WorkerStep, Host, LaneProgress, vars, CheckIntake,
      InsertRelease, ClearFuse, CancelRelease, CancelEnter, CancelRevoke, ReadFuse, ReadLine,
      LoseCheckpoint, Recover, EnterLock, CloseRevoked, CloseManualPlan, Claim, Spawn,
      SpawnError, LaneExit, ScopeConfirmedDead, KillScope, HoldJob, SettleFromDurableState,
      PersistReceipt, Adjudicate, PushCanonical, CloseDeployed, CloseUnknown, CloseFailed,
      CloseManual, LaneTimeout, LaneRefuse, LaneDeploy, ChildEnds, LaneProve, LaneReport,
      LeaderDies, Fault, Crash, Restart, LaneStep, CloseAs, workVars, Goto, LetGo
  <2>2. \A j \in Jobs : status'[j] = "deploying" => fuse \in {None, j}
    <3>1. CASE UNCHANGED status
      BY <3>1
    <3>2. CASE Claim /\ Claimable(wjob)
      BY <3>2 DEF Claim, Claimable
    <3>3. CASE CloseManualPlan /\ status[wjob] = "received"
      BY <3>3 DEF CloseManualPlan, Terminalize
    <3>4. CASE CloseDeployed \/ CloseUnknown \/ CloseFailed \/ CloseManual
      BY <3>4, ClosesJob
    <3>5. QED
      BY <3>1, <3>2, <3>3, <3>4, StatusMoves
  <2>3. \A j \in Jobs : Unresolved(j)' => Unresolved(j) \/ (j = wjob /\ wpc \in {"close_unknown", "close_pending"})
    <3>1. CASE CloseDeployed \/ CloseUnknown \/ CloseFailed \/ CloseManual
      BY ZenonT(40), <3>1, ClosesJob
    <3>2. CASE UNCHANGED <<status, pushPending>>
      BY <3>2
    <3>3. CASE PushCanonical
      BY <3>3 DEF PushCanonical, Owned, AtWork
    <3>4. CASE Claim \/ CloseManualPlan \/ CloseRevoked
      BY <3>4 DEF Claim, CloseManualPlan, CloseRevoked, CancelRow, Terminalize, Owned
    <3>5. ASSUME NEW j \in Jobs, InsertRelease(j) \/ CancelRelease(j)
          PROVE  \A k \in Jobs : Unresolved(k)' => Unresolved(k)
      BY <3>5 DEF InsertRelease, CancelRelease, CancelRow
    <3>6. QED
      BY <3>1, <3>2, <3>3, <3>4, <3>5
      DEF Next, Webhook, Worker, WorkerStep, Host, LaneProgress, vars, CheckIntake, ClearFuse,
      CancelEnter, CancelRevoke, ReadFuse, ReadLine, LoseCheckpoint, Recover, EnterLock, Spawn,
      SpawnError, LaneExit, ScopeConfirmedDead, KillScope, HoldJob, SettleFromDurableState,
      PersistReceipt, Adjudicate, EngageForPending, EngageForUnknown, LaneTimeout, LaneRefuse,
      LaneDeploy, ChildEnds, LaneProve, LaneReport, LeaderDies, Fault, Crash, Restart, LaneStep, rowVars
  <2>4. QED
    BY <1>1, <1>3, <2>1, <2>2, <2>3
<1>4. QED
  BY <1>1, <1>2, <1>3, FuseMoves

(* Every step keeps the canonical push accounted for: a deployed row is
   pushed or recorded as pending. *)
LEMMA PushedStep ==
  ASSUME TypeOK, Owned, Pushed, [Next]_vars
  PROVE  Pushed'
<1> USE DEF TypeOK, RowsTyped, Pushed, DeployedIsPushed
<1>1. CASE CloseDeployed \/ CloseUnknown \/ CloseFailed \/ CloseManual
  BY <1>1, ClosesJob DEF LetGo
<1>2. CASE PushCanonical
  BY <1>2 DEF PushCanonical, Goto, Owned, AtWork
<1>3. CASE Claim \/ CloseManualPlan \/ CloseRevoked
  BY <1>3 DEF Claim, CloseManualPlan, CloseRevoked, CancelRow, Terminalize, LetGo, Owned
<1>4. ASSUME NEW j \in Jobs, InsertRelease(j) \/ CancelRelease(j)
      PROVE  Pushed'
  BY <1>4 DEF InsertRelease, CancelRelease, CancelRow, workVars
<1>5. CASE UNCHANGED <<status, pushed, pushPending>> /\ (wpc' = "close_pushed" => UNCHANGED <<wpc, wjob>>)
  BY <1>5
<1> HIDE DEF TypeOK, RowsTyped, Pushed, DeployedIsPushed
<1>6. QED
  BY <1>1, <1>2, <1>3, <1>4, <1>5
  DEF Next, Webhook, Worker, WorkerStep, Host, LaneProgress, vars, CheckIntake, ClearFuse,
      CancelEnter, CancelRevoke, ReadFuse, ReadLine, LoseCheckpoint, Recover, EnterLock, Spawn,
      SpawnError, LaneExit, ScopeConfirmedDead, KillScope, HoldJob, SettleFromDurableState,
      PersistReceipt, Adjudicate, EngageForPending, EngageForUnknown, LaneTimeout, LaneRefuse,
      LaneDeploy, ChildEnds, LaneProve, LaneReport, LeaderDies, Fault, Crash, Restart, LaneStep, rowVars, workVars, Goto, LetGo

(* Every step keeps the worker's reading of release_revoked current inside
   the repair's mutex. *)
LEMMA GuardedStep ==
  ASSUME TypeOK, Owned, Guarded, [Next]_vars
  PROVE  Guarded'
<1> USE JobAssumption DEF TypeOK, ProcTyped, GatesTyped, WorkTyped, Guarded
<1>1. CASE EnterLock
  BY <1>1 DEF EnterLock, LetGo, Owned, gateVars
<1>2. ASSUME NEW r \in Repairs, CancelEnter(r) \/ CancelRevoke(r) PROVE Guarded'
  BY <1>2 DEF CancelEnter, CancelRevoke, workVars, gateVars, Owned
<1>3. CASE wpc' # "locked"
  BY <1>3
<1>4. CASE UNCHANGED <<wpc, wjob, wrevoked, lock, revoked>>
  BY <1>4
<1> HIDE DEF TypeOK, ProcTyped, GatesTyped, WorkTyped, Guarded
<1>5. QED
  BY <1>1, <1>2, <1>3, <1>4
  DEF Next, Webhook, Worker, WorkerStep, Host, LaneProgress, vars, CheckIntake,
      InsertRelease, ClearFuse, CancelRelease, ReadFuse, ReadLine, LoseCheckpoint, Recover,
      CloseRevoked, CloseManualPlan, Claim, Spawn, SpawnError, LaneExit, ScopeConfirmedDead,
      KillScope, HoldJob, SettleFromDurableState, PersistReceipt, Adjudicate, PushCanonical,
      EngageForPending, EngageForUnknown, CloseDeployed, CloseUnknown, CloseFailed, CloseManual,
      LaneTimeout, LaneRefuse, LaneDeploy, ChildEnds, LaneProve, LaneReport, LeaderDies, Fault,
      Crash, Restart, LaneStep, CloseAs, workVars, gateVars, procVars, Goto, LetGo

(* A lane that is done deploying, with no child, is done for good. *)
LEMMA QuietStable ==
  ASSUME TypeOK, Owned, Started, LaneShape, [Next]_vars, NEW j \in Jobs,
         lane[j] \in {"push"} \cup LaneOver, ~childUp[j]
  PROVE  /\ effect'[j] = effect[j] /\ ~childUp'[j]
         /\ lane'[j] \in {"push"} \cup LaneOver
         /\ lane[j] \in LaneOver => lane'[j] \in LaneOver
<1> DEFINE Goal == /\ effect'[j] = effect[j] /\ ~childUp'[j]
                   /\ lane'[j] \in {"push"} \cup LaneOver
                   /\ lane[j] \in LaneOver => lane'[j] \in LaneOver
<1> SUFFICES Goal
  OBVIOUS
<1> USE DEF TypeOK, HostTyped, LaneOver
<1>1. CASE UNCHANGED <<lane, childUp, effect>>
  BY <1>1
<1>2. CASE Spawn
  BY <1>2 DEF Spawn, Started, LaneShape, Owned, AtWork
<1>3. CASE KillScope \/ LaneTimeout
  BY <1>3 DEF KillScope, LaneTimeout, SignalScope, LaneLive, Owned, AtWork
<1>4. ASSUME NEW k \in Jobs, LaneRefuse(k) \/ LaneProve(k) \/ LaneReport(k) PROVE Goal
  BY <1>4 DEF LaneRefuse, LaneProve, LaneReport, Emit
<1>5. ASSUME NEW k \in Jobs, LaneDeploy(k) \/ ChildEnds(k) \/ LeaderDies(k) PROVE Goal
  BY <1>5 DEF LaneDeploy, ChildEnds, LeaderDies
<1> HIDE DEF TypeOK, HostTyped, LaneOver, Goal
<1>6. QED
  BY <1>1, <1>2, <1>3, <1>4, <1>5
  DEF Next, Webhook, Worker, WorkerStep, Host, LaneProgress, vars, CheckIntake,
      InsertRelease, ClearFuse, CancelRelease, CancelEnter, CancelRevoke, ReadFuse, ReadLine,
      LoseCheckpoint, Recover, EnterLock, CloseRevoked, CloseManualPlan, Claim, SpawnError,
      LaneExit, ScopeConfirmedDead, HoldJob, SettleFromDurableState, PersistReceipt, Adjudicate,
      PushCanonical, EngageForPending, EngageForUnknown, CloseDeployed, CloseUnknown,
      CloseFailed, CloseManual, Fault, Crash, Restart, CloseAs, hostVars

(* True of the state after the step, whichever state the event comes from. *)
TrueThen(j, event) ==
  /\ event = "checkpoint" =>
       effect'[j] = "applied" /\ ~childUp'[j] /\ lane'[j] \in {"push"} \cup LaneOver
  /\ event \in {"deploy_failed", "manual"} =>
       effect'[j] = "none" /\ ~childUp'[j] /\ lane'[j] \in LaneOver

(* Evidence that is true of production stays true. *)
LEMMA TrueStable ==
  ASSUME TypeOK, Owned, Started, LaneShape, [Next]_vars, NEW j \in Jobs, NEW event, TrueOf(j, event)
  PROVE  TrueThen(j, event)
  BY QuietStable DEF TrueOf, Quiet, TrueThen, LaneOver

(* Every step keeps a lane's point, its child and its effect on production
   in keeping with each other. *)
LEMMA LaneShapeStep ==
  ASSUME TypeOK, Owned, Started, LaneShape, [Next]_vars
  PROVE  LaneShape'
<1> USE DEF TypeOK, HostTyped, RowsTyped, LaneShape, Quiet
<1>1. CASE UNCHANGED <<hostVars, checkpoint>>
  BY <1>1 DEF hostVars
<1>2. CASE Spawn
  BY <1>2 DEF Spawn, Started, Owned, AtWork, rowVars
<1>3. ASSUME NEW j \in Jobs, ReadLine(j) \/ LoseCheckpoint(j) PROVE LaneShape'
  BY ZenonT(40), <1>3 DEF ReadLine, LoseCheckpoint, Drop, rowVars
<1>4. CASE KillScope \/ LaneTimeout
  <2>1. wjob \in Jobs /\ SignalScope(wjob) /\ UNCHANGED <<checkpoint, effect, pipe, starts>>
    BY <1>4 DEF KillScope, LaneTimeout, rowVars, Owned, AtWork
  <2>2. QED
    BY <2>1 DEF SignalScope, LaneLive
<1>5. ASSUME NEW j \in Jobs, LaneRefuse(j) \/ LaneProve(j) \/ LaneReport(j) PROVE LaneShape'
  BY <1>5 DEF LaneRefuse, LaneProve, LaneReport, LaneStep, Emit, rowVars
<1>6. ASSUME NEW j \in Jobs, LaneDeploy(j) \/ ChildEnds(j) \/ LeaderDies(j) PROVE LaneShape'
  BY <1>6 DEF LaneDeploy, ChildEnds, LeaderDies, LaneStep, LaneLive, rowVars
<1>7. CASE Crash
  BY <1>7 DEF Crash, rowVars
<1> HIDE DEF TypeOK, HostTyped, RowsTyped, LaneShape, Quiet
<1>8. QED
  BY <1>1, <1>2, <1>3, <1>4, <1>5, <1>6, <1>7, ClosesJob
  DEF Next, Webhook, Worker, WorkerStep, Host, LaneProgress, vars, CheckIntake,
      InsertRelease, ClearFuse, CancelRelease, CancelEnter, CancelRevoke, ReadFuse, Recover,
      EnterLock, CloseRevoked, CloseManualPlan, Claim, SpawnError, LaneExit, ScopeConfirmedDead,
      HoldJob, SettleFromDurableState, PersistReceipt, Adjudicate, PushCanonical,
      EngageForPending, EngageForUnknown, CloseDeployed, CloseUnknown, CloseFailed, CloseManual,
      Fault, Restart, CloseAs, hostVars, rowVars

(* What the lane says is true when it says it. *)
LEMMA EmitsTruth ==
  ASSUME TypeOK, LaneShape, NEW j \in Jobs, LaneRefuse(j) \/ LaneProve(j) \/ LaneReport(j)
  PROVE  \/ UNCHANGED pipe
         \/ \E event : pipe' = [pipe EXCEPT ![j] = Append(@, event)] /\ TrueThen(j, event)
<1> USE DEF TypeOK, HostTyped, LaneShape, Emit, TrueThen, Quiet, LaneOver
<1>1. CASE LaneRefuse(j)
  BY <1>1 DEF LaneRefuse
<1>2. CASE LaneProve(j)
  BY <1>2 DEF LaneProve
<1>3. CASE LaneReport(j)
  BY <1>3 DEF LaneReport
<1>4. QED
  BY <1>1, <1>2, <1>3

(* After every step, each line still on the wire is true of production. *)
LEMMA PipeEvidence ==
  ASSUME TypeOK, Owned, Started, LaneShape, Evidence, [Next]_vars
  PROVE  \A j \in Jobs : \A i \in DOMAIN pipe'[j] : TrueThen(j, pipe'[j][i])
<1> SUFFICES ASSUME NEW j \in Jobs, NEW i \in DOMAIN pipe'[j]
             PROVE  TrueThen(j, pipe'[j][i])
  OBVIOUS
<1> USE DEF TypeOK, HostTyped
<1>1. ASSUME NEW k \in DOMAIN pipe[j], pipe'[j][i] = pipe[j][k]
      PROVE  TrueThen(j, pipe'[j][i])
  BY <1>1, TrueStable DEF Evidence
<1>2. CASE pipe'[j] = pipe[j]
  BY <1>1, <1>2
<1>3. ASSUME NEW k \in Jobs, ReadLine(k) \/ LoseCheckpoint(k) PROVE TrueThen(j, pipe'[j][i])
  <2>1. pipe[k] # <<>> /\ pipe' = [pipe EXCEPT ![k] = Tail(@)]
    BY <1>3 DEF ReadLine, LoseCheckpoint, Drop
  <2>2. CASE k = j
    <3>1. i + 1 \in DOMAIN pipe[j] /\ pipe'[j][i] = pipe[j][i + 1]
      BY <2>1, <2>2
    <3>2. QED
      BY <1>1, <3>1
  <2>3. QED
    BY <1>2, <2>1, <2>2
<1>4. ASSUME NEW k \in Jobs, LaneRefuse(k) \/ LaneProve(k) \/ LaneReport(k) PROVE TrueThen(j, pipe'[j][i])
  <2>1. CASE UNCHANGED pipe
    BY <1>2, <2>1
  <2>2. ASSUME NEW event, pipe' = [pipe EXCEPT ![k] = Append(@, event)], TrueThen(k, event)
        PROVE  TrueThen(j, pipe'[j][i])
    <3>1. CASE k = j /\ i = Len(pipe[j]) + 1
      <4>1. pipe'[j][i] = event
        BY <2>2, <3>1
      <4>2. QED
        BY <2>2, <3>1, <4>1
    <3>2. CASE k = j /\ i # Len(pipe[j]) + 1
      <4>1. i \in DOMAIN pipe[j] /\ pipe'[j][i] = pipe[j][i]
        BY <2>2, <3>2
      <4>2. QED
        BY <1>1, <4>1
    <3>3. CASE k # j
      BY <1>2, <2>2, <3>3
    <3>4. QED
      BY <3>1, <3>2, <3>3
  <2>3. QED
    BY <1>4, <2>1, <2>2, EmitsTruth
<1>5. CASE Crash
  BY <1>5 DEF Crash
<1> HIDE DEF TypeOK, HostTyped
<1>6. QED
  BY <1>2, <1>3, <1>4, <1>5
  DEF Next, Webhook, Worker, WorkerStep, Host, LaneProgress, vars, CheckIntake,
      InsertRelease, ClearFuse, CancelRelease, CancelEnter, CancelRevoke, ReadFuse, Recover,
      EnterLock, CloseRevoked, CloseManualPlan, Claim, Spawn, SpawnError, LaneExit,
      ScopeConfirmedDead, KillScope, HoldJob, SettleFromDurableState, PersistReceipt,
      Adjudicate, PushCanonical, EngageForPending, EngageForUnknown, CloseDeployed,
      CloseUnknown, CloseFailed, CloseManual, LaneTimeout, LaneDeploy, ChildEnds, LeaderDies,
      Fault, Restart, LaneStep, CloseAs, hostVars

(* The line a reader takes is evidence, or not yet. *)
LEMMA ReadEvidence ==
  ASSUME TypeOK, Owned, Started, LaneShape, Evidence, [Next]_vars, NEW j \in Jobs, ReadLine(j)
  PROVE  TrueThen(j, Head(pipe[j]))
<1>1. 1 \in DOMAIN pipe[j] /\ Head(pipe[j]) = pipe[j][1]
  BY DEF ReadLine, TypeOK, HostTyped
<1>2. TrueOf(j, Head(pipe[j]))
  BY <1>1 DEF Evidence
<1>3. QED
  BY <1>2, TrueStable

(* After every step, each durable checkpoint and receipt is true of
   production, and no checkpoint is lost. *)
LEMMA RowEvidence ==
  ASSUME TypeOK, Owned, Started, LaneShape, Evidence, [Next]_vars
  PROVE  \A j \in Jobs : /\ checkpoint'[j] => TrueThen(j, "checkpoint")
                         /\ TrueThen(j, receipt'[j])
                         /\ checkpoint[j] => checkpoint'[j]
<1> SUFFICES ASSUME NEW j \in Jobs
             PROVE  /\ checkpoint'[j] => TrueThen(j, "checkpoint")
                    /\ TrueThen(j, receipt'[j])
                    /\ checkpoint[j] => checkpoint'[j]
  OBVIOUS
<1>1. (checkpoint[j] => TrueThen(j, "checkpoint")) /\ TrueThen(j, receipt[j])
  BY TrueStable DEF Evidence
<1>2. ASSUME NEW k \in Jobs, ReadLine(k)
      PROVE  /\ checkpoint'[j] => checkpoint[j] \/ TrueThen(j, "checkpoint")
             /\ receipt' = receipt
             /\ checkpoint[j] => checkpoint'[j]
  BY <1>2, ReadEvidence DEF ReadLine, TypeOK, RowsTyped
<1>3. CASE PersistReceipt
  <2>1. wjob \in Jobs /\ TrueThen(wjob, wreceipt)
    BY <1>3, TrueStable DEF PersistReceipt, Owned, AtWork, Evidence
  <2>2. UNCHANGED checkpoint /\ receipt'[j] = (IF j = wjob /\ receipt[j] = "none" THEN wreceipt ELSE receipt[j])
    BY <1>3 DEF PersistReceipt, TypeOK, RowsTyped
  <2>3. QED
    BY <1>1, <2>1, <2>2
<1>4. CASE UNCHANGED <<checkpoint, receipt>>
  BY <1>1, <1>4
<1>5. QED
  BY <1>1, <1>2, <1>3, <1>4
  DEF Next, Webhook, Worker, WorkerStep, Host, LaneProgress, vars, CheckIntake,
      InsertRelease, ClearFuse, CancelRelease, CancelEnter, CancelRevoke, ReadFuse,
      LoseCheckpoint, Recover, EnterLock, CloseRevoked, CloseManualPlan, Claim, Spawn,
      SpawnError, LaneExit, ScopeConfirmedDead, KillScope, HoldJob, SettleFromDurableState,
      Adjudicate, PushCanonical, EngageForPending, EngageForUnknown, CloseDeployed,
      CloseUnknown, CloseFailed, CloseManual, LaneTimeout, LaneRefuse, LaneDeploy, ChildEnds,
      LaneProve, LaneReport, LeaderDies, Fault, Crash, Restart, LaneStep, CloseAs, rowVars

(* What the worker holds, and where it may go with it. *)
LEMMA WorkEvidence ==
  ASSUME TypeOK, Owned, Started, LaneShape, Evidence, [Next]_vars
  PROVE  /\ wpc' \in {"down", "idle"} => wreceipt' = "none"
         /\ wjob' \in Jobs => TrueThen(wjob', wreceipt')
<1> DEFINE Goal == /\ wpc' \in {"down", "idle"} => wreceipt' = "none"
                   /\ wjob' \in Jobs => TrueThen(wjob', wreceipt')
<1> SUFFICES Goal
  OBVIOUS
<1>1. wjob \in Jobs => TrueThen(wjob, wreceipt)
  BY TrueStable DEF Evidence
<1>2. CASE wreceipt' = "none"
  BY <1>2 DEF TrueThen
<1>3. CASE UNCHANGED <<wjob, wreceipt>> /\ (wpc' \in {"down", "idle"} => UNCHANGED wpc)
  BY <1>1, <1>3 DEF Evidence
<1>4. ASSUME NEW j \in Jobs, ReadLine(j) PROVE Goal
  <2>1. wpc' = wpc /\ wjob' = wjob
        /\ wreceipt' = (IF Verdicts(j) /\ wjob = j /\ wpc \in {"streaming", "exited"} THEN Head(pipe[j]) ELSE wreceipt)
    BY <1>4 DEF ReadLine
  <2>2. TrueThen(j, Head(pipe[j]))
    BY <1>4, ReadEvidence
  <2>3. QED
    BY <1>1, <2>1, <2>2 DEF Evidence
<1>5. CASE SettleFromDurableState /\ ~LetGo
  <2>1. wjob \in Jobs /\ wjob' = wjob /\ wreceipt' = receipt[wjob] /\ wpc' \notin {"down", "idle"}
    BY <1>5 DEF SettleFromDurableState, Owned, AtWork
  <2>2. TrueThen(wjob, receipt[wjob])
    BY <2>1, TrueStable DEF Evidence
  <2>3. QED
    BY <2>1, <2>2
<1>6. CASE PersistReceipt
  <2>1. wjob \in Jobs /\ wjob' = wjob /\ wpc' = "adjudicate"
        /\ wreceipt' \in {"none", receipt'[wjob]}
    BY <1>6 DEF PersistReceipt, Owned, AtWork
  <2>2. TrueThen(wjob, receipt'[wjob])
    BY <2>1, RowEvidence
  <2>3. QED
    BY <1>2, <2>1, <2>2
<1>7. ASSUME NEW j \in Jobs, ReadFuse(j) \/ Recover(j) PROVE wreceipt' = "none"
  BY <1>7 DEF ReadFuse, Recover, Evidence
<1>8. ASSUME LetGo PROVE wreceipt' = "none"
  BY <1>8 DEF LetGo
<1>9. CASE Restart
  BY <1>2, <1>9 DEF Restart, Evidence
<1> HIDE DEF Goal
<1>10. QED
  BY <1>2, <1>3, <1>4, <1>5, <1>6, <1>7, <1>8, <1>9, ClosesJob
  DEF Next, Webhook, Worker, WorkerStep, Host, LaneProgress, vars, CheckIntake,
      InsertRelease, ClearFuse, CancelRelease, CancelEnter, CancelRevoke, LoseCheckpoint,
      EnterLock, CloseRevoked, CloseManualPlan, Claim, Spawn, SpawnError, LaneExit,
      ScopeConfirmedDead, KillScope, HoldJob, SettleFromDurableState, Adjudicate, PushCanonical,
      EngageForPending, EngageForUnknown, LaneTimeout, LaneRefuse, LaneDeploy, ChildEnds,
      LaneProve, LaneReport, LeaderDies, Fault, Crash, LaneStep, workVars, Goto

(* After every step, a worker on its way to a close holds the evidence that
   the close needs. *)
LEMMA GoalEvidence ==
  ASSUME TypeOK, Owned, Started, LaneShape, Evidence, [Next]_vars
  PROVE  /\ wpc' \in {"push", "pending_fuse", "close_pushed", "close_pending"} => checkpoint'[wjob']
         /\ wpc' = "close_failed" => TrueThen(wjob', "deploy_failed")
         /\ wpc' = "close_manual" => TrueThen(wjob', "manual")
<1> DEFINE At(pc) == wpc = pc /\ wjob' = wjob
           Pushing == {"push", "pending_fuse", "close_pushed", "close_pending"}
           Goal == /\ wpc' \in Pushing => checkpoint'[wjob']
                   /\ wpc' = "close_failed" => TrueThen(wjob', "deploy_failed")
                   /\ wpc' = "close_manual" => TrueThen(wjob', "manual")
<1> SUFFICES Goal
  OBVIOUS
<1>1. CASE wpc' \notin Pushing \cup {"close_failed", "close_manual"}
  BY <1>1
<1>2. CASE wpc \in Pushing /\ wpc' \in Pushing /\ wjob' = wjob
  <2>1. wjob \in Jobs /\ checkpoint[wjob]
    BY <1>2 DEF Evidence, Owned, AtWork
  <2>2. QED
    BY <1>2, <2>1, RowEvidence
<1>3. CASE UNCHANGED <<wpc, wjob>>
  <2>1. CASE wpc \in Pushing
    BY <1>2, <1>3, <2>1
  <2>2. CASE wpc \in {"close_failed", "close_manual"}
    <3>1. wjob \in Jobs
      BY <2>2 DEF Owned, AtWork
    <3>2. QED
      BY <1>3, <2>2, <3>1, TrueStable DEF Evidence
  <2>3. QED
    BY <1>1, <1>3, <2>1, <2>2
<1>4. CASE SettleFromDurableState
  BY <1>1, <1>4 DEF SettleFromDurableState, LetGo, Owned, AtWork, rowVars
<1>5. CASE Adjudicate
  <2>1. wjob \in Jobs /\ wjob' = wjob /\ UNCHANGED checkpoint
    BY <1>5 DEF Adjudicate, Goto, Owned, AtWork, rowVars
  <2>2. TrueThen(wjob, wreceipt)
    BY <2>1, TrueStable DEF Evidence
  <2>3. QED
    BY <1>5, <2>1, <2>2 DEF Adjudicate, Goto
<1> HIDE DEF Goal
<1>6. QED
  BY <1>1, <1>2, <1>3, <1>4, <1>5, ClosesJob
  DEF Next, Webhook, Worker, WorkerStep, Host, LaneProgress, vars, CheckIntake,
      InsertRelease, ClearFuse, CancelRelease, CancelEnter, CancelRevoke, ReadFuse, ReadLine,
      LoseCheckpoint, Recover, EnterLock, CloseRevoked, CloseManualPlan, Claim, Spawn,
      SpawnError, LaneExit, ScopeConfirmedDead, KillScope, HoldJob, PersistReceipt,
      PushCanonical, EngageForPending, EngageForUnknown, LaneTimeout, LaneRefuse, LaneDeploy,
      ChildEnds, LaneProve, LaneReport, LeaderDies, Fault, Crash, Restart, LaneStep, workVars, Goto, LetGo

(* Every step keeps all evidence true: on the wire, durable, in the
   worker's hands. *)
LEMMA EvidenceStep ==
  ASSUME TypeOK, Owned, Started, LaneShape, Evidence, [Next]_vars
  PROVE  Evidence'
  BY PipeEvidence, RowEvidence, WorkEvidence, GoalEvidence DEF Evidence, TrueOf, Quiet, TrueThen

(* Every step keeps the ledger's outcomes true of production. *)
LEMMA ReportedStep ==
  ASSUME TypeOK, Owned, Started, LaneShape, Evidence, ReportedOutcomeTrue, [Next]_vars
  PROVE  ReportedOutcomeTrue'
<1>1. ASSUME NEW j \in Jobs, status'[j] = "deployed" PROVE checkpoint'[j] /\ effect'[j] = "applied"
  <2>1. checkpoint[j]
    <3>1. CASE UNCHANGED status
      BY <1>1, <3>1 DEF ReportedOutcomeTrue
    <3>2. CASE CloseDeployed \/ CloseUnknown \/ CloseFailed \/ CloseManual
      BY <1>1, <3>2, ClosesJob DEF ReportedOutcomeTrue, Evidence, TypeOK, RowsTyped
    <3>3. CASE Claim /\ Claimable(wjob)
      BY <1>1, <3>3 DEF Claim, ReportedOutcomeTrue, TypeOK, RowsTyped, LetGo
    <3>4. CASE CloseManualPlan /\ status[wjob] = "received"
      BY <1>1, <3>4 DEF CloseManualPlan, Terminalize, ReportedOutcomeTrue, TypeOK, RowsTyped
    <3>5. QED
      BY <1>1, <3>1, <3>2, <3>3, <3>4, StatusMoves DEF ReportedOutcomeTrue, TypeOK, RowsTyped
  <2>2. QED
    BY <2>1, RowEvidence DEF TrueThen
<1>2. ASSUME NEW j \in Jobs, status'[j] \in {"absent", "received", "cancelled"} PROVE starts'[j] = 0
  BY <1>2, StartedStep DEF Started
<1>3. ASSUME NEW j \in Jobs, status'[j] \in {"deploy_failed", "manual_required"}
      PROVE  effect'[j] = "none" /\ ~childUp'[j] /\ lane'[j] \notin LaneLive
  <2>1. CASE status[j] = "deploying"
    <3>1. /\ j = wjob
          /\ \/ wpc = "close_failed" /\ TrueOf(j, "deploy_failed")
             \/ wpc = "close_manual" /\ TrueOf(j, "manual")
      <4>1. CASE CloseDeployed \/ CloseUnknown \/ CloseFailed \/ CloseManual
        BY <1>3, <2>1, <4>1, ClosesJob DEF Evidence, TypeOK, RowsTyped
      <4>2. CASE Claim /\ Claimable(wjob)
        BY <1>3, <2>1, <4>2 DEF Claim, TypeOK, RowsTyped
      <4>3. CASE CloseManualPlan /\ status[wjob] = "received"
        BY <1>3, <2>1, <4>3 DEF CloseManualPlan, Terminalize, TypeOK, RowsTyped
      <4>4. QED
        BY <1>3, <2>1, <4>1, <4>2, <4>3, StatusMoves DEF TypeOK, RowsTyped
    <3>2. TrueThen(j, "deploy_failed") \/ TrueThen(j, "manual")
      BY <3>1, TrueStable
    <3>3. QED
      BY <3>2 DEF TrueThen, LaneOver, LaneLive
  <2>2. CASE status[j] # "deploying"
    <3>1. effect[j] = "none" /\ ~childUp[j] /\ lane[j] \in {"unstarted"} \cup LaneOver
      <4>1. CASE status[j] \in {"deploy_failed", "manual_required"}
        BY <4>1 DEF ReportedOutcomeTrue, ScopeActive, TypeOK, HostTyped, LaneOver, LaneLive
      <4>2. CASE status[j] = "received"
        BY <4>2 DEF ReportedOutcomeTrue, LaneShape, Quiet
      <4>3. status[j] \in {"received", "deploy_failed", "manual_required"}
        <5>1. CASE CloseDeployed \/ CloseUnknown \/ CloseFailed \/ CloseManual
          BY <1>3, <2>2, <5>1, ClosesJob DEF TypeOK, RowsTyped
        <5>2. CASE Claim /\ Claimable(wjob)
          BY <1>3, <5>2 DEF Claim, TypeOK, RowsTyped
        <5>3. CASE CloseManualPlan /\ status[wjob] = "received"
          BY <1>3, <5>3 DEF CloseManualPlan, Terminalize, TypeOK, RowsTyped
        <5>4. QED
          BY <1>3, <5>1, <5>2, <5>3, StatusMoves DEF TypeOK, RowsTyped
      <4>4. QED
        BY <4>1, <4>2, <4>3
    <3>2. CASE lane[j] \in LaneOver
      BY <3>1, <3>2, QuietStable DEF LaneOver, LaneLive
    <3>3. CASE lane[j] = "unstarted"
      <4>1. effect'[j] = "none" /\ ~childUp'[j] /\ lane'[j] = "unstarted"
        <5>1. CASE UNCHANGED <<lane, childUp, effect>>
          BY <3>1, <3>3, <5>1
        <5>2. CASE Spawn
          BY <2>2, <3>1, <3>3, <5>2 DEF Spawn, Owned, AtWork, TypeOK, HostTyped
        <5>3. CASE KillScope \/ LaneTimeout
          BY <3>1, <3>3, <5>3 DEF KillScope, LaneTimeout, SignalScope, LaneLive, TypeOK, HostTyped
        <5>4. ASSUME NEW k \in Jobs, LaneRefuse(k) \/ LaneProve(k) \/ LaneReport(k)
              PROVE  effect'[j] = "none" /\ ~childUp'[j] /\ lane'[j] = "unstarted"
          BY <3>1, <3>3, <5>4 DEF LaneRefuse, LaneProve, LaneReport, Emit, TypeOK, HostTyped
        <5>5. ASSUME NEW k \in Jobs, LaneDeploy(k) \/ ChildEnds(k) \/ LeaderDies(k)
              PROVE  effect'[j] = "none" /\ ~childUp'[j] /\ lane'[j] = "unstarted"
          BY <3>1, <3>3, <5>5 DEF LaneDeploy, ChildEnds, LeaderDies, LaneLive, TypeOK, HostTyped
        <5>6. QED
          BY <5>1, <5>2, <5>3, <5>4, <5>5
          DEF Next, Webhook, Worker, WorkerStep, Host, LaneProgress, vars, CheckIntake,
      InsertRelease, ClearFuse, CancelRelease, CancelEnter, CancelRevoke, ReadFuse, ReadLine,
      LoseCheckpoint, Recover, EnterLock, CloseRevoked, CloseManualPlan, Claim, SpawnError,
      LaneExit, ScopeConfirmedDead, HoldJob, SettleFromDurableState, PersistReceipt, Adjudicate,
      PushCanonical, EngageForPending, EngageForUnknown, CloseDeployed, CloseUnknown,
      CloseFailed, CloseManual, Fault, Crash, Restart, CloseAs, hostVars
      <4>2. QED
        BY <4>1 DEF LaneLive
    <3>4. QED
      BY <3>1, <3>2, <3>3
  <2>3. QED
    BY <2>1, <2>2
<1>4. QED
  BY <1>1, <1>2, <1>3 DEF ReportedOutcomeTrue, ScopeActive

(* The inductive invariant holds initially. *)
LEMMA InvInit == Init => IInv
<1> SUFFICES ASSUME Init PROVE IInv
  OBVIOUS
<1>1. TypeOK
  BY TypeInit
<1>2. Owned /\ Guarded
  BY OwnedInit DEF Init, Guarded
<1>3. Started /\ Singleflight /\ Fused /\ Pushed
  BY DEF Init, Started, AtMostOneStart, Singleflight, Fused, FuseHoldsUnresolved, Unresolved,
         Pushed, DeployedIsPushed
<1>4. OneVerdict
  BY DEF Init, OneVerdict, Phase
<1>5. LaneShape
  BY DEF Init, LaneShape, Quiet
<1>6. Evidence /\ ReportedOutcomeTrue
  BY JobAssumption DEF Init, Evidence, TrueOf, ReportedOutcomeTrue
<1>7. QED
  BY <1>1, <1>2, <1>3, <1>4, <1>5, <1>6 DEF IInv

(* Every step preserves the inductive invariant. *)
LEMMA InvStep == IInv /\ [Next]_vars => IInv'
<1> SUFFICES ASSUME IInv, [Next]_vars PROVE IInv'
  OBVIOUS
<1> USE DEF IInv
<1>1. TypeOK'
  BY RowsStep, GatesStep, WorkStep, ProcStep, HostStep, CountersStep DEF TypeOK
<1>2. Owned' /\ Guarded'
  BY OwnedStep, GuardedStep
<1>3. Started' /\ Singleflight' /\ Fused' /\ Pushed'
  BY StartedStep, SingleflightStep, FusedStep, PushedStep
<1>4. OneVerdict' /\ LaneShape' /\ Evidence' /\ ReportedOutcomeTrue'
  BY VerdictStep, LaneShapeStep, EvidenceStep, ReportedStep
<1>5. QED
  BY <1>1, <1>2, <1>3, <1>4

(* The inductive invariant holds in every reachable state. *)
THEOREM Invariance == Spec => []IInv
  BY InvInit, InvStep, PTL DEF Spec

(* Every reachable state is well typed. *)
THEOREM TypeCorrect == Spec => []TypeOK
<1>1. IInv => TypeOK
  BY DEF IInv
<1>2. QED
  BY <1>1, Invariance, PTL

(* For any set of jobs and repairs and any number of crashes and faults, no
   job's lane is ever spawned twice (claimReleaseJob's CAS out of received
   is the only way to runLane, and recovery never spawns), and two rows are
   never deploying. *)
THEOREM DeployedAtMostOnce == Spec => [](AtMostOneStart /\ Singleflight)
<1>1. IInv => AtMostOneStart /\ Singleflight
  BY DEF IInv, Started
<1>2. QED
  BY <1>1, Invariance, PTL

(* Whatever releaseWorker.ts writes as a job's outcome is true of
   production: deployed only over an applied deploy with a durable
   checkpoint, deploy_failed, manual_required and cancelled only when
   production is untouched and nothing runs. *)
THEOREM LedgerTruthful == Spec => []ReportedOutcomeTrue
<1>1. IInv => ReportedOutcomeTrue
  BY DEF IInv
<1>2. QED
  BY <1>1, Invariance, PTL

(* Until v5 clears the epoch of a job that ended deploy_unknown, or
   deployed ahead of canonical, the one-slot fuse is engaged for that very
   job. *)
THEOREM FuseHeld == Spec => []FuseHoldsUnresolved
<1>1. IInv => FuseHoldsUnresolved
  BY DEF IInv, Fused
<1>2. QED
  BY <1>1, Invariance, PTL

(* A deployed row that is not marked canonical_push_pending had canonical
   pushed and read back by the worker itself. *)
THEOREM PushAccounted == Spec => []DeployedIsPushed
<1>1. IInv => DeployedIsPushed
  BY DEF IInv, Pushed
<1>2. QED
  BY <1>1, Invariance, PTL

(* A job's final callback row exists exactly when the ledger holds that
   outcome: v5 is never told two outcomes of a job, nor one the ledger does
   not hold. *)
THEOREM ToldOnce == Spec => []OneVerdict
<1>1. IInv => OneVerdict
  BY DEF IInv
<1>2. QED
  BY <1>1, Invariance, PTL

(* Once a cancel has revoked a repair under its mutex, claimReleaseJob
   never claims a job of that repair, whatever the worker had read before. *)
THEOREM RevocationHolds == Spec => RevokedNeverClaimed
<1>1. ASSUME IInv, [Next]_vars, NEW j \in Jobs, status[j] = "received", status'[j] = "deploying"
      PROVE  RepairOf[j] \notin revoked
  <2> USE DEF IInv, TypeOK, RowsTyped
  <2>1. CASE Claim
    BY <1>1, <2>1 DEF Claim, Guarded
  <2>2. CASE CloseManualPlan /\ status[wjob] = "received"
    BY <1>1, <2>2 DEF CloseManualPlan, Terminalize
  <2>3. CASE CloseDeployed \/ CloseUnknown \/ CloseFailed \/ CloseManual
    BY <1>1, <2>3, ClosesJob
  <2>4. QED
    BY <1>1, <2>1, <2>2, <2>3, StatusMoves
<1>2. IInv /\ [Next]_vars =>
        [\A j \in Jobs : status[j] = "received" /\ status'[j] = "deploying" => RepairOf[j] \notin revoked]_vars
  BY <1>1
<1>3. QED
  BY <1>2, Invariance, PTL DEF Spec, RevokedNeverClaimed

(* The refinement. What the abstract specification calls the phase of a job. *)
PhaseOf(j) == IF status[j] = "deployed" /\ pushPending[j] THEN "deployed_unpushed" ELSE status[j]
PhaseNext(j) == IF status'[j] = "deployed" /\ pushPending'[j] THEN "deployed_unpushed" ELSE status'[j]

(* Whatever leaves a job's row alone leaves its phase alone: a push that is
   recorded as pending is recorded while the job is still deploying. *)
LEMMA PhaseKept ==
  ASSUME TypeOK, Owned, [Next]_vars, UNCHANGED status, NEW j \in Jobs
  PROVE  PhaseNext(j) = PhaseOf(j)
<1> USE DEF TypeOK, RowsTyped, PhaseOf, PhaseNext
<1>1. CASE UNCHANGED pushPending
  BY <1>1
<1>2. CASE PushCanonical
  BY <1>2 DEF PushCanonical, Owned, AtWork
<1>3. CASE CloseDeployed \/ CloseUnknown \/ CloseFailed \/ CloseManual
  BY <1>3, ClosesJob
<1>4. CASE CloseManualPlan
  BY <1>4 DEF CloseManualPlan, Terminalize, Owned
<1> HIDE DEF TypeOK, RowsTyped, PhaseOf, PhaseNext
<1>5. QED
  BY <1>1, <1>2, <1>3, <1>4
  DEF Next, Webhook, Worker, WorkerStep, Host, LaneProgress, vars, CheckIntake,
      InsertRelease, ClearFuse, CancelRelease, CancelEnter, CancelRevoke, ReadFuse, ReadLine,
      LoseCheckpoint, Recover, EnterLock, CloseRevoked, Claim, Spawn, SpawnError, LaneExit,
      ScopeConfirmedDead, KillScope, HoldJob, SettleFromDurableState, PersistReceipt,
      Adjudicate, EngageForPending, EngageForUnknown, LaneTimeout, LaneRefuse, LaneDeploy,
      ChildEnds, LaneProve, LaneReport, LeaderDies, Fault, Crash, Restart, LaneStep, rowVars

(* The tombstones grow by v5's clears alone. *)
LEMMA ClearedMoves ==
  ASSUME [Next]_vars
  PROVE  UNCHANGED cleared \/ \E j \in Jobs : ClearFuse(j)
  BY DEF Next, Webhook, Worker, WorkerStep, Host, LaneProgress, vars, CheckIntake,
      InsertRelease, CancelRelease, CancelEnter, CancelRevoke, ReadFuse, ReadLine,
      LoseCheckpoint, Recover, EnterLock, CloseRevoked, CloseManualPlan, Claim, Spawn,
      SpawnError, LaneExit, ScopeConfirmedDead, KillScope, HoldJob, SettleFromDurableState,
      PersistReceipt, Adjudicate, PushCanonical, EngageForPending, EngageForUnknown,
      CloseDeployed, CloseUnknown, CloseFailed, CloseManual, LaneTimeout, LaneRefuse,
      LaneDeploy, ChildEnds, LaneProve, LaneReport, LeaderDies, Fault, Crash, Restart, LaneStep,
      CloseAs, gateVars

(* A definite outcome is that of a lane that was spawned. *)
LEMMA FinishedWasLaunched ==
  ASSUME IInv, wpc \in {"close_pushed", "close_pending", "close_failed", "close_manual"}
  PROVE  wjob \in Jobs /\ starts[wjob] > 0
<1> USE DEF IInv
<1>1. wjob \in Jobs
  BY DEF Owned, AtWork
<1>2. checkpoint[wjob] \/ TrueOf(wjob, "deploy_failed") \/ TrueOf(wjob, "manual")
  BY DEF Evidence
<1>3. lane[wjob] # "unstarted"
  BY <1>1, <1>2 DEF Evidence, TrueOf, LaneShape, LaneOver
<1>4. QED
  BY <1>1, <1>3 DEF LaneShape, TypeOK, HostTyped

(* Initial states map to initial states of the abstract specification. *)
LEMMA PromiseInit == Init => Promise!Init
  BY DEF Init, Promise!Init

(* The phase of one job moves, and of no other. *)
Along(j, from, to) == PhaseOf(j) = from /\ \A k \in Jobs : PhaseNext(k) = IF k = j THEN to ELSE PhaseOf(k)

(* Every step moves the phase of at most one job, and only along the
   abstract diagram; a claim finds no unresolved job left, because the fuse
   would be engaged for it. *)
LEMMA PhaseMoves ==
  ASSUME IInv, [Next]_vars
  PROVE  \/ \A j \in Jobs : PhaseNext(j) = PhaseOf(j)
         \/ \E j \in Jobs :
              \/ Along(j, "absent", "received")
              \/ \E to \in {"cancelled", "manual_required"} : Along(j, "received", to)
              \/ /\ \A k \in Jobs : PhaseOf(k) # "deploying"
                 /\ \A k \in Jobs \ cleared : PhaseOf(k) \notin Promise!NeedsHuman
                 /\ Along(j, "received", "deploying")
              \/ \E to \in Promise!Begun : /\ Along(j, "deploying", to)
                                           /\ to # "deploy_unknown" => starts[j] > 0
<1> USE DEF IInv, TypeOK, RowsTyped, PhaseOf, PhaseNext, Along
<1>1. CASE UNCHANGED status
  BY <1>1, PhaseKept
<1>2. ASSUME NEW j \in Jobs, InsertRelease(j) PROVE Along(j, "absent", "received")
  BY <1>2 DEF InsertRelease
<1>3. ASSUME NEW j \in Jobs, CancelRelease(j) PROVE Along(j, "received", "cancelled")
  BY <1>3 DEF CancelRelease, CancelRow
<1>4. CASE CloseRevoked /\ status' # status
  BY <1>4 DEF CloseRevoked, CancelRow, Owned
<1>5. CASE CloseManualPlan /\ status' # status
  BY <1>5 DEF CloseManualPlan, Terminalize, Owned
<1>6. CASE Claim /\ status' # status
  <2>1. wjob \in Jobs /\ Claimable(wjob) /\ Along(wjob, "received", "deploying")
    BY <1>6 DEF Claim, Claimable, Owned
  <2>2. \A k \in Jobs : PhaseOf(k) # "deploying"
    BY <2>1 DEF Claimable
  <2>3. \A k \in Jobs \ cleared : PhaseOf(k) \notin Promise!NeedsHuman
    BY <2>1, JobAssumption DEF Claimable, Fused, FuseHoldsUnresolved, Unresolved,
       Status, Closed, Promise!NeedsHuman
  <2>4. QED
    BY <2>1, <2>2, <2>3
<1>7. CASE CloseDeployed \/ CloseUnknown \/ CloseFailed \/ CloseManual
  <2>1. PICK to \in Promise!Begun : /\ Along(wjob, "deploying", to)
                                    /\ to # "deploy_unknown" => starts[wjob] > 0
    BY <1>7, ClosesJob, FinishedWasLaunched DEF Promise!Begun, Promise!NeedsHuman
  <2>2. wjob \in Jobs
    BY <1>7, ClosesJob
  <2>3. QED
    BY <2>1, <2>2
<1> HIDE DEF IInv, TypeOK, RowsTyped, PhaseOf, PhaseNext, Along
<1>8. QED
  BY <1>1, <1>2, <1>3, <1>4, <1>5, <1>6, <1>7
  DEF Next, Webhook, Worker, WorkerStep, Host, LaneProgress, vars, CheckIntake, ClearFuse,
      CancelEnter, CancelRevoke, ReadFuse, ReadLine, LoseCheckpoint, Recover, EnterLock, Spawn,
      SpawnError, LaneExit, ScopeConfirmedDead, KillScope, HoldJob, SettleFromDurableState,
      PersistReceipt, Adjudicate, PushCanonical, EngageForPending, EngageForUnknown,
      LaneTimeout, LaneRefuse, LaneDeploy, ChildEnds, LaneProve, LaneReport, LeaderDies, Fault,
      Crash, Restart, LaneStep, rowVars

(* Every step of the worker, the lane and the webhooks maps to an abstract
   step or to a stutter. *)
LEMMA PromiseStep == IInv /\ [Next]_vars => [Promise!Next]_(Promise!vars)
<1> SUFFICES ASSUME IInv, [Next]_vars
             PROVE  [Promise!Next]_(Promise!vars)
  OBVIOUS
<1>1. ASSUME NEW j \in Jobs, ClearFuse(j) PROVE Promise!Waive(j)
  BY <1>1 DEF ClearFuse, rowVars, hostVars, Promise!Waive
<1>2. CASE Spawn
  <2>1. PICK j \in Jobs : /\ status[j] = "deploying" /\ starts[j] = 0
                          /\ starts' = [starts EXCEPT ![j] = @ + 1]
    BY <1>2 DEF Spawn, IInv, Owned, AtWork, Started
  <2>2. UNCHANGED <<status, pushPending, cleared>>
    BY <1>2 DEF Spawn, rowVars, gateVars
  <2>3. Promise!Launch(j)
    BY <2>1, <2>2 DEF Promise!Launch, IInv, TypeOK, HostTyped
  <2>4. QED
    BY <2>3 DEF Promise!Next
<1>3. CASE UNCHANGED <<starts, cleared>>
  <2>1. UNCHANGED Promise!vars \/ Promise!Next
    BY ZenonT(40), <1>3, PhaseMoves DEF PhaseOf, PhaseNext, Along, Promise!vars, Promise!Next, Promise!Accept,
       Promise!Decline, Promise!Begin, Promise!Finish, Promise!Move
  <2>2. QED
    BY <2>1
<1>4. UNCHANGED cleared \/ \E j \in Jobs : ClearFuse(j)
  BY ClearedMoves
<1>5. Spawn \/ UNCHANGED starts
  BY StartsMoves DEF IInv
<1>6. Spawn => UNCHANGED cleared
  BY DEF Spawn, gateVars
<1>7. (\E j \in Jobs : ClearFuse(j)) => Promise!Next
  BY <1>1, Zenon DEF Promise!Next
<1>8. QED
  BY <1>2, <1>3, <1>4, <1>5, <1>6, <1>7

(* The worker with its ledger, lane, crashes and one-slot fuse implements
   AtMostOnceDeploy: at-most-once deploys, one at a time, and none while an
   earlier one waits for a human. *)
THEOREM ImplementsPromise == Spec => DeploysAtMostOnce
<1>1. Spec => Promise!Init /\ [][Promise!Next]_(Promise!vars)
  BY PromiseInit, PromiseStep, Invariance, PTL DEF Spec
<1>2. QED
  BY <1>1 DEF DeploysAtMostOnce, Promise!Spec

(* What the worker may rely on while it owns a lane, as long as a lane's    *)
(* shell dies alone only once nobody reads it (~LeaderMayDie). The worker   *)
(* closes from these points, and reaches each of them only with the scope   *)
(* of its job found empty, or never filled.                                 *)
EmptyPoints == {"prepare", "exited", "settle", "adjudicate", "push", "pending_fuse",
                "unknown_fuse", "close_pushed", "close_pending", "close_unknown", "close_failed",
                "close_manual"}

(* Nothing runs for a job that is not deploying, nor for the worker's job at *)
(* the points it closes from. For the lane it streams this needs more: it    *)
(* is still read, so that no write kills it, and deploy-v5.sh runs only with *)
(* its shell waiting for it, so that the shell's exit is the end of both.    *)
Contained ==
  /\ \A j \in Jobs : status[j] # "deploying" => ~ScopeActive(j)
  /\ wpc \in EmptyPoints => ~ScopeActive(wjob)
  /\ wpc = "streaming" => wjob \in attached /\ (childUp[wjob] => lane[wjob] = "deploy")

(* An empty scope is filled by Spawn alone, for the worker's own job. *)
LEMMA EmptyStays ==
  ASSUME TypeOK, Owned, Started, LaneShape, [Next]_vars, NEW j \in Jobs, ~ScopeActive(j),
         ~(Spawn /\ j = wjob)
  PROVE  ~ScopeActive(j)'
<1> USE DEF TypeOK, HostTyped, LaneLive
<1>1. CASE UNCHANGED <<lane, childUp>>
  BY <1>1 DEF ScopeActive
<1>2. CASE Spawn
  BY <1>2 DEF Spawn, ScopeActive
<1>3. CASE KillScope \/ LaneTimeout
  BY <1>3 DEF KillScope, LaneTimeout, SignalScope, ScopeActive, Owned, AtWork
<1>4. ASSUME NEW k \in Jobs, LaneRefuse(k) \/ LaneProve(k) \/ LaneReport(k) PROVE ~ScopeActive(j)'
  BY <1>4 DEF LaneRefuse, LaneProve, LaneReport, Emit, ScopeActive
<1>5. ASSUME NEW k \in Jobs, LaneDeploy(k) \/ ChildEnds(k) \/ LeaderDies(k) PROVE ~ScopeActive(j)'
  BY <1>5 DEF LaneDeploy, ChildEnds, LeaderDies, ScopeActive
<1> HIDE DEF TypeOK, HostTyped, LaneLive
<1>6. QED
  BY <1>1, <1>2, <1>3, <1>4, <1>5
  DEF Next, Webhook, Worker, WorkerStep, Host, LaneProgress, vars, CheckIntake,
      InsertRelease, ClearFuse, CancelRelease, CancelEnter, CancelRevoke, ReadFuse, ReadLine,
      LoseCheckpoint, Recover, EnterLock, CloseRevoked, CloseManualPlan, Claim, SpawnError,
      LaneExit, ScopeConfirmedDead, HoldJob, SettleFromDurableState, PersistReceipt, Adjudicate,
      PushCanonical, EngageForPending, EngageForUnknown, CloseDeployed, CloseUnknown,
      CloseFailed, CloseManual, Fault, Crash, Restart, CloseAs, hostVars

(* Who leaves deploying: the worker's job, by a close, from a point at which *)
(* its scope is empty.                                                       *)
LEMMA LeavesDeploying ==
  ASSUME IInv, Contained, [Next]_vars, NEW j \in Jobs,
         status[j] = "deploying", status'[j] # "deploying"
  PROVE  ~ScopeActive(j) /\ ~Spawn
<1> USE DEF IInv, TypeOK, RowsTyped
<1>1. CASE UNCHANGED status
  BY <1>1
<1>2. CASE Claim /\ Claimable(wjob)
  BY <1>2 DEF Claim
<1>3. CASE CloseManualPlan /\ status[wjob] = "received"
  BY <1>3 DEF CloseManualPlan, Terminalize
<1>4. CASE CloseDeployed \/ CloseUnknown \/ CloseFailed \/ CloseManual
  <2>1. j = wjob
    BY <1>4, ClosesJob
  <2>2. wpc \in {"close_pushed", "close_pending", "close_unknown", "close_failed", "close_manual"}
    BY <1>4 DEF CloseDeployed, CloseUnknown, CloseFailed, CloseManual
  <2>3. QED
    BY <2>1, <2>2 DEF Contained, EmptyPoints, Spawn
<1>5. QED
  BY <1>1, <1>2, <1>3, <1>4, StatusMoves

(* Every step keeps a job that is not deploying without a scope. *)
LEMMA IdleJobsEmpty ==
  ASSUME IInv, Contained, [Next]_vars, NEW j \in Jobs, status'[j] # "deploying"
  PROVE  ~ScopeActive(j)'
<1>1. CASE status[j] = "deploying"
  BY <1>1, LeavesDeploying, EmptyStays DEF IInv
<1>2. CASE status[j] # "deploying"
  <2>1. ~ScopeActive(j)
    BY <1>2 DEF Contained
  <2>2. ~(Spawn /\ j = wjob)
    BY <1>2 DEF Spawn, IInv, Owned, AtWork
  <2>3. QED
    BY <2>1, <2>2, EmptyStays DEF IInv
<1>3. QED
  BY <1>1, <1>2

(* How the worker comes to a point it closes from: with a job just claimed, *)
(* from another such point, by finding the scope inactive, or by the exit   *)
(* of the lane it streams.                                                  *)
LEMMA ComesToEmptyPoint ==
  ASSUME IInv, [Next]_vars, wpc' \in EmptyPoints
  PROVE  /\ ~Spawn /\ wjob' \in Jobs
         /\ \/ starts[wjob'] = 0
            \/ wpc \in EmptyPoints /\ wjob' = wjob
            \/ ~ScopeActive(wjob')
            \/ wpc = "streaming" /\ wjob' = wjob /\ lane[wjob] \in LaneOver
<1> USE DEF EmptyPoints
<1>1. CASE UNCHANGED <<wpc, wjob>> /\ ~Spawn
  BY <1>1 DEF IInv, Owned, AtWork
<1>2. CASE Claim
  BY <1>2 DEF Claim, Claimable, LetGo, Spawn, IInv, Owned, Started
<1>3. ASSUME NEW j \in Jobs, Recover(j) PROVE ~Spawn /\ wjob' \in Jobs /\ ~ScopeActive(wjob')
  BY <1>3 DEF Recover, Spawn
<1>4. CASE ScopeConfirmedDead \/ LaneExit
  BY <1>4 DEF ScopeConfirmedDead, LaneExit, Goto, Spawn, IInv, Owned, AtWork
<1>5. CASE SettleFromDurableState \/ PersistReceipt \/ Adjudicate
  BY <1>5 DEF SettleFromDurableState, PersistReceipt, Adjudicate, Goto, LetGo, Spawn, IInv,
              Owned, AtWork
<1>6. CASE PushCanonical \/ EngageForPending \/ EngageForUnknown
  BY <1>6 DEF PushCanonical, EngageForPending, EngageForUnknown, Goto, Spawn, IInv, Owned, AtWork
<1>7. CASE Fault
  BY <1>7 DEF Fault, Throwing, LetGo, Spawn, hostVars, IInv, Owned, AtWork, TypeOK, HostTyped
<1>8. CASE LetGo
  BY <1>8 DEF LetGo
<1>9. CASE CloseDeployed \/ CloseUnknown \/ CloseFailed \/ CloseManual
  BY <1>8, <1>9, ClosesJob DEF IInv
<1> HIDE DEF EmptyPoints
<1>10. \A pc \in {"down", "idle", "locking", "locked", "streaming", "hung", "confirm", "confirm_killed"} :
         pc \notin EmptyPoints
  BY DEF EmptyPoints
<1>11. ASSUME NEW k \in Jobs, LaneProgress(k) \/ LeaderDies(k) PROVE UNCHANGED <<wpc, wjob>> /\ ~Spawn
  BY <1>11 DEF LaneProgress, LaneRefuse, LaneDeploy, ChildEnds, LaneProve, LaneReport, LeaderDies,
               LaneStep, workVars, Spawn, Goto
<1>12. ASSUME Webhook \/ UNCHANGED vars PROVE UNCHANGED <<wpc, wjob>> /\ ~Spawn
  BY <1>12 DEF Webhook, CheckIntake, InsertRelease, ClearFuse, CancelRelease, CancelEnter,
               CancelRevoke, vars, workVars, Spawn, Goto
<1>13. ASSUME NEW k \in Jobs, ReadLine(k) \/ LoseCheckpoint(k) PROVE UNCHANGED <<wpc, wjob>> /\ ~Spawn
  BY <1>13 DEF ReadLine, LoseCheckpoint, workVars, Spawn, Goto
<1>14. QED
  BY <1>1, <1>2, <1>3, <1>4, <1>5, <1>6, <1>7, <1>8, <1>9, <1>10, <1>11, <1>12, <1>13
  DEF Next, Worker, WorkerStep, Host, ReadFuse, EnterLock, CloseRevoked, CloseManualPlan,
      Spawn, SpawnError, KillScope, HoldJob, LaneTimeout, Crash, Restart, Goto

(* Every step keeps the scope of the worker's job empty at the points it    *)
(* closes from.                                                             *)
LEMMA PointsEmpty ==
  ASSUME IInv, Contained, [Next]_vars, wpc' \in EmptyPoints
  PROVE  ~ScopeActive(wjob)'
<1>1. PICK j \in Jobs : j = wjob'
  BY ComesToEmptyPoint
<1>2. ~ScopeActive(j)
  <2>1. CASE starts[j] = 0
    BY <2>1 DEF IInv, LaneShape, Quiet, ScopeActive, LaneLive
  <2>2. CASE wpc \in EmptyPoints /\ j = wjob
    BY <2>2 DEF Contained
  <2>3. CASE wpc = "streaming" /\ j = wjob /\ lane[wjob] \in LaneOver
    BY <2>3 DEF Contained, ScopeActive, LaneLive, LaneOver
  <2>4. QED
    BY <1>1, <2>1, <2>2, <2>3, ComesToEmptyPoint
<1>3. ~ScopeActive(j)'
  BY <1>2, ComesToEmptyPoint, EmptyStays DEF IInv
<1>4. QED
  BY <1>1, <1>3 DEF ScopeActive

(* The worker streams a lane from its spawn on, and reads it all the time. *)
LEMMA StreamsOn ==
  ASSUME [Next]_vars, wpc' = "streaming"
  PROVE  Spawn \/ (wpc = "streaming" /\ UNCHANGED <<wjob, attached>>)
<1>1. CASE Adjudicate \/ Fault \/ SettleFromDurableState \/ PersistReceipt
  BY <1>1 DEF Adjudicate, Fault, SettleFromDurableState, PersistReceipt, Goto, LetGo
<1>2. CASE Claim \/ EnterLock
  BY <1>2 DEF Claim, EnterLock, LetGo
<1>3. CASE CloseDeployed \/ CloseUnknown \/ CloseFailed \/ CloseManual
  BY <1>3 DEF CloseDeployed, CloseUnknown, CloseFailed, CloseManual, CloseAs, LetGo
<1>4. QED
  BY <1>1, <1>2, <1>3
  DEF Next, Webhook, Worker, WorkerStep, Host, LaneProgress, vars, CheckIntake,
      InsertRelease, ClearFuse, CancelRelease, CancelEnter, CancelRevoke, ReadFuse, ReadLine,
      LoseCheckpoint, Recover, CloseRevoked, CloseManualPlan, SpawnError, LaneExit,
      ScopeConfirmedDead, KillScope, HoldJob, PushCanonical, EngageForPending,
      EngageForUnknown, LaneTimeout, LaneRefuse, LaneDeploy, ChildEnds, LaneProve, LaneReport,
      LeaderDies, Crash, Restart, LaneStep, workVars, procVars, Goto, LetGo

(* Every step keeps a lane the worker streams attached, and deploy-v5.sh    *)
(* running only with its shell waiting for it.                              *)
LEMMA StreamedWaits ==
  ASSUME ~LeaderMayDie, IInv, Contained, [Next]_vars, wpc' = "streaming"
  PROVE  wjob' \in attached' /\ (childUp'[wjob'] => lane'[wjob'] = "deploy")
<1> USE DEF TypeOK, HostTyped
<1>1. CASE Spawn
  BY <1>1 DEF Spawn, Goto, IInv, Started, LaneShape, Quiet, Owned, AtWork
<1>2. CASE wpc = "streaming" /\ UNCHANGED <<wjob, attached>>
  <2>1. wjob \in Jobs /\ wjob' = wjob /\ wjob \in attached /\ attached' = attached
    BY <1>2 DEF Contained, IInv, Owned, AtWork
  <2>2. childUp[wjob] => lane[wjob] = "deploy"
    BY <1>2 DEF Contained
  <2>3. CASE UNCHANGED <<lane, childUp>>
    BY <2>1, <2>2, <2>3
  <2>4. ASSUME NEW k \in Jobs, LaneRefuse(k) \/ LaneProve(k) \/ LaneReport(k)
        PROVE  childUp'[wjob] => lane'[wjob] = "deploy"
    BY <2>1, <2>2, <2>4 DEF LaneRefuse, LaneProve, LaneReport, Emit, IInv, LaneShape, Quiet
  <2>5. ASSUME NEW k \in Jobs, LaneDeploy(k) \/ ChildEnds(k) \/ LeaderDies(k)
        PROVE  childUp'[wjob] => lane'[wjob] = "deploy"
    BY <2>1, <2>2, <2>5 DEF LaneDeploy, ChildEnds, LeaderDies, IInv
  <2>6. UNCHANGED <<lane, childUp>> \/ Host
    BY <1>2
    DEF Next, Webhook, Worker, WorkerStep, vars, CheckIntake, InsertRelease, ClearFuse,
        CancelRelease, CancelEnter, CancelRevoke, ReadFuse, ReadLine, LoseCheckpoint, Recover,
        EnterLock, CloseRevoked, CloseManualPlan, Claim, Spawn, SpawnError, LaneExit,
        ScopeConfirmedDead, KillScope, HoldJob, SettleFromDurableState, PersistReceipt,
        Adjudicate, PushCanonical, EngageForPending, EngageForUnknown, CloseDeployed,
        CloseUnknown, CloseFailed, CloseManual, LaneTimeout, Fault, Crash, Restart, CloseAs,
        hostVars, Goto
  <2>7. QED
    BY <1>2, <2>1, <2>3, <2>4, <2>5, <2>6 DEF Host, LaneProgress
<1>3. QED
  BY <1>1, <1>2, StreamsOn

(* Every step keeps what runs on the host contained in the job the ledger   *)
(* calls deploying.                                                         *)
LEMMA ContainedStep ==
  ASSUME ~LeaderMayDie, IInv, Contained, [Next]_vars
  PROVE  Contained'
<1>1. ASSUME NEW j \in Jobs, status'[j] # "deploying" PROVE ~ScopeActive(j)'
  BY <1>1, IdleJobsEmpty
<1>2. wpc' \in EmptyPoints => ~ScopeActive(wjob)'
  BY PointsEmpty
<1>3. wpc' = "streaming" => wjob' \in attached' /\ (childUp'[wjob'] => lane'[wjob'] = "deploy")
  BY StreamedWaits
<1>4. QED
  BY <1>1, <1>2, <1>3 DEF Contained, EmptyPoints

(* As long as a lane's shell dies alone only once nobody reads it, whatever  *)
(* else crashes or fails, what runs on the host is contained in the ledger.  *)
THEOREM Containment ==
  ASSUME ~LeaderMayDie
  PROVE  Spec => [](IInv /\ Contained)
<1>1. Init => IInv /\ Contained
  <2>1. Init => Contained
    BY DEF Init, Contained, ScopeActive, LaneLive, EmptyPoints
  <2>2. QED
    BY <2>1, InvInit
<1>2. IInv /\ Contained /\ [Next]_vars => (IInv /\ Contained)'
  BY InvStep, ContainedStep
<1>3. QED
  BY <1>1, <1>2, PTL DEF Spec

(* Two deploy scopes are never alive at once on the host, although it is    *)
(* only the ledger's singleflight that decides who may start: for any jobs, *)
(* any number of crashes of the gateway and of failing transactions, and    *)
(* spawns that fail, provided that a lane's shell that is read does not die *)
(* alone while deploy-v5.sh runs.                                           *)
THEOREM ScopesExclude ==
  ASSUME ~LeaderMayDie
  PROVE  Spec => []OneScopeAtATime
<1>1. IInv /\ Contained => OneScopeAtATime
  BY DEF IInv, Contained, Singleflight, OneScopeAtATime
<1>2. QED
  BY <1>1, Containment, PTL

(* Under the same proviso a job leaves deploying only when nothing runs in  *)
(* its scope any more, whichever way the worker came to close it: after the *)
(* lane's exit, a timeout, a fault, or a restart and a recovery.            *)
THEOREM SettlesDeadScopes ==
  ASSUME ~LeaderMayDie
  PROVE  Spec => SettleOnlyDeadScope
<1>1. (IInv /\ Contained) /\ [Next]_vars =>
        [\A j \in Jobs : status[j] = "deploying" /\ status'[j] # "deploying" => ~ScopeActive(j)]_vars
  BY LeavesDeploying
<1>2. QED
  BY <1>1, Containment, PTL DEF Spec, SettleOnlyDeadScope
================================================================================
