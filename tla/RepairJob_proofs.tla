--------------------------- MODULE RepairJob_proofs ----------------------------
(* What the runs of RepairJob show for one repair, for any set of repairs,  *)
(* routings, crashes and faults.  One lemma per part of the inductive       *)
(* invariant IInv, one step per action that can disturb the part; the last  *)
(* step shows that no other action does.                                    *)
EXTENDS RepairJob, TLAPS

--------------------------------------------------------------------------------
(* Types. *)

(* The initial state is well typed. *)
LEMMA TypeInit == Init => TypeOK
<1> SUFFICES ASSUME Init PROVE TypeOK
  OBVIOUS
<1> USE RepairAssumption DEF Init
<1>1. RowsTyped
  BY DEF RowsTyped, Status
<1>2. TierTyped /\ TurnTyped /\ ToldTyped /\ CountersTyped
  BY DEF TierTyped, TurnTyped, ToldTyped, CountersTyped
<1>3. WorkTyped
  BY DEF WorkTyped, WorkerPc
<1>4. ProcTyped
  BY DEF ProcTyped, CancelPc
<1>5. QED
  BY <1>1, <1>2, <1>3, <1>4 DEF TypeOK

(* A worker at work has a repair. *)
LEMMA JobTyped ==
  ASSUME TypeOK, Owned, pc # "idle"
  PROVE  job \in Repairs
  BY DEF TypeOK, WorkTyped, Owned

(* The only steps that move a repair's status. *)
LEMMA StatusSteps ==
  ASSUME [Next]_vars
  PROVE  \/ UNCHANGED status
         \/ \E r \in Repairs : \/ Dispatch(r) \/ Claim(r) \/ CancelTombstone(r) \/ CancelDirect(r)
                               \/ CancelMark(r) \/ CancelConfirm(r)
         \/ Refuse \/ Tier1Run \/ Tier1Settle \/ TurnRun \/ Finalize \/ Deduped \/ MarkFailed
  BY ZenonT(40)
  DEF Next, RequestStep, Tier1Step, TurnStep, CancelStep, ProcessStep, vars, LeaseExpires,
      RequestCancel, CancelEnter, CancelRead, CancelAgain, CancelTeardown, CancelResidual,
      CancelRevoke, CancelAbandon, CancelUnconfirmed, CancelThrows, FetchCapability, Freeze,
      PostAck, RequestFails, RenewLease, EnterLock, AcceptOpcode, Tier1Receipt, Tier1Claim,
      Transmit, Tier1Store, CloneReady, CloneFails, OpenSession, AbandonTurn, Reopen, Enqueue,
      ClaimTurn, Submit, StartTurn, EndTurn, LoseTurn, SettleExecution, Report, WorkerThrows,
      Crash, Restart, BeginShutdown, StopWorker, ShutDownRunners, rowVars, tierVars, turnVars,
      workVars, procVars, toldVars

(* The steps of the worker that move it are guarded by what the status is. *)
LEMMA WorkerCas ==
  ASSUME TypeOK, Owned,
         Refuse \/ Tier1Run \/ Tier1Settle \/ TurnRun \/ Finalize \/ Deduped \/ MarkFailed
  PROVE  /\ job \in Repairs /\ pc \notin {"idle", "report"}
         /\ \E from \in SUBSET Executable, to \in {"running", "succeeded", "failed"} : Cas(job, from, to)
<1>1. job \in Repairs /\ pc \notin {"idle", "report"}
  BY JobTyped DEF Refuse, Tier1Run, Tier1Settle, TurnRun, Finalize, Deduped, MarkFailed
<1>2. \E from \in SUBSET Executable, to \in {"running", "succeeded", "failed"} : Cas(job, from, to)
  BY DEF Refuse, Tier1Run, Tier1Settle, TurnRun, Finalize, Deduped, MarkFailed, Terminalize,
         SettleJob, Executable
<1>3. QED
  BY <1>1, <1>2

(* A repair's status moves one repair at a time, along the diagram: whatever
   ends stays ended, and only the worker that has the repair ends it other
   than by a cancel. *)
LEMMA StatusMoves ==
  ASSUME TypeOK, Owned, [Next]_vars, NEW r \in Repairs, status'[r] # status[r]
  PROVE  /\ \A q \in Repairs \ {r} : status'[q] = status[q]
         /\ \/ status[r] = "absent" /\ status'[r] \in {"received", "cancelled"}
            \/ status[r] = "received" /\ status'[r] \in {"starting", "cancelling", "cancelled"}
            \/ status[r] \in Executable /\ status'[r] \in {"starting", "running", "cancelling", "cancelled"}
            \/ status[r] = "cancelling" /\ status'[r] = "cancelled"
            \/ /\ status[r] \in Executable /\ status'[r] \in {"succeeded", "failed"}
               /\ r = job /\ pc \notin {"idle", "report"}
<1> USE DEF TypeOK, RowsTyped, Executable
<1>1. ASSUME NEW q \in Repairs, Dispatch(q) \/ Claim(q) PROVE r = q
  BY <1>1 DEF Dispatch, Claim
<1>2. ASSUME NEW q \in Repairs,
             \/ CancelTombstone(q) \/ CancelDirect(q) \/ CancelMark(q) \/ CancelConfirm(q)
      PROVE  r = q
  BY <1>2 DEF CancelTombstone, CancelDirect, CancelMark, CancelConfirm, Cas, CasWins
<1>3. CASE \E q \in Repairs : Dispatch(q) \/ Claim(q)
  BY <1>1, <1>3 DEF Dispatch, Claim, Claimable
<1>4. CASE \E q \in Repairs : \/ CancelTombstone(q) \/ CancelDirect(q) \/ CancelMark(q)
                              \/ CancelConfirm(q)
  <2>1. PICK q \in Repairs : \/ CancelTombstone(q) \/ CancelDirect(q) \/ CancelMark(q)
                             \/ CancelConfirm(q)
    BY <1>4
  <2>2. r = q
    BY <1>2, <2>1
  <2>3. CASE CancelTombstone(q)
    BY <2>2, <2>3 DEF CancelTombstone, Cas, CasWins
  <2>4. CASE CancelDirect(q)
    BY <2>2, <2>4 DEF CancelDirect, Cas, CasWins
  <2>5. CASE CancelMark(q)
    BY <2>2, <2>5 DEF CancelMark, Cas, CasWins
  <2>6. CASE CancelConfirm(q)
    BY <2>2, <2>6 DEF CancelConfirm, Cas, CasWins
  <2>7. QED
    BY <2>1, <2>3, <2>4, <2>5, <2>6
<1>5. CASE Refuse \/ Tier1Run \/ Tier1Settle \/ TurnRun \/ Finalize \/ Deduped \/ MarkFailed
  <2>1. job \in Repairs /\ pc \notin {"idle", "report"}
    BY <1>5, WorkerCas
  <2>2. PICK from \in SUBSET Executable, to \in {"running", "succeeded", "failed"} : Cas(job, from, to)
    BY <1>5, WorkerCas
  <2>3. status[job] \in Executable /\ status' = [status EXCEPT ![job] = to]
    BY <2>2 DEF Cas, CasWins
  <2>4. r = job /\ status'[r] = to /\ \A q \in Repairs \ {r} : status'[q] = status[q]
    BY <2>1, <2>3
  <2>5. QED
    BY <2>1, <2>2, <2>3, <2>4
<1> HIDE DEF TypeOK, RowsTyped, Executable
<1>6. QED
  BY <1>3, <1>4, <1>5, StatusSteps

(* Every step keeps the rows of jobs and callbacks typed. *)
LEMMA RowsStep ==
  ASSUME TypeOK, Owned, [Next]_vars
  PROVE  RowsTyped'
<1> USE DEF TypeOK, RowsTyped
<1>1. status' \in [Repairs -> Status]
  <2>1. CASE \E r \in Repairs : \/ Dispatch(r) \/ Claim(r) \/ CancelTombstone(r)
                                \/ CancelDirect(r) \/ CancelMark(r) \/ CancelConfirm(r)
    <3>1. PICK r \in Repairs : \/ Dispatch(r) \/ Claim(r) \/ CancelTombstone(r)
                               \/ CancelDirect(r) \/ CancelMark(r) \/ CancelConfirm(r)
      BY <2>1
    <3>2. CASE Dispatch(r) \/ Claim(r)
      BY <3>2 DEF Dispatch, Claim, Cas, Status, Executable, Ended
    <3>3. CASE CancelTombstone(r) \/ CancelDirect(r)
      BY <3>3 DEF CancelTombstone, CancelDirect, Cas, Status, Executable, Ended
    <3>4. CASE CancelMark(r) \/ CancelConfirm(r)
      BY <3>4 DEF CancelMark, CancelConfirm, Cas, Status, Executable, Ended
    <3>5. QED
      BY <3>1, <3>2, <3>3, <3>4
  <2>2. CASE Refuse \/ Tier1Run \/ Tier1Settle \/ TurnRun \/ Finalize \/ Deduped \/ MarkFailed
    <3>1. PICK from \in SUBSET Executable, to \in {"running", "succeeded", "failed"} :
            Cas(job, from, to)
      BY <2>2, WorkerCas
    <3>2. QED
      BY <3>1 DEF Cas, Status, Executable, Ended
  <2>3. QED
    BY <2>1, <2>2, StatusSteps
<1>2. lease' \in [Repairs -> {"none", "mine", "dead"}]
  <2>1. ASSUME NEW r \in Repairs, Claim(r) \/ LeaseExpires(r)
        PROVE  lease' \in [Repairs -> {"none", "mine", "dead"}]
    BY <2>1 DEF Claim, LeaseExpires
  <2>2. CASE RenewLease
    BY <2>2 DEF RenewLease
  <2>3. CASE Crash \/ StopWorker
    BY <2>3 DEF Crash, StopWorker
  <2>4. QED
    <3>1. CASE \E r \in Repairs : \/ Dispatch(r) \/ Claim(r) \/ LeaseExpires(r) \/ RequestCancel(r)
                                  \/ CancelEnter(r) \/ CancelUnconfirmed(r) \/ CancelThrows(r)
      BY <2>1, <2>2, <2>3, <3>1
      DEF Dispatch, RequestCancel, CancelEnter, CancelUnconfirmed, CancelThrows, SettleJob,
          Terminalize, Cas, Answer, CancelAt, Unlock, Teardown, rowVars, tierVars, turnVars,
          workVars, procVars, toldVars
    <3>2. CASE \E r \in Repairs : CancelStep(r)
      BY <2>1, <2>2, <2>3, <3>2
      DEF CancelStep, CancelRead, CancelAgain, CancelTombstone, CancelDirect, CancelMark,
          CancelTeardown, CancelConfirm, CancelResidual, CancelRevoke, CancelAbandon, SettleJob,
          Terminalize, Cas, Answer, CancelAt, Unlock, Teardown, rowVars, tierVars, turnVars,
          workVars, procVars, toldVars
    <3>3. CASE RequestStep \/ RequestFails \/ RenewLease \/ EnterLock \/ Tier1Step
      BY <2>1, <2>2, <2>3, <3>3
      DEF RequestStep, FetchCapability, Freeze, PostAck, RequestFails, EnterLock, Tier1Step, Refuse,
          AcceptOpcode, Tier1Run, Tier1Receipt, Tier1Claim, Transmit, Tier1Store, Tier1Settle,
          SettleJob, Terminalize, Cas, Answer, CancelAt, Unlock, Teardown, rowVars, tierVars,
          turnVars, workVars, procVars, toldVars
    <3>4. CASE TurnStep \/ WorkerThrows
      BY <2>1, <2>2, <2>3, <3>4
      DEF TurnStep, WorkerThrows, CloneReady, CloneFails, OpenSession, TurnRun, AbandonTurn, Reopen,
          Enqueue, ClaimTurn, Submit, StartTurn, EndTurn, LoseTurn, SettleExecution, Finalize,
          Deduped, MarkFailed, Report, SettleJob, Terminalize, Cas, Answer, CancelAt, Unlock,
          Teardown, rowVars, tierVars, turnVars, workVars, procVars, toldVars
    <3>5. CASE ProcessStep \/ UNCHANGED vars
      BY <2>1, <2>2, <2>3, <3>5
      DEF ProcessStep, Restart, BeginShutdown, ShutDownRunners, vars, SettleJob, Terminalize, Cas,
          Answer, CancelAt, Unlock, Teardown, rowVars, tierVars, turnVars, workVars, procVars,
          toldVars
    <3>6. QED
      BY <3>1, <3>2, <3>3, <3>4, <3>5 DEF Next
<1>3. routing' \in [Repairs -> Route \cup {"none"}]
  <2>1. ASSUME NEW c \in Route, Freeze(c) PROVE routing' \in [Repairs -> Route \cup {"none"}]
    BY <2>1 DEF Freeze
  <2>2. QED
    <3>1. CASE \E r \in Repairs : \/ Dispatch(r) \/ Claim(r) \/ LeaseExpires(r) \/ RequestCancel(r)
                                  \/ CancelEnter(r) \/ CancelUnconfirmed(r) \/ CancelThrows(r)
      BY <2>1, <3>1
      DEF Dispatch, Claim, LeaseExpires, RequestCancel, CancelEnter, CancelUnconfirmed,
          CancelThrows, SettleJob, Terminalize, Cas, Answer, CancelAt, Unlock, Teardown, rowVars,
          tierVars, turnVars, workVars, procVars, toldVars
    <3>2. CASE \E r \in Repairs : CancelStep(r)
      BY <2>1, <3>2
      DEF CancelStep, CancelRead, CancelAgain, CancelTombstone, CancelDirect, CancelMark,
          CancelTeardown, CancelConfirm, CancelResidual, CancelRevoke, CancelAbandon, SettleJob,
          Terminalize, Cas, Answer, CancelAt, Unlock, Teardown, rowVars, tierVars, turnVars,
          workVars, procVars, toldVars
    <3>3. CASE RequestStep \/ RequestFails \/ RenewLease \/ EnterLock \/ Tier1Step
      BY <2>1, <3>3
      DEF RequestStep, FetchCapability, PostAck, RequestFails, RenewLease, EnterLock, Tier1Step,
          Refuse, AcceptOpcode, Tier1Run, Tier1Receipt, Tier1Claim, Transmit, Tier1Store,
          Tier1Settle, SettleJob, Terminalize, Cas, Answer, CancelAt, Unlock, Teardown, rowVars,
          tierVars, turnVars, workVars, procVars, toldVars
    <3>4. CASE TurnStep \/ WorkerThrows
      BY <2>1, <3>4
      DEF TurnStep, WorkerThrows, CloneReady, CloneFails, OpenSession, TurnRun, AbandonTurn, Reopen,
          Enqueue, ClaimTurn, Submit, StartTurn, EndTurn, LoseTurn, SettleExecution, Finalize,
          Deduped, MarkFailed, Report, SettleJob, Terminalize, Cas, Answer, CancelAt, Unlock,
          Teardown, rowVars, tierVars, turnVars, workVars, procVars, toldVars
    <3>5. CASE ProcessStep \/ UNCHANGED vars
      BY <2>1, <3>5
      DEF ProcessStep, Crash, Restart, BeginShutdown, StopWorker, ShutDownRunners, vars, SettleJob,
          Terminalize, Cas, Answer, CancelAt, Unlock, Teardown, rowVars, tierVars, turnVars,
          workVars, procVars, toldVars
    <3>6. QED
      BY <3>1, <3>2, <3>3, <3>4, <3>5 DEF Next
<1>4. revoked' \in [Repairs -> BOOLEAN]
  <2>1. ASSUME NEW r \in Repairs, CancelRevoke(r) PROVE revoked' \in [Repairs -> BOOLEAN]
    BY <2>1 DEF CancelRevoke
  <2>2. QED
    <3>1. CASE \E r \in Repairs : \/ Dispatch(r) \/ Claim(r) \/ LeaseExpires(r) \/ RequestCancel(r)
                                  \/ CancelEnter(r) \/ CancelUnconfirmed(r) \/ CancelThrows(r)
      BY <2>1, <3>1
      DEF Dispatch, Claim, LeaseExpires, RequestCancel, CancelEnter, CancelUnconfirmed,
          CancelThrows, SettleJob, Terminalize, Cas, Answer, CancelAt, Unlock, Teardown, rowVars,
          tierVars, turnVars, workVars, procVars, toldVars
    <3>2. CASE \E r \in Repairs : CancelStep(r)
      BY <2>1, <3>2
      DEF CancelStep, CancelRead, CancelAgain, CancelTombstone, CancelDirect, CancelMark,
          CancelTeardown, CancelConfirm, CancelResidual, CancelAbandon, SettleJob, Terminalize, Cas,
          Answer, CancelAt, Unlock, Teardown, rowVars, tierVars, turnVars, workVars, procVars,
          toldVars
    <3>3. CASE RequestStep \/ RequestFails \/ RenewLease \/ EnterLock \/ Tier1Step
      BY <2>1, <3>3
      DEF RequestStep, FetchCapability, Freeze, PostAck, RequestFails, RenewLease, EnterLock,
          Tier1Step, Refuse, AcceptOpcode, Tier1Run, Tier1Receipt, Tier1Claim, Transmit, Tier1Store,
          Tier1Settle, SettleJob, Terminalize, Cas, Answer, CancelAt, Unlock, Teardown, rowVars,
          tierVars, turnVars, workVars, procVars, toldVars
    <3>4. CASE TurnStep \/ WorkerThrows
      BY <2>1, <3>4
      DEF TurnStep, WorkerThrows, CloneReady, CloneFails, OpenSession, TurnRun, AbandonTurn, Reopen,
          Enqueue, ClaimTurn, Submit, StartTurn, EndTurn, LoseTurn, SettleExecution, Finalize,
          Deduped, MarkFailed, Report, SettleJob, Terminalize, Cas, Answer, CancelAt, Unlock,
          Teardown, rowVars, tierVars, turnVars, workVars, procVars, toldVars
    <3>5. CASE ProcessStep \/ UNCHANGED vars
      BY <2>1, <3>5
      DEF ProcessStep, Crash, Restart, BeginShutdown, StopWorker, ShutDownRunners, vars, SettleJob,
          Terminalize, Cas, Answer, CancelAt, Unlock, Teardown, rowVars, tierVars, turnVars,
          workVars, procVars, toldVars
    <3>6. QED
      BY <3>1, <3>2, <3>3, <3>4, <3>5 DEF Next
<1>5. callback' \in [Repairs -> [Phase -> {"none", "queued", "abandoned"}]]
  <2>1. ASSUME NEW r \in Repairs, CancelAbandon(r)
        PROVE  callback' \in [Repairs -> [Phase -> {"none", "queued", "abandoned"}]]
    BY <2>1 DEF CancelAbandon
  <2>2. CASE Refuse \/ Tier1Settle
    <3>1. job \in Repairs
      BY <2>2, JobTyped DEF Refuse, Tier1Settle
    <3>2. PICK p \in Phase : callback' = callback \/ callback' = [callback EXCEPT ![job][p] = "queued"]
      BY <2>2 DEF Refuse, Tier1Settle, Terminalize, Phase
    <3>3. QED
      BY <3>1, <3>2
  <2>3. QED
    <3>1. CASE \E r \in Repairs : \/ Dispatch(r) \/ Claim(r) \/ LeaseExpires(r) \/ RequestCancel(r)
                                  \/ CancelEnter(r) \/ CancelUnconfirmed(r) \/ CancelThrows(r)
      BY <2>1, <2>2, <3>1
      DEF Dispatch, Claim, LeaseExpires, RequestCancel, CancelEnter, CancelUnconfirmed,
          CancelThrows, SettleJob, Terminalize, Cas, Answer, CancelAt, Unlock, Teardown, rowVars,
          tierVars, turnVars, workVars, procVars, toldVars
    <3>2. CASE \E r \in Repairs : CancelStep(r)
      BY <2>1, <2>2, <3>2
      DEF CancelStep, CancelRead, CancelAgain, CancelTombstone, CancelDirect, CancelMark,
          CancelTeardown, CancelConfirm, CancelResidual, CancelRevoke, SettleJob, Terminalize, Cas,
          Answer, CancelAt, Unlock, Teardown, rowVars, tierVars, turnVars, workVars, procVars,
          toldVars
    <3>3. CASE RequestStep \/ RequestFails \/ RenewLease \/ EnterLock \/ Tier1Step
      BY <2>1, <2>2, <3>3
      DEF RequestStep, FetchCapability, Freeze, PostAck, RequestFails, RenewLease, EnterLock,
          Tier1Step, AcceptOpcode, Tier1Run, Tier1Receipt, Tier1Claim, Transmit, Tier1Store,
          SettleJob, Terminalize, Cas, Answer, CancelAt, Unlock, Teardown, rowVars, tierVars,
          turnVars, workVars, procVars, toldVars
    <3>4. CASE TurnStep \/ WorkerThrows
      BY <2>1, <2>2, <3>4
      DEF TurnStep, WorkerThrows, CloneReady, CloneFails, OpenSession, TurnRun, AbandonTurn, Reopen,
          Enqueue, ClaimTurn, Submit, StartTurn, EndTurn, LoseTurn, SettleExecution, Finalize,
          Deduped, MarkFailed, Report, SettleJob, Terminalize, Cas, Answer, CancelAt, Unlock,
          Teardown, rowVars, tierVars, turnVars, workVars, procVars, toldVars
    <3>5. CASE ProcessStep \/ UNCHANGED vars
      BY <2>1, <2>2, <3>5
      DEF ProcessStep, Crash, Restart, BeginShutdown, StopWorker, ShutDownRunners, vars, SettleJob,
          Terminalize, Cas, Answer, CancelAt, Unlock, Teardown, rowVars, tierVars, turnVars,
          workVars, procVars, toldVars
    <3>6. QED
      BY <3>1, <3>2, <3>3, <3>4, <3>5 DEF Next
<1>6. QED
  BY <1>1, <1>2, <1>3, <1>4, <1>5

(* Every step keeps the Tier1 columns and the traffic to the host typed. *)
LEMMA TierStep ==
  ASSUME TypeOK, Owned, [Next]_vars
  PROVE  TierTyped'
<1> USE DEF TypeOK, TierTyped, WorkTyped
<1>1. CASE Tier1Claim
  BY <1>1 DEF Tier1Claim
<1>2. ASSUME NEW o \in Receipt, Transmit(o) PROVE TierTyped'
  <2>1. sent' = [sent EXCEPT ![job] = sent[job] + 1] /\ UNCHANGED <<claimed, receipt>>
    BY <1>2 DEF Transmit
  <2>2. job \in Repairs
    BY <1>2, JobTyped DEF Transmit
  <2>3. sent' \in [Repairs -> Nat]
    BY <2>1, <2>2
  <2>4. QED
    BY <2>1, <2>3
<1>3. CASE Tier1Store
  BY <1>3 DEF Tier1Store
<1>4. CASE UNCHANGED tierVars
  BY <1>4 DEF tierVars
<1> HIDE DEF TypeOK, TierTyped, WorkTyped
<1>5. QED
  <2>1. CASE \E r \in Repairs : \/ Dispatch(r) \/ Claim(r) \/ LeaseExpires(r) \/ RequestCancel(r)
                                \/ CancelEnter(r) \/ CancelUnconfirmed(r) \/ CancelThrows(r)
    BY <1>1, <1>2, <1>3, <1>4, <2>1
    DEF Dispatch, Claim, LeaseExpires, RequestCancel, CancelEnter, CancelUnconfirmed, CancelThrows,
        SettleJob, Terminalize, Cas, Answer, CancelAt, Unlock, Teardown, rowVars, tierVars,
        turnVars, workVars, procVars, toldVars
  <2>2. CASE \E r \in Repairs : CancelStep(r)
    BY <1>1, <1>2, <1>3, <1>4, <2>2
    DEF CancelStep, CancelRead, CancelAgain, CancelTombstone, CancelDirect, CancelMark,
        CancelTeardown, CancelConfirm, CancelResidual, CancelRevoke, CancelAbandon, SettleJob,
        Terminalize, Cas, Answer, CancelAt, Unlock, Teardown, rowVars, tierVars, turnVars, workVars,
        procVars, toldVars
  <2>3. CASE RequestStep \/ RequestFails \/ RenewLease \/ EnterLock \/ Tier1Step
    BY <1>1, <1>2, <1>3, <1>4, <2>3
    DEF RequestStep, FetchCapability, Freeze, PostAck, RequestFails, RenewLease, EnterLock,
        Tier1Step, Refuse, AcceptOpcode, Tier1Run, Tier1Receipt, Tier1Settle, SettleJob,
        Terminalize, Cas, Answer, CancelAt, Unlock, Teardown, rowVars, tierVars, turnVars, workVars,
        procVars, toldVars
  <2>4. CASE TurnStep \/ WorkerThrows
    BY <1>1, <1>2, <1>3, <1>4, <2>4
    DEF TurnStep, WorkerThrows, CloneReady, CloneFails, OpenSession, TurnRun, AbandonTurn, Reopen,
        Enqueue, ClaimTurn, Submit, StartTurn, EndTurn, LoseTurn, SettleExecution, Finalize,
        Deduped, MarkFailed, Report, SettleJob, Terminalize, Cas, Answer, CancelAt, Unlock,
        Teardown, rowVars, tierVars, turnVars, workVars, procVars, toldVars
  <2>5. CASE ProcessStep \/ UNCHANGED vars
    BY <1>1, <1>2, <1>3, <1>4, <2>5
    DEF ProcessStep, Crash, Restart, BeginShutdown, StopWorker, ShutDownRunners, vars, SettleJob,
        Terminalize, Cas, Answer, CancelAt, Unlock, Teardown, rowVars, tierVars, turnVars, workVars,
        procVars, toldVars
  <2>6. QED
    BY <2>1, <2>2, <2>3, <2>4, <2>5 DEF Next

(* Every step keeps the execution ledger, the queue and the turns typed. *)
LEMMA TurnsStep ==
  ASSUME TypeOK, Owned, [Next]_vars
  PROVE  TurnTyped'
<1> USE DEF TypeOK, TurnTyped
<1>1. CASE UNCHANGED turnVars
  BY <1>1 DEF turnVars
<1>2. CASE AbandonTurn \/ Reopen \/ Enqueue
  BY <1>2 DEF AbandonTurn, Reopen, Enqueue
<1>3. CASE ClaimTurn \/ Submit \/ LoseTurn
  BY <1>3 DEF ClaimTurn, Submit, LoseTurn
<1>9. CASE StartTurn
  BY <1>9, JobTyped DEF StartTurn
<1>4. ASSUME NEW how \in {"ok", "error"}, NEW throws \in BOOLEAN, EndTurn(how, throws)
      PROVE  TurnTyped'
  BY <1>4 DEF EndTurn
<1>5. CASE SettleExecution
  BY <1>5 DEF SettleExecution
<1>6. ASSUME NEW r \in Repairs, CancelTeardown(r) \/ CancelResidual(r) PROVE TurnTyped'
  BY <1>6 DEF CancelTeardown, CancelResidual, Teardown, turnVars
<1>7. CASE Crash \/ ShutDownRunners
  BY <1>7 DEF Crash, ShutDownRunners
<1> HIDE DEF TypeOK, TurnTyped
<1>8. QED
  <2>1. CASE \E r \in Repairs : \/ Dispatch(r) \/ Claim(r) \/ LeaseExpires(r) \/ RequestCancel(r)
                                \/ CancelEnter(r) \/ CancelUnconfirmed(r) \/ CancelThrows(r)
    BY <1>1, <1>2, <1>3, <1>4, <1>5, <1>6, <1>7, <1>9, <2>1
    DEF Dispatch, Claim, LeaseExpires, RequestCancel, CancelEnter, CancelUnconfirmed, CancelThrows,
        SettleJob, Terminalize, Cas, Answer, CancelAt, Unlock, Teardown, rowVars, tierVars,
        turnVars, workVars, procVars, toldVars
  <2>2. CASE \E r \in Repairs : CancelStep(r)
    BY <1>1, <1>2, <1>3, <1>4, <1>5, <1>6, <1>7, <1>9, <2>2
    DEF CancelStep, CancelRead, CancelAgain, CancelTombstone, CancelDirect, CancelMark,
        CancelConfirm, CancelRevoke, CancelAbandon, SettleJob, Terminalize, Cas, Answer, CancelAt,
        Unlock, Teardown, rowVars, tierVars, turnVars, workVars, procVars, toldVars
  <2>3. CASE RequestStep \/ RequestFails \/ RenewLease \/ EnterLock \/ Tier1Step
    BY <1>1, <1>2, <1>3, <1>4, <1>5, <1>6, <1>7, <1>9, <2>3
    DEF RequestStep, FetchCapability, Freeze, PostAck, RequestFails, RenewLease, EnterLock,
        Tier1Step, Refuse, AcceptOpcode, Tier1Run, Tier1Receipt, Tier1Claim, Transmit, Tier1Store,
        Tier1Settle, SettleJob, Terminalize, Cas, Answer, CancelAt, Unlock, Teardown, rowVars,
        tierVars, turnVars, workVars, procVars, toldVars
  <2>4. CASE TurnStep \/ WorkerThrows
    BY <1>1, <1>2, <1>3, <1>4, <1>5, <1>6, <1>7, <1>9, <2>4
    DEF TurnStep, WorkerThrows, CloneReady, CloneFails, OpenSession, TurnRun, Finalize, Deduped,
        MarkFailed, Report, SettleJob, Terminalize, Cas, Answer, CancelAt, Unlock, Teardown,
        rowVars, tierVars, turnVars, workVars, procVars, toldVars
  <2>5. CASE ProcessStep \/ UNCHANGED vars
    BY <1>1, <1>2, <1>3, <1>4, <1>5, <1>6, <1>7, <1>9, <2>5
    DEF ProcessStep, Restart, BeginShutdown, StopWorker, vars, SettleJob, Terminalize, Cas, Answer,
        CancelAt, Unlock, Teardown, rowVars, tierVars, turnVars, workVars, procVars, toldVars
  <2>6. QED
    BY <2>1, <2>2, <2>3, <2>4, <2>5 DEF Next

(* A worker that lets its job go is typed. *)
LEMMA LetGoTyped == LetGo => WorkTyped'
  BY DEF LetGo, WorkTyped, WorkerPc

(* A worker that moves on in its program is typed. *)
LEMMA GotoTyped ==
  ASSUME WorkTyped, NEW p \in WorkerPc, Goto(p)
  PROVE  WorkTyped'
  BY DEF WorkTyped, Goto

(* Every step keeps the worker's memory typed. *)
LEMMA WorkStep ==
  ASSUME TypeOK, Owned, [Next]_vars
  PROVE  WorkTyped'
<1> USE DEF TypeOK
<1>1. CASE UNCHANGED workVars
  BY <1>1 DEF WorkTyped, workVars
<1>2. CASE LetGo
  BY <1>2, LetGoTyped
<1>3. CASE \E p \in WorkerPc : Goto(p)
  BY <1>3, GotoTyped
<1>4. ASSUME NEW r \in Repairs, Claim(r) PROVE WorkTyped'
  BY <1>4 DEF Claim, WorkTyped, WorkerPc
<1>5. ASSUME NEW c \in Route, Freeze(c) PROVE WorkTyped'
  <2>1. routing'[job] \in Route \cup {"none"}
    BY <1>5, RowsStep, JobTyped DEF Freeze, RowsTyped
  <2>2. QED
    BY <1>5, <2>1 DEF Freeze, WorkTyped, WorkerPc
<1>6. CASE Tier1Receipt
  BY <1>6, JobTyped DEF Tier1Receipt, WorkTyped, TierTyped, WorkerPc, InLock
<1>7. CASE Tier1Claim
  BY <1>7 DEF Tier1Claim, WorkTyped, WorkerPc, InLock, Receipt
<1>8. ASSUME NEW o \in Receipt, Transmit(o) PROVE WorkTyped'
  BY <1>8 DEF Transmit, WorkTyped, WorkerPc, InLock
<1>9. CASE Tier1Store
  <2>1. receipt'[job] \in Receipt \cup {"none"}
    BY <1>9, TierStep, JobTyped DEF Tier1Store, TierTyped
  <2>2. QED
    BY <1>9, <2>1 DEF Tier1Store, WorkTyped, WorkerPc, InLock
<1>10. ASSUME NEW how, NEW throws \in BOOLEAN, EndTurn(how, throws) PROVE WorkTyped'
  <2>1. turnError' \in BOOLEAN
    BY <1>10 DEF EndTurn
  <2>2. QED
    BY <1>10, <2>1 DEF EndTurn, WorkTyped, WorkerPc, InPromise, Renewing
<1>11. CASE LoseTurn
  BY <1>11 DEF LoseTurn, WorkTyped, WorkerPc, InPromise, Renewing
<1>12. CASE Finalize \/ Deduped \/ MarkFailed
  <2>1. LetGo \/ Goto("report")
    BY <1>12 DEF Finalize, Deduped, MarkFailed, SettleJob
  <2>2. QED
    BY <1>2, <1>3, <2>1 DEF WorkerPc
<1>13. CASE WorkerThrows
  BY <1>2, <1>3, <1>13 DEF WorkerThrows, Caught, WorkerPc, InPromise, Renewing
<1>14. CASE EnterLock \/ PostAck \/ Submit \/ SettleExecution
  BY <1>3, <1>14 DEF EnterLock, PostAck, Submit, SettleExecution, WorkerPc, InPromise, Renewing,
                     InLock
<1> HIDE DEF TypeOK
<1>15. QED
  <2>1. \A p \in {"freeze", "tier1_lock", "tier1_receipt", "session", "mark_failed", "turn_lock",
                  "reopen", "abandon_turn", "enqueue", "claim_turn", "submit", "deduped", "turn"} :
          p \in WorkerPc
    BY DEF WorkerPc, InPromise, Renewing, InLock
  <2>2. QED
    <3>1. CASE \E r \in Repairs : \/ Dispatch(r) \/ Claim(r) \/ LeaseExpires(r) \/ RequestCancel(r)
                                  \/ CancelEnter(r) \/ CancelUnconfirmed(r) \/ CancelThrows(r)
      BY <2>1, <1>1, <1>2, <1>3, <1>4, <1>5, <1>6, <1>7, <1>8, <1>9, <1>10, <1>11, <1>12, <1>13,
         <1>14, <3>1
      DEF Dispatch, LeaseExpires, RequestCancel, CancelEnter, CancelUnconfirmed, CancelThrows, Cas,
          Answer, CancelAt, Unlock, Teardown, rowVars, tierVars, turnVars, workVars, procVars,
          toldVars
    <3>2. CASE \E r \in Repairs : CancelStep(r)
      BY <2>1, <1>1, <1>2, <1>3, <1>4, <1>5, <1>6, <1>7, <1>8, <1>9, <1>10, <1>11, <1>12, <1>13,
         <1>14, <3>2
      DEF CancelStep, CancelRead, CancelAgain, CancelTombstone, CancelDirect, CancelMark,
          CancelTeardown, CancelConfirm, CancelResidual, CancelRevoke, CancelAbandon, Cas, Answer,
          CancelAt, Unlock, Teardown, rowVars, tierVars, turnVars, workVars, procVars, toldVars
    <3>3. CASE RequestStep \/ RequestFails \/ RenewLease \/ EnterLock \/ Tier1Step
      BY <2>1, <1>1, <1>2, <1>3, <1>4, <1>5, <1>6, <1>7, <1>8, <1>9, <1>10, <1>11, <1>12, <1>13,
         <1>14, <3>3
      DEF RequestStep, FetchCapability, RequestFails, RenewLease, Tier1Step, Refuse, AcceptOpcode,
          Tier1Run, Tier1Settle, Cas, Answer, CancelAt, Unlock, Teardown, rowVars, tierVars,
          turnVars, workVars, procVars, toldVars
    <3>4. CASE TurnStep \/ WorkerThrows
      BY <2>1, <1>1, <1>2, <1>3, <1>4, <1>5, <1>6, <1>7, <1>8, <1>9, <1>10, <1>11, <1>12, <1>13,
         <1>14, <3>4
      DEF TurnStep, CloneReady, CloneFails, OpenSession, TurnRun, AbandonTurn, Reopen, Enqueue,
          ClaimTurn, StartTurn, Report, Cas, Answer, CancelAt, Unlock, Teardown, rowVars, tierVars,
          turnVars, workVars, procVars, toldVars
    <3>5. CASE ProcessStep \/ UNCHANGED vars
      BY <2>1, <1>1, <1>2, <1>3, <1>4, <1>5, <1>6, <1>7, <1>8, <1>9, <1>10, <1>11, <1>12, <1>13,
         <1>14, <3>5
      DEF ProcessStep, Crash, Restart, BeginShutdown, StopWorker, ShutDownRunners, vars, Cas,
          Answer, CancelAt, Unlock, Teardown, rowVars, tierVars, turnVars, workVars, procVars,
          toldVars
    <3>6. QED
      BY <3>1, <3>2, <3>3, <3>4, <3>5 DEF Next

(* Every step keeps the process, its mutexes, sessions and cancels typed. *)
LEMMA ProcStep ==
  ASSUME TypeOK, Owned, [Next]_vars
  PROVE  ProcTyped'
<1> USE DEF TypeOK, ProcTyped
<1>1. CASE UNCHANGED procVars
  BY <1>1 DEF procVars
<1>2. ASSUME NEW r \in Repairs,
             \/ RequestCancel(r) \/ CancelEnter(r) \/ CancelMark(r) \/ CancelRevoke(r)
             \/ CancelTeardown(r) \/ CancelResidual(r)
      PROVE  ProcTyped'
  BY <1>2 DEF RequestCancel, CancelEnter, CancelMark, CancelRevoke, CancelTeardown, CancelResidual,
              CancelAt, Teardown, CancelPc
<1>3. ASSUME NEW r \in Repairs, CancelRead(r) PROVE ProcTyped'
  BY <1>3 DEF CancelRead, CancelAt, CancelPc
<1>4. ASSUME NEW r \in Repairs, NEW t \in BOOLEAN, Answer(r, t), UNCHANGED <<proc, session>>
      PROVE  ProcTyped'
  BY <1>4 DEF Answer, CancelAt, Unlock, CancelPc
<1>5. ASSUME NEW r \in Repairs,
             \/ CancelAgain(r) \/ CancelTombstone(r) \/ CancelDirect(r) \/ CancelConfirm(r)
             \/ CancelAbandon(r) \/ CancelUnconfirmed(r) \/ CancelThrows(r)
      PROVE  ProcTyped'
  <2>1. CASE \E t \in BOOLEAN : Answer(r, t)
    BY <1>4, <1>5, <2>1 DEF CancelAgain, CancelTombstone, CancelDirect, CancelConfirm,
       CancelAbandon, CancelUnconfirmed, CancelThrows
  <2>2. CASE CancelTombstone(r) /\ CancelAt(r, "read") /\ UNCHANGED <<lock, told>>
    BY <2>2 DEF CancelTombstone, CancelAt, CancelPc
  <2>3. (status'[r] = "cancelled") \in BOOLEAN
    OBVIOUS
  <2>4. QED
    BY <1>5, <2>1, <2>2, <2>3 DEF CancelAgain, CancelTombstone, CancelDirect, CancelConfirm,
       CancelAbandon, CancelUnconfirmed, CancelThrows
<1>6. CASE EnterLock \/ Tier1Run \/ Tier1Settle \/ OpenSession \/ TurnRun \/ AbandonTurn
  BY <1>6 DEF EnterLock, Tier1Run, Tier1Settle, OpenSession, TurnRun, AbandonTurn, Unlock
<1>7. CASE WorkerThrows
  BY <1>7 DEF WorkerThrows
<1>8. CASE Restart \/ BeginShutdown \/ StopWorker \/ ShutDownRunners
  <2>1. UNCHANGED <<lock, session, cpc>> /\ proc' \in {"up", "draining", "stopped", "closing"}
    BY <1>8 DEF Restart, BeginShutdown, StopWorker, ShutDownRunners
  <2>2. QED
    BY <2>1
<1>10. CASE Crash
  <2>1. cpc' \in [Repairs -> CancelPc] /\ lock' \in [Repairs -> {"free", "worker", "cancel"}]
    BY <1>10 DEF Crash, CancelPc
  <2>2. session' \in [Repairs -> BOOLEAN] /\ proc' = "down"
    BY <1>10 DEF Crash
  <2>3. QED
    BY <2>1, <2>2
<1> HIDE DEF TypeOK, ProcTyped
<1>9. QED
  BY <1>1, <1>2, <1>3, <1>5, <1>6, <1>7, <1>8, <1>10
  DEF Next, RequestStep, Tier1Step, TurnStep, CancelStep, ProcessStep, vars, Dispatch, Claim,
      LeaseExpires, FetchCapability, Freeze, PostAck, RequestFails, RenewLease, Refuse,
      AcceptOpcode, Tier1Receipt, Tier1Claim, Transmit, Tier1Store, CloneReady, CloneFails,
      Reopen, Enqueue, ClaimTurn, Submit, StartTurn, EndTurn, LoseTurn, SettleExecution, Finalize,
      Deduped, MarkFailed, Report, SettleJob, Terminalize, Cas, Answer, CancelAt, Unlock,
      Teardown, rowVars, tierVars, turnVars, workVars, procVars, toldVars

(* The only steps that tell v5 something. *)
LEMMA ToldSteps ==
  ASSUME [Next]_vars
  PROVE  \/ UNCHANGED toldVars
         \/ \E a \in BOOLEAN : Report(a)
         \/ \E r \in Repairs : \/ CancelAgain(r) \/ CancelTombstone(r) \/ CancelDirect(r)
                               \/ CancelConfirm(r) \/ CancelAbandon(r) \/ CancelUnconfirmed(r)
                               \/ CancelThrows(r)
  BY
  DEF Next, RequestStep, Tier1Step, TurnStep, CancelStep, ProcessStep, vars, Dispatch, Claim,
      LeaseExpires, RequestCancel, CancelEnter, CancelRead, CancelMark, CancelTeardown,
      CancelResidual, CancelRevoke, FetchCapability, Freeze, PostAck, RequestFails, RenewLease,
      EnterLock, Refuse, AcceptOpcode, Tier1Run, Tier1Receipt, Tier1Claim, Transmit, Tier1Store,
      Tier1Settle, CloneReady, CloneFails, OpenSession, TurnRun, AbandonTurn, Reopen, Enqueue,
      ClaimTurn, Submit, StartTurn, EndTurn, LoseTurn, SettleExecution, Finalize, Deduped,
      MarkFailed, WorkerThrows, Crash, Restart, BeginShutdown, StopWorker, ShutDownRunners,
      SettleJob, Terminalize, Cas, Answer, CancelAt, Unlock, Teardown, rowVars, tierVars,
      turnVars, workVars, procVars, toldVars

(* Every step keeps what v5 was told typed. *)
LEMMA ToldStep ==
  ASSUME TypeOK, [Next]_vars
  PROVE  ToldTyped'
<1> USE DEF TypeOK, ToldTyped
<1>1. CASE UNCHANGED toldVars
  BY <1>1 DEF toldVars
<1>2. ASSUME NEW a \in BOOLEAN, Report(a) PROVE ToldTyped'
  BY <1>2 DEF Report
<1>3. ASSUME NEW r \in Repairs, NEW t \in BOOLEAN, Answer(r, t), UNCHANGED reported
      PROVE  ToldTyped'
  BY <1>3 DEF Answer
<1>4. ASSUME NEW r \in Repairs,
             \/ CancelAgain(r) \/ CancelTombstone(r) \/ CancelDirect(r) \/ CancelConfirm(r)
             \/ CancelAbandon(r) \/ CancelUnconfirmed(r) \/ CancelThrows(r)
      PROVE  ToldTyped'
  <2>1. (status'[r] = "cancelled") \in BOOLEAN
    OBVIOUS
  <2>2. QED
    BY <1>1, <1>3, <1>4, <2>1 DEF CancelAgain, CancelTombstone, CancelDirect, CancelConfirm,
       CancelAbandon, CancelUnconfirmed, CancelThrows, toldVars
<1>5. QED
  BY <1>1, <1>2, <1>4, ToldSteps

(* Every step keeps the two bounding counters typed. *)
LEMMA CountersStep ==
  ASSUME TypeOK, [Next]_vars
  PROVE  CountersTyped'
<1> USE DEF TypeOK, CountersTyped
<1>1. CASE UNCHANGED <<crashes, faults>>
  BY <1>1
<1>2. ASSUME NEW r \in Repairs, CancelUnconfirmed(r) \/ CancelThrows(r) PROVE CountersTyped'
  <2>1. faults' = faults + 1 /\ crashes' = crashes
    BY <1>2, Zenon DEF CancelUnconfirmed, CancelThrows
  <2>2. QED
    BY <2>1
<1>3. CASE WorkerThrows \/ Crash \/ BeginShutdown
  <2>1. /\ faults' \in {faults, faults + 1}
        /\ crashes' \in {crashes, crashes + 1}
    BY <1>3 DEF WorkerThrows, Crash, BeginShutdown
  <2>2. QED
    BY <2>1
<1> HIDE DEF TypeOK, CountersTyped
<1>4. QED
  <2>1. CASE \E r \in Repairs : \/ Dispatch(r) \/ Claim(r) \/ LeaseExpires(r) \/ RequestCancel(r)
                                \/ CancelEnter(r) \/ CancelUnconfirmed(r) \/ CancelThrows(r)
    BY <1>1, <1>2, <1>3, <2>1
    DEF Dispatch, Claim, LeaseExpires, RequestCancel, CancelEnter, SettleJob, Terminalize, Cas,
        Answer, CancelAt, Unlock, Teardown, rowVars, tierVars, turnVars, workVars, procVars,
        toldVars
  <2>2. CASE \E r \in Repairs : CancelStep(r)
    BY <1>1, <1>2, <1>3, <2>2
    DEF CancelStep, CancelRead, CancelAgain, CancelTombstone, CancelDirect, CancelMark,
        CancelTeardown, CancelConfirm, CancelResidual, CancelRevoke, CancelAbandon, SettleJob,
        Terminalize, Cas, Answer, CancelAt, Unlock, Teardown, rowVars, tierVars, turnVars, workVars,
        procVars, toldVars
  <2>3. CASE RequestStep \/ RequestFails \/ RenewLease \/ EnterLock \/ Tier1Step
    BY <1>1, <1>2, <1>3, <2>3
    DEF RequestStep, FetchCapability, Freeze, PostAck, RequestFails, RenewLease, EnterLock,
        Tier1Step, Refuse, AcceptOpcode, Tier1Run, Tier1Receipt, Tier1Claim, Transmit, Tier1Store,
        Tier1Settle, SettleJob, Terminalize, Cas, Answer, CancelAt, Unlock, Teardown, rowVars,
        tierVars, turnVars, workVars, procVars, toldVars
  <2>4. CASE TurnStep \/ WorkerThrows
    BY <1>1, <1>2, <1>3, <2>4
    DEF TurnStep, CloneReady, CloneFails, OpenSession, TurnRun, AbandonTurn, Reopen, Enqueue,
        ClaimTurn, Submit, StartTurn, EndTurn, LoseTurn, SettleExecution, Finalize, Deduped,
        MarkFailed, Report, SettleJob, Terminalize, Cas, Answer, CancelAt, Unlock, Teardown,
        rowVars, tierVars, turnVars, workVars, procVars, toldVars
  <2>5. CASE ProcessStep \/ UNCHANGED vars
    BY <1>1, <1>2, <1>3, <2>5
    DEF ProcessStep, Restart, StopWorker, ShutDownRunners, vars, SettleJob, Terminalize, Cas,
        Answer, CancelAt, Unlock, Teardown, rowVars, tierVars, turnVars, workVars, procVars,
        toldVars
  <2>6. QED
    BY <2>1, <2>2, <2>3, <2>4, <2>5 DEF Next

--------------------------------------------------------------------------------
(* Which steps change what. *)

(* Only the freeze writes the routing. *)
LEMMA RoutingSteps ==
  ASSUME [Next]_vars
  PROVE  UNCHANGED routing \/ \E c \in Route : Freeze(c)
<1>1. CASE \E r \in Repairs : \/ Dispatch(r) \/ Claim(r) \/ LeaseExpires(r) \/ RequestCancel(r)
                              \/ CancelEnter(r) \/ CancelUnconfirmed(r) \/ CancelThrows(r)
  BY <1>1
  DEF Dispatch, Claim, LeaseExpires, RequestCancel, CancelEnter, CancelUnconfirmed, CancelThrows,
      SettleJob, Terminalize, Cas, Answer, CancelAt, Unlock, Teardown, rowVars, tierVars, turnVars,
      workVars, procVars, toldVars
<1>2. CASE \E r \in Repairs : CancelStep(r)
  BY <1>2
  DEF CancelStep, CancelRead, CancelAgain, CancelTombstone, CancelDirect, CancelMark,
      CancelTeardown, CancelConfirm, CancelResidual, CancelRevoke, CancelAbandon, SettleJob,
      Terminalize, Cas, Answer, CancelAt, Unlock, Teardown, rowVars, tierVars, turnVars, workVars,
      procVars, toldVars
<1>3. CASE RequestStep \/ RequestFails \/ RenewLease \/ EnterLock \/ Tier1Step
  BY <1>3
  DEF RequestStep, FetchCapability, PostAck, RequestFails, RenewLease, EnterLock, Tier1Step, Refuse,
      AcceptOpcode, Tier1Run, Tier1Receipt, Tier1Claim, Transmit, Tier1Store, Tier1Settle,
      SettleJob, Terminalize, Cas, Answer, CancelAt, Unlock, Teardown, rowVars, tierVars, turnVars,
      workVars, procVars, toldVars
<1>4. CASE TurnStep \/ WorkerThrows
  BY <1>4
  DEF TurnStep, WorkerThrows, CloneReady, CloneFails, OpenSession, TurnRun, AbandonTurn, Reopen,
      Enqueue, ClaimTurn, Submit, StartTurn, EndTurn, LoseTurn, SettleExecution, Finalize, Deduped,
      MarkFailed, Report, SettleJob, Terminalize, Cas, Answer, CancelAt, Unlock, Teardown, rowVars,
      tierVars, turnVars, workVars, procVars, toldVars
<1>5. CASE ProcessStep \/ UNCHANGED vars
  BY <1>5
  DEF ProcessStep, Crash, Restart, BeginShutdown, StopWorker, ShutDownRunners, vars, SettleJob,
      Terminalize, Cas, Answer, CancelAt, Unlock, Teardown, rowVars, tierVars, turnVars, workVars,
      procVars, toldVars
<1>6. QED
  BY <1>1, <1>2, <1>3, <1>4, <1>5 DEF Next

(* Only a Tier1 end queues a callback, only a cancel abandons one. *)
LEMMA CallbackSteps ==
  ASSUME [Next]_vars
  PROVE  UNCHANGED callback \/ Refuse \/ Tier1Settle \/ \E r \in Repairs : CancelAbandon(r)
<1>1. CASE \E r \in Repairs : \/ Dispatch(r) \/ Claim(r) \/ LeaseExpires(r) \/ RequestCancel(r)
                              \/ CancelEnter(r) \/ CancelUnconfirmed(r) \/ CancelThrows(r)
  BY <1>1
  DEF Dispatch, Claim, LeaseExpires, RequestCancel, CancelEnter, CancelUnconfirmed, CancelThrows,
      SettleJob, Terminalize, Cas, Answer, CancelAt, Unlock, Teardown, rowVars, tierVars, turnVars,
      workVars, procVars, toldVars
<1>2. CASE \E r \in Repairs : CancelStep(r)
  BY <1>2
  DEF CancelStep, CancelRead, CancelAgain, CancelTombstone, CancelDirect, CancelMark,
      CancelTeardown, CancelConfirm, CancelResidual, CancelRevoke, SettleJob, Terminalize, Cas,
      Answer, CancelAt, Unlock, Teardown, rowVars, tierVars, turnVars, workVars, procVars, toldVars
<1>3. CASE RequestStep \/ RequestFails \/ RenewLease \/ EnterLock \/ Tier1Step
  BY <1>3
  DEF RequestStep, FetchCapability, Freeze, PostAck, RequestFails, RenewLease, EnterLock, Tier1Step,
      AcceptOpcode, Tier1Run, Tier1Receipt, Tier1Claim, Transmit, Tier1Store, SettleJob,
      Terminalize, Cas, Answer, CancelAt, Unlock, Teardown, rowVars, tierVars, turnVars, workVars,
      procVars, toldVars
<1>4. CASE TurnStep \/ WorkerThrows
  BY <1>4
  DEF TurnStep, WorkerThrows, CloneReady, CloneFails, OpenSession, TurnRun, AbandonTurn, Reopen,
      Enqueue, ClaimTurn, Submit, StartTurn, EndTurn, LoseTurn, SettleExecution, Finalize, Deduped,
      MarkFailed, Report, SettleJob, Terminalize, Cas, Answer, CancelAt, Unlock, Teardown, rowVars,
      tierVars, turnVars, workVars, procVars, toldVars
<1>5. CASE ProcessStep \/ UNCHANGED vars
  BY <1>5
  DEF ProcessStep, Crash, Restart, BeginShutdown, StopWorker, ShutDownRunners, vars, SettleJob,
      Terminalize, Cas, Answer, CancelAt, Unlock, Teardown, rowVars, tierVars, turnVars, workVars,
      procVars, toldVars
<1>6. QED
  BY <1>1, <1>2, <1>3, <1>4, <1>5 DEF Next

(* Only the three steps of a host action change its columns and the host. *)
LEMMA TierSteps ==
  ASSUME [Next]_vars
  PROVE  \/ UNCHANGED tierVars
         \/ Tier1Claim \/ Tier1Store
         \/ \E o \in Receipt : Transmit(o)
<1>1. CASE \E r \in Repairs : \/ Dispatch(r) \/ Claim(r) \/ LeaseExpires(r) \/ RequestCancel(r)
                              \/ CancelEnter(r) \/ CancelUnconfirmed(r) \/ CancelThrows(r)
  BY <1>1
  DEF Dispatch, Claim, LeaseExpires, RequestCancel, CancelEnter, CancelUnconfirmed, CancelThrows,
      SettleJob, Terminalize, Cas, Answer, CancelAt, Unlock, Teardown, rowVars, tierVars, turnVars,
      workVars, procVars, toldVars
<1>2. CASE \E r \in Repairs : CancelStep(r)
  BY <1>2
  DEF CancelStep, CancelRead, CancelAgain, CancelTombstone, CancelDirect, CancelMark,
      CancelTeardown, CancelConfirm, CancelResidual, CancelRevoke, CancelAbandon, SettleJob,
      Terminalize, Cas, Answer, CancelAt, Unlock, Teardown, rowVars, tierVars, turnVars, workVars,
      procVars, toldVars
<1>3. CASE RequestStep \/ RequestFails \/ RenewLease \/ EnterLock \/ Tier1Step
  BY <1>3
  DEF RequestStep, FetchCapability, Freeze, PostAck, RequestFails, RenewLease, EnterLock, Tier1Step,
      Refuse, AcceptOpcode, Tier1Run, Tier1Receipt, Tier1Settle, SettleJob, Terminalize, Cas,
      Answer, CancelAt, Unlock, Teardown, rowVars, tierVars, turnVars, workVars, procVars, toldVars
<1>4. CASE TurnStep \/ WorkerThrows
  BY <1>4
  DEF TurnStep, WorkerThrows, CloneReady, CloneFails, OpenSession, TurnRun, AbandonTurn, Reopen,
      Enqueue, ClaimTurn, Submit, StartTurn, EndTurn, LoseTurn, SettleExecution, Finalize, Deduped,
      MarkFailed, Report, SettleJob, Terminalize, Cas, Answer, CancelAt, Unlock, Teardown, rowVars,
      tierVars, turnVars, workVars, procVars, toldVars
<1>5. CASE ProcessStep \/ UNCHANGED vars
  BY <1>5
  DEF ProcessStep, Crash, Restart, BeginShutdown, StopWorker, ShutDownRunners, vars, SettleJob,
      Terminalize, Cas, Answer, CancelAt, Unlock, Teardown, rowVars, tierVars, turnVars, workVars,
      procVars, toldVars
<1>6. QED
  BY <1>1, <1>2, <1>3, <1>4, <1>5 DEF Next

(* Only the turn's promise changes the ledger and the queue. *)
LEMMA LedgerSteps ==
  ASSUME [Next]_vars
  PROVE  UNCHANGED <<exec, queue>> \/ Reopen \/ Enqueue \/ ClaimTurn \/ SettleExecution
<1>1. CASE \E r \in Repairs : \/ Dispatch(r) \/ Claim(r) \/ LeaseExpires(r) \/ RequestCancel(r)
                              \/ CancelEnter(r) \/ CancelUnconfirmed(r) \/ CancelThrows(r)
  BY <1>1
  DEF Dispatch, Claim, LeaseExpires, RequestCancel, CancelEnter, CancelUnconfirmed, CancelThrows,
      SettleJob, Terminalize, Cas, Answer, CancelAt, Unlock, Teardown, rowVars, tierVars, turnVars,
      workVars, procVars, toldVars
<1>2. CASE \E r \in Repairs : CancelStep(r)
  BY <1>2
  DEF CancelStep, CancelRead, CancelAgain, CancelTombstone, CancelDirect, CancelMark,
      CancelTeardown, CancelConfirm, CancelResidual, CancelRevoke, CancelAbandon, SettleJob,
      Terminalize, Cas, Answer, CancelAt, Unlock, Teardown, rowVars, tierVars, turnVars, workVars,
      procVars, toldVars
<1>3. CASE RequestStep \/ RequestFails \/ RenewLease \/ EnterLock \/ Tier1Step
  BY <1>3
  DEF RequestStep, FetchCapability, Freeze, PostAck, RequestFails, RenewLease, EnterLock, Tier1Step,
      Refuse, AcceptOpcode, Tier1Run, Tier1Receipt, Tier1Claim, Transmit, Tier1Store, Tier1Settle,
      SettleJob, Terminalize, Cas, Answer, CancelAt, Unlock, Teardown, rowVars, tierVars, turnVars,
      workVars, procVars, toldVars
<1>4. CASE TurnStep \/ WorkerThrows
  BY <1>4
  DEF TurnStep, WorkerThrows, CloneReady, CloneFails, OpenSession, TurnRun, AbandonTurn, Submit,
      StartTurn, EndTurn, LoseTurn, Finalize, Deduped, MarkFailed, Report, SettleJob, Terminalize,
      Cas, Answer, CancelAt, Unlock, Teardown, rowVars, tierVars, turnVars, workVars, procVars,
      toldVars
<1>5. CASE ProcessStep \/ UNCHANGED vars
  BY <1>5
  DEF ProcessStep, Crash, Restart, BeginShutdown, StopWorker, ShutDownRunners, vars, SettleJob,
      Terminalize, Cas, Answer, CancelAt, Unlock, Teardown, rowVars, tierVars, turnVars, workVars,
      procVars, toldVars
<1>6. QED
  BY <1>1, <1>2, <1>3, <1>4, <1>5 DEF Next

(* Only the runner starts a turn. *)
LEMMA StartsSteps ==
  ASSUME [Next]_vars
  PROVE  UNCHANGED starts \/ StartTurn
<1>1. CASE \E r \in Repairs : \/ Dispatch(r) \/ Claim(r) \/ LeaseExpires(r) \/ RequestCancel(r)
                              \/ CancelEnter(r) \/ CancelUnconfirmed(r) \/ CancelThrows(r)
  BY <1>1
  DEF Dispatch, Claim, LeaseExpires, RequestCancel, CancelEnter, CancelUnconfirmed, CancelThrows,
      SettleJob, Terminalize, Cas, Answer, CancelAt, Unlock, Teardown, rowVars, tierVars, turnVars,
      workVars, procVars, toldVars
<1>2. CASE \E r \in Repairs : CancelStep(r)
  BY <1>2
  DEF CancelStep, CancelRead, CancelAgain, CancelTombstone, CancelDirect, CancelMark,
      CancelTeardown, CancelConfirm, CancelResidual, CancelRevoke, CancelAbandon, SettleJob,
      Terminalize, Cas, Answer, CancelAt, Unlock, Teardown, rowVars, tierVars, turnVars, workVars,
      procVars, toldVars
<1>3. CASE RequestStep \/ RequestFails \/ RenewLease \/ EnterLock \/ Tier1Step
  BY <1>3
  DEF RequestStep, FetchCapability, Freeze, PostAck, RequestFails, RenewLease, EnterLock, Tier1Step,
      Refuse, AcceptOpcode, Tier1Run, Tier1Receipt, Tier1Claim, Transmit, Tier1Store, Tier1Settle,
      SettleJob, Terminalize, Cas, Answer, CancelAt, Unlock, Teardown, rowVars, tierVars, turnVars,
      workVars, procVars, toldVars
<1>4. CASE TurnStep \/ WorkerThrows
  BY <1>4
  DEF TurnStep, WorkerThrows, CloneReady, CloneFails, OpenSession, TurnRun, AbandonTurn, Reopen,
      Enqueue, ClaimTurn, Submit, EndTurn, LoseTurn, SettleExecution, Finalize, Deduped, MarkFailed,
      Report, SettleJob, Terminalize, Cas, Answer, CancelAt, Unlock, Teardown, rowVars, tierVars,
      turnVars, workVars, procVars, toldVars
<1>5. CASE ProcessStep \/ UNCHANGED vars
  BY <1>5
  DEF ProcessStep, Crash, Restart, BeginShutdown, StopWorker, ShutDownRunners, vars, SettleJob,
      Terminalize, Cas, Answer, CancelAt, Unlock, Teardown, rowVars, tierVars, turnVars, workVars,
      procVars, toldVars
<1>6. QED
  BY <1>1, <1>2, <1>3, <1>4, <1>5 DEF Next

(* Only a cancel revokes a release. *)
LEMMA RevokedSteps ==
  ASSUME [Next]_vars
  PROVE  UNCHANGED revoked \/ \E r \in Repairs : CancelRevoke(r)
<1>1. CASE \E r \in Repairs : \/ Dispatch(r) \/ Claim(r) \/ LeaseExpires(r) \/ RequestCancel(r)
                              \/ CancelEnter(r) \/ CancelUnconfirmed(r) \/ CancelThrows(r)
  BY <1>1
  DEF Dispatch, Claim, LeaseExpires, RequestCancel, CancelEnter, CancelUnconfirmed, CancelThrows,
      SettleJob, Terminalize, Cas, Answer, CancelAt, Unlock, Teardown, rowVars, tierVars, turnVars,
      workVars, procVars, toldVars
<1>2. CASE \E r \in Repairs : CancelStep(r)
  BY <1>2
  DEF CancelStep, CancelRead, CancelAgain, CancelTombstone, CancelDirect, CancelMark,
      CancelTeardown, CancelConfirm, CancelResidual, CancelAbandon, SettleJob, Terminalize, Cas,
      Answer, CancelAt, Unlock, Teardown, rowVars, tierVars, turnVars, workVars, procVars, toldVars
<1>3. CASE RequestStep \/ RequestFails \/ RenewLease \/ EnterLock \/ Tier1Step
  BY <1>3
  DEF RequestStep, FetchCapability, Freeze, PostAck, RequestFails, RenewLease, EnterLock, Tier1Step,
      Refuse, AcceptOpcode, Tier1Run, Tier1Receipt, Tier1Claim, Transmit, Tier1Store, Tier1Settle,
      SettleJob, Terminalize, Cas, Answer, CancelAt, Unlock, Teardown, rowVars, tierVars, turnVars,
      workVars, procVars, toldVars
<1>4. CASE TurnStep \/ WorkerThrows
  BY <1>4
  DEF TurnStep, WorkerThrows, CloneReady, CloneFails, OpenSession, TurnRun, AbandonTurn, Reopen,
      Enqueue, ClaimTurn, Submit, StartTurn, EndTurn, LoseTurn, SettleExecution, Finalize, Deduped,
      MarkFailed, Report, SettleJob, Terminalize, Cas, Answer, CancelAt, Unlock, Teardown, rowVars,
      tierVars, turnVars, workVars, procVars, toldVars
<1>5. CASE ProcessStep \/ UNCHANGED vars
  BY <1>5
  DEF ProcessStep, Crash, Restart, BeginShutdown, StopWorker, ShutDownRunners, vars, SettleJob,
      Terminalize, Cas, Answer, CancelAt, Unlock, Teardown, rowVars, tierVars, turnVars, workVars,
      procVars, toldVars
<1>6. QED
  BY <1>1, <1>2, <1>3, <1>4, <1>5 DEF Next

--------------------------------------------------------------------------------
(* The parts of the invariant. *)

(* Every step keeps the worker's repair its own. *)
LEMMA OwnedStep ==
  ASSUME TypeOK, Owned, [Next]_vars
  PROVE  Owned'
<1> USE RepairAssumption DEF TypeOK, RowsTyped
<1>1. CASE UNCHANGED <<pc, job, status>>
  BY <1>1 DEF Owned
<1>2. CASE LetGo
  BY <1>2 DEF LetGo, Owned
<1>3. CASE /\ pc \notin {"idle", "report"} /\ pc' \notin {"idle", "report"}
           /\ UNCHANGED <<job, status>>
  BY <1>3 DEF Owned
<1>4. ASSUME NEW r \in Repairs, Claim(r) PROVE Owned'
  BY <1>4 DEF Claim, Owned
<1>5. ASSUME NEW r \in Repairs,
             \/ Dispatch(r) \/ CancelTombstone(r) \/ CancelDirect(r) \/ CancelMark(r)
             \/ CancelConfirm(r)
      PROVE  Owned'
  <2>1. UNCHANGED <<pc, job>>
    BY <1>5 DEF Dispatch, CancelTombstone, CancelDirect, CancelMark, CancelConfirm, workVars
  <2>2. \/ status[r] = "absent"
        \/ /\ status[r] \in {"absent", "received", "starting", "running", "cancelling"}
           /\ status' = [status EXCEPT ![r] = "cancelling"] \/ status' = [status EXCEPT ![r] = "cancelled"]
        \/ UNCHANGED status
    BY <1>5 DEF Dispatch, CancelTombstone, CancelDirect, CancelMark, CancelConfirm, Cas, CasWins
  <2>3. status[r] = "absent" => \A q \in Repairs \ {r} : status'[q] = status[q]
    BY <1>5 DEF Dispatch, CancelTombstone, CancelDirect, CancelMark, CancelConfirm, Cas, CasWins
  <2>4. pc = "idle" \/ job \in Repairs
    BY JobTyped
  <2>5. QED
    BY <2>1, <2>2, <2>3, <2>4 DEF Owned
<1>6. CASE Tier1Run \/ TurnRun
  <2>1. pc \notin {"idle", "report"} /\ job \in Repairs
    BY <1>6, JobTyped DEF Tier1Run, TurnRun
  <2>2. LetGo \/ /\ pc' \notin {"idle", "report"} /\ UNCHANGED job
                 /\ status' = status \/ status' = [status EXCEPT ![job] = "running"]
    BY <1>6 DEF Tier1Run, TurnRun, Goto, Cas
  <2>3. QED
    BY <1>2, <2>1, <2>2 DEF Owned
<1>7. CASE Finalize \/ Deduped \/ MarkFailed
  <2>1. job \in Repairs /\ pc # "idle"
    BY <1>7, JobTyped DEF Finalize, Deduped, MarkFailed
  <2>2. LetGo \/ (Goto("report") /\ status' = [status EXCEPT ![job] = "failed"])
    BY <1>7 DEF Finalize, Deduped, MarkFailed, SettleJob, Cas
  <2>3. QED
    BY <1>2, <2>1, <2>2 DEF Owned, Goto
<1>8. CASE WorkerThrows
  BY <1>2, <1>3, <1>8 DEF WorkerThrows, Caught, Goto, rowVars
<1>9. ASSUME NEW how, NEW throws, EndTurn(how, throws) PROVE Owned'
  BY <1>3, <1>9 DEF EndTurn, rowVars
<1> HIDE DEF TypeOK, RowsTyped
<1>10. QED
  <2>1. CASE \E r \in Repairs : \/ Dispatch(r) \/ Claim(r) \/ LeaseExpires(r) \/ RequestCancel(r)
                                \/ CancelEnter(r) \/ CancelUnconfirmed(r) \/ CancelThrows(r)
    BY <1>1, <1>2, <1>3, <1>4, <1>5, <1>6, <1>7, <1>8, <1>9, <2>1
    DEF LeaseExpires, RequestCancel, CancelEnter, CancelUnconfirmed, CancelThrows, Cas, Answer,
        CancelAt, Unlock, Teardown, rowVars, tierVars, turnVars, workVars, procVars, toldVars, Goto
  <2>2. CASE \E r \in Repairs : CancelStep(r)
    BY <1>1, <1>2, <1>3, <1>4, <1>5, <1>6, <1>7, <1>8, <1>9, <2>2
    DEF CancelStep, CancelRead, CancelAgain, CancelTeardown, CancelResidual, CancelRevoke,
        CancelAbandon, Cas, Answer, CancelAt, Unlock, Teardown, rowVars, tierVars, turnVars,
        workVars, procVars, toldVars, Goto
  <2>3. CASE RequestStep \/ RequestFails \/ RenewLease \/ EnterLock \/ Tier1Step
    BY <1>1, <1>2, <1>3, <1>4, <1>5, <1>6, <1>7, <1>8, <1>9, <2>3
    DEF RequestStep, FetchCapability, Freeze, PostAck, RequestFails, RenewLease, EnterLock,
        Tier1Step, Refuse, AcceptOpcode, Tier1Receipt, Tier1Claim, Transmit, Tier1Store,
        Tier1Settle, Cas, Answer, CancelAt, Unlock, Teardown, rowVars, tierVars, turnVars, workVars,
        procVars, toldVars, Goto
  <2>4. CASE TurnStep \/ WorkerThrows
    BY <1>1, <1>2, <1>3, <1>4, <1>5, <1>6, <1>7, <1>8, <1>9, <2>4
    DEF TurnStep, CloneReady, CloneFails, OpenSession, AbandonTurn, Reopen, Enqueue, ClaimTurn,
        Submit, StartTurn, LoseTurn, SettleExecution, Report, Cas, Answer, CancelAt, Unlock,
        Teardown, rowVars, tierVars, turnVars, workVars, procVars, toldVars, Goto
  <2>5. CASE ProcessStep \/ UNCHANGED vars
    BY <1>1, <1>2, <1>3, <1>4, <1>5, <1>6, <1>7, <1>8, <1>9, <2>5
    DEF ProcessStep, Crash, Restart, BeginShutdown, StopWorker, ShutDownRunners, vars, Cas, Answer,
        CancelAt, Unlock, Teardown, rowVars, tierVars, turnVars, workVars, procVars, toldVars, Goto
  <2>6. QED
    BY <2>1, <2>2, <2>3, <2>4, <2>5 DEF Next

(* A cancel that answers leaves the mutex; one that moves on stays in. *)
LEMMA CancelSteps ==
  ASSUME [Next]_vars, NEW r \in Repairs,
         \/ CancelRead(r) \/ CancelAgain(r) \/ CancelTombstone(r) \/ CancelDirect(r)
         \/ CancelMark(r) \/ CancelTeardown(r) \/ CancelConfirm(r) \/ CancelResidual(r)
         \/ CancelRevoke(r) \/ CancelAbandon(r) \/ CancelUnconfirmed(r) \/ CancelThrows(r)
  PROVE  /\ cpc[r] \notin {"idle", "waiting"}
         /\ UNCHANGED <<pc, job>>
         /\ \/ CancelAt(r, "idle") /\ Unlock(r)
            \/ UNCHANGED lock /\ \E p \in CancelPc \ {"idle", "waiting"} : CancelAt(r, p)
<1>1. cpc[r] \notin {"idle", "waiting"} /\ UNCHANGED <<pc, job>>
  BY DEF CancelRead, CancelAgain, CancelTombstone, CancelDirect, CancelMark, CancelTeardown,
     CancelConfirm, CancelResidual, CancelRevoke, CancelAbandon, CancelUnconfirmed, CancelThrows,
     workVars
<1>2. \/ CancelAt(r, "idle") /\ Unlock(r)
      \/ UNCHANGED lock /\ \E p \in CancelPc \ {"idle", "waiting"} : CancelAt(r, p)
  <2>1. CASE \/ CancelRead(r) \/ CancelMark(r) \/ CancelTeardown(r) \/ CancelResidual(r)
             \/ CancelRevoke(r) \/ CancelTombstone(r)
    BY <2>1 DEF CancelRead, CancelMark, CancelTeardown, CancelResidual, CancelRevoke,
       CancelTombstone, CancelPc, Answer
  <2>2. CASE \/ CancelAgain(r) \/ CancelDirect(r) \/ CancelConfirm(r)
             \/ CancelAbandon(r) \/ CancelUnconfirmed(r) \/ CancelThrows(r)
    BY <2>2 DEF CancelAgain, CancelDirect, CancelConfirm, CancelAbandon, CancelUnconfirmed,
       CancelThrows, Answer
  <2>3. QED
    BY <2>1, <2>2
<1>3. QED
  BY <1>1, <1>2

(* Every step keeps the mutex. *)
LEMMA GuardedStep ==
  ASSUME TypeOK, Owned, Guarded, [Next]_vars
  PROVE  Guarded'
<1> USE DEF TypeOK, ProcTyped
<1>1. CASE /\ UNCHANGED <<lock, cpc>>
           /\ pc' \in InLock <=> pc \in InLock
           /\ pc \in InLock => UNCHANGED job
  BY <1>1 DEF Guarded
<1>2. CASE EnterLock
  <2>1. job \in Repairs /\ pc \notin InLock
    BY <1>2, JobTyped DEF EnterLock, InLock
  <2>2. pc' \in InLock /\ job' = job /\ cpc' = cpc /\ lock[job] = "free"
        /\ lock' = [lock EXCEPT ![job] = "worker"]
    BY <1>2 DEF EnterLock, Goto, InLock
  <2>3. QED
    BY <2>1, <2>2 DEF Guarded
<1>3. CASE pc \in InLock /\ pc' \notin InLock /\ Unlock(job) /\ UNCHANGED cpc
  <2>1. job \in Repairs
    BY <1>3, JobTyped DEF InLock
  <2>2. QED
    BY <1>3, <2>1 DEF Guarded, Unlock
<1>4. CASE Tier1Run \/ Tier1Settle \/ TurnRun \/ AbandonTurn \/ WorkerThrows
  <2>1. CASE Tier1Run
    BY <1>1, <1>3, <2>1 DEF Tier1Run, Goto, LetGo, InLock
  <2>2. CASE Tier1Settle
    BY <1>3, <2>2 DEF Tier1Settle, LetGo, InLock
  <2>3. CASE TurnRun
    BY <1>1, <1>3, <2>3 DEF TurnRun, Goto, InLock
  <2>4. CASE AbandonTurn
    BY <1>3, <2>4 DEF AbandonTurn, LetGo, InLock
  <2>5. CASE WorkerThrows
    <3>1. pc' \notin InLock /\ UNCHANGED cpc
      BY <2>5 DEF WorkerThrows, Caught, Goto, LetGo, InLock
    <3>2. QED
      BY <1>1, <1>3, <2>5, <3>1 DEF WorkerThrows, Unlock
  <2>6. QED
    BY <1>4, <2>1, <2>2, <2>3, <2>4, <2>5
<1>5. ASSUME NEW r \in Repairs, RequestCancel(r) \/ CancelEnter(r) PROVE Guarded'
  BY <1>5 DEF RequestCancel, CancelEnter, CancelAt, workVars, Guarded
<1>6. ASSUME NEW r \in Repairs,
             \/ CancelRead(r) \/ CancelAgain(r) \/ CancelTombstone(r) \/ CancelDirect(r)
             \/ CancelMark(r) \/ CancelTeardown(r) \/ CancelConfirm(r) \/ CancelResidual(r)
             \/ CancelRevoke(r) \/ CancelAbandon(r) \/ CancelUnconfirmed(r) \/ CancelThrows(r)
      PROVE  Guarded'
  <2>1. /\ cpc[r] \notin {"idle", "waiting"}
        /\ UNCHANGED <<pc, job>>
        /\ \/ CancelAt(r, "idle") /\ Unlock(r)
           \/ UNCHANGED lock /\ \E p \in CancelPc \ {"idle", "waiting"} : CancelAt(r, p)
    BY <1>6, CancelSteps
  <2>2. QED
    BY <2>1 DEF Guarded, CancelAt, Unlock
<1>7. CASE Crash
  BY <1>7 DEF Crash, LetGo, Guarded, InLock
<1>8. ASSUME NEW how, NEW throws, EndTurn(how, throws) PROVE Guarded'
  BY <1>1, <1>8 DEF EndTurn, procVars, InLock
<1> HIDE DEF TypeOK, ProcTyped
<1>9. QED
  BY <1>1, <1>2, <1>4, <1>5, <1>6, <1>7, <1>8
  DEF Next, RequestStep, Tier1Step, TurnStep, CancelStep, ProcessStep, vars, Dispatch, Claim,
      LeaseExpires, FetchCapability, Freeze, PostAck, RequestFails, RenewLease, Refuse,
      AcceptOpcode, Tier1Receipt, Tier1Claim, Transmit, Tier1Store, CloneReady, CloneFails,
      OpenSession, Reopen, Enqueue, ClaimTurn, Submit, StartTurn, LoseTurn, SettleExecution,
      Finalize, Deduped, MarkFailed, Report, Restart, BeginShutdown, StopWorker, ShutDownRunners,
      SettleJob, Teardown, rowVars, tierVars, turnVars, workVars, procVars, toldVars, Goto, LetGo,
      InLock

(* The worker stays on the route it has read back. *)
LEMMA RoutedWork ==
  ASSUME TypeOK, Owned, Routed, [Next]_vars
  PROVE  /\ pc' \in Tier1Pc => route' = "tier1"
         /\ pc' \in Tier2Pc => route' = "tier2"
         /\ pc' \in {"ack", "dispatch"} => route' # "none"
         /\ pc' = "dispatch" => route' # "tier2"
         /\ pc' \notin {"idle", "capability", "freeze"} => route' = routing'[job']
<1> DEFINE Goal == /\ pc' \in Tier1Pc => route' = "tier1"
                   /\ pc' \in Tier2Pc => route' = "tier2"
                   /\ pc' \in {"ack", "dispatch"} => route' # "none"
                   /\ pc' = "dispatch" => route' # "tier2"
                   /\ pc' \notin {"idle", "capability", "freeze"} => route' = routing'[job']
<1> SUFFICES Goal
  OBVIOUS
<1>1. CASE UNCHANGED <<pc, job, route, routing>>
  BY <1>1 DEF Routed
<1>2. CASE pc' \in {"idle", "capability", "freeze"}
  BY <1>2 DEF Tier1Pc, Tier2Pc, Renewing, InPromise
<1>3. ASSUME UNCHANGED <<job, route, routing>>,
             \/ pc \in Tier1Pc /\ pc' \in Tier1Pc
             \/ pc \in Tier2Pc /\ pc' \in Tier2Pc
      PROVE  Goal
  BY <1>3 DEF Routed, Tier1Pc, Tier2Pc, Renewing, InPromise
<1>4. ASSUME NEW c \in Route, Freeze(c) PROVE Goal
  <2>1. job \in Repairs
    BY <1>4, JobTyped DEF Freeze
  <2>2. routing'[job] # "none"
    BY <1>4, <2>1 DEF Freeze, TypeOK, RowsTyped, Route
  <2>3. QED
    BY <1>4, <2>2 DEF Freeze, Tier1Pc, Tier2Pc, Renewing, InPromise
<1>5. CASE PostAck \/ AcceptOpcode
  BY <1>5 DEF PostAck, AcceptOpcode, Goto, rowVars, Routed, Tier1Pc, Tier2Pc, Renewing, InPromise
<1>6. CASE Finalize \/ Deduped \/ MarkFailed
  <2>1. pc' = "idle" \/ (Goto("report") /\ UNCHANGED routing /\ pc \in Tier2Pc)
    BY <1>6 DEF Finalize, Deduped, MarkFailed, SettleJob, LetGo, Tier2Pc, Renewing, InPromise
  <2>2. QED
    BY <1>2, <1>3, <2>1 DEF Goto, Tier2Pc
<1>7. CASE EnterLock \/ WorkerThrows
  BY <1>2, <1>3, <1>7 DEF EnterLock, WorkerThrows, Caught, Goto, LetGo, rowVars, Tier1Pc, Tier2Pc,
     Renewing, InPromise
<1>8. CASE Tier1Run \/ Tier1Receipt \/ Tier1Claim \/ Tier1Store
  BY <1>2, <1>3, <1>8 DEF Tier1Run, Tier1Receipt, Tier1Claim, Tier1Store, Goto, LetGo, rowVars,
     Tier1Pc
<1>9. ASSUME NEW o, Transmit(o) PROVE Goal
  BY <1>3, <1>9 DEF Transmit, rowVars, Tier1Pc
<1>10. ASSUME NEW how, NEW throws, EndTurn(how, throws) PROVE Goal
  BY <1>3, <1>10 DEF EndTurn, rowVars, Tier2Pc, Renewing, InPromise
<1>11. CASE \/ CloneReady \/ CloneFails \/ OpenSession \/ TurnRun \/ Reopen \/ Enqueue \/ ClaimTurn
            \/ Submit \/ StartTurn \/ LoseTurn \/ SettleExecution
  BY <1>2, <1>3, <1>11 DEF CloneReady, CloneFails, OpenSession, TurnRun, Reopen, Enqueue, ClaimTurn,
     Submit, StartTurn, LoseTurn, SettleExecution, Goto, LetGo, rowVars, Tier2Pc, Renewing,
     InPromise
<1> HIDE DEF Goal
<1>12. QED
  <2>1. CASE \E r \in Repairs : \/ Dispatch(r) \/ Claim(r) \/ LeaseExpires(r) \/ RequestCancel(r)
                                \/ CancelEnter(r) \/ CancelUnconfirmed(r) \/ CancelThrows(r)
    BY <1>1, <1>2, <1>4, <1>5, <1>6, <1>7, <1>8, <1>9, <1>10, <1>11, <2>1
    DEF Dispatch, Claim, LeaseExpires, RequestCancel, CancelEnter, CancelUnconfirmed, CancelThrows,
        Terminalize, Cas, Answer, CancelAt, Unlock, Teardown, rowVars, tierVars, turnVars, workVars,
        procVars, toldVars, Goto, LetGo
  <2>2. CASE \E r \in Repairs : CancelStep(r)
    BY <1>1, <1>2, <1>4, <1>5, <1>6, <1>7, <1>8, <1>9, <1>10, <1>11, <2>2
    DEF CancelStep, CancelRead, CancelAgain, CancelTombstone, CancelDirect, CancelMark,
        CancelTeardown, CancelConfirm, CancelResidual, CancelRevoke, CancelAbandon, Terminalize,
        Cas, Answer, CancelAt, Unlock, Teardown, rowVars, tierVars, turnVars, workVars, procVars,
        toldVars, Goto, LetGo
  <2>3. CASE RequestStep \/ RequestFails \/ RenewLease \/ EnterLock \/ Tier1Step
    BY <1>1, <1>2, <1>4, <1>5, <1>6, <1>7, <1>8, <1>9, <1>10, <1>11, <2>3
    DEF RequestStep, FetchCapability, RequestFails, RenewLease, Tier1Step, Refuse, Tier1Settle,
        Terminalize, Cas, Answer, CancelAt, Unlock, Teardown, rowVars, tierVars, turnVars, workVars,
        procVars, toldVars, Goto, LetGo
  <2>4. CASE TurnStep \/ WorkerThrows
    BY <1>1, <1>2, <1>4, <1>5, <1>6, <1>7, <1>8, <1>9, <1>10, <1>11, <2>4
    DEF TurnStep, AbandonTurn, Report, Terminalize, Cas, Answer, CancelAt, Unlock, Teardown,
        rowVars, tierVars, turnVars, workVars, procVars, toldVars, Goto, LetGo
  <2>5. CASE ProcessStep \/ UNCHANGED vars
    BY <1>1, <1>2, <1>4, <1>5, <1>6, <1>7, <1>8, <1>9, <1>10, <1>11, <2>5
    DEF ProcessStep, Crash, Restart, BeginShutdown, StopWorker, ShutDownRunners, vars, Terminalize,
        Cas, Answer, CancelAt, Unlock, Teardown, rowVars, tierVars, turnVars, workVars, procVars,
        toldVars, Goto, LetGo
  <2>6. QED
    BY <2>1, <2>2, <2>3, <2>4, <2>5 DEF Next

(* A worker's Tier1 and Tier2 steps are those of a repair frozen so. *)
LEMMA RouteOfStep ==
  ASSUME TypeOK, Owned, Routed
  PROVE  /\ pc \in Tier1Pc => job \in Repairs /\ routing[job] = "tier1"
         /\ pc \in Tier2Pc => job \in Repairs /\ routing[job] = "tier2"
         /\ pc = "dispatch" => job \in Repairs /\ routing[job] \in {"tier1", "refused"}
<1>1. pc \in Tier1Pc \cup Tier2Pc \cup {"dispatch"} => pc \notin {"idle", "capability", "freeze"}
  BY DEF Tier1Pc, Tier2Pc, Renewing, InPromise
<1>2. pc # "idle" => job \in Repairs
  BY JobTyped
<1>3. QED
  BY <1>1, <1>2 DEF Routed, TypeOK, WorkTyped, Route

(* A job ends by itself only over a routing that is frozen. *)
LEMMA EndsRouted ==
  ASSUME TypeOK, Owned, Routed, [Next]_vars, NEW r \in Repairs, status'[r] # status[r],
         status'[r] \in {"succeeded", "failed"}
  PROVE  /\ r = job /\ UNCHANGED routing
         /\ \/ Refuse /\ routing[r] = "refused"
            \/ Tier1Settle /\ routing[r] = "tier1"
            \/ (Finalize \/ Deduped \/ MarkFailed) /\ routing[r] = "tier2"
<1>1. r = job
  BY StatusMoves
<1>2. \/ Refuse \/ Tier1Settle \/ Finalize \/ Deduped \/ MarkFailed
  <2>1. ASSUME NEW q \in Repairs,
               \/ Dispatch(q) \/ Claim(q) \/ CancelTombstone(q) \/ CancelDirect(q) \/ CancelMark(q)
               \/ CancelConfirm(q)
        PROVE  FALSE
    BY <2>1 DEF Dispatch, Claim, CancelTombstone, CancelDirect, CancelMark, CancelConfirm, Cas,
                TypeOK, RowsTyped
  <2>2. ASSUME Tier1Run \/ TurnRun PROVE FALSE
    BY <2>2 DEF Tier1Run, TurnRun, Cas, TypeOK, RowsTyped
  <2>3. QED
    BY <2>1, <2>2, StatusSteps
<1>3. UNCHANGED routing
  BY <1>2 DEF Refuse, Tier1Settle, Finalize, Deduped, MarkFailed, SettleJob
<1>4. Refuse => routing[job] = "refused"
  BY DEF Refuse, Routed
<1>5. Tier1Settle => routing[job] = "tier1"
  BY RouteOfStep DEF Tier1Settle, Tier1Pc
<1>6. Finalize \/ Deduped \/ MarkFailed => routing[job] = "tier2"
  BY RouteOfStep DEF Finalize, Deduped, MarkFailed, Tier2Pc, Renewing
<1>7. QED
  BY <1>1, <1>2, <1>3, <1>4, <1>5, <1>6

(* Every step leaves its traces on the repair's own route. *)
LEMMA RoutedStep ==
  ASSUME TypeOK, Owned, Routed, [Next]_vars
  PROVE  Routed'
<1> USE DEF TypeOK, RowsTyped, TierTyped, TurnTyped
<1>1. ASSUME NEW r \in Repairs
      PROVE  /\ claimed'[r] => routing'[r] = "tier1"
             /\ exec'[r] # "none" \/ starts'[r] > 0 => routing'[r] = "tier2"
  <2>1. routing[r] # "none" => routing'[r] = routing[r]
    BY RoutingSteps DEF Freeze
  <2>2. claimed'[r] => routing[r] = "tier1"
    <3>1. CASE UNCHANGED claimed
      BY <3>1 DEF Routed
    <3>2. CASE Tier1Claim
      BY <3>2, RouteOfStep DEF Tier1Claim, Tier1Pc, Routed
    <3>3. QED
      BY <3>1, <3>2, TierSteps DEF Tier1Store, Transmit, tierVars
  <2>3. exec'[r] # "none" => routing[r] = "tier2"
    <3>1. CASE UNCHANGED exec
      BY <3>1 DEF Routed
    <3>2. CASE Reopen \/ Enqueue \/ ClaimTurn \/ SettleExecution
      <4>1. pc \in Tier2Pc /\ \A q \in Repairs \ {job} : exec'[q] = exec[q]
        BY <3>2 DEF Reopen, Enqueue, ClaimTurn, SettleExecution, Tier2Pc, Renewing, InPromise
      <4>2. QED
        BY <4>1, RouteOfStep DEF Routed
    <3>3. QED
      BY <3>1, <3>2, LedgerSteps
  <2>4. starts'[r] > 0 => routing[r] = "tier2"
    <3>1. CASE StartTurn
      <4>1. pc \in Tier2Pc /\ \A q \in Repairs \ {job} : starts'[q] = starts[q]
        BY <3>1 DEF StartTurn, Tier2Pc, Renewing, InPromise
      <4>2. QED
        BY <4>1, RouteOfStep DEF Routed
    <3>2. QED
      BY <3>1, StartsSteps DEF Routed
  <2>5. QED
    BY <2>1, <2>2, <2>3, <2>4
<1>2. ASSUME NEW r \in Repairs, routing'[r] = "none"
      PROVE  status'[r] \notin {"succeeded", "failed"}
  <2>1. routing[r] = "none"
    BY <1>2, RoutingSteps DEF Freeze
  <2>2. QED
    BY <1>2, <2>1, EndsRouted DEF Routed
<1>3. ASSUME NEW r \in Repairs, routing'[r] \in {"none", "tier2"}, NEW p \in Phase
      PROVE  callback'[r][p] = "none"
  <2>1. routing[r] \in {"none", "tier2"}
    BY <1>3, RoutingSteps DEF Freeze
  <2>2. callback[r][p] = "none"
    BY <2>1 DEF Routed
  <2>3. CASE UNCHANGED callback
    BY <2>2, <2>3
  <2>4. ASSUME NEW q \in Repairs, CancelAbandon(q) PROVE callback'[r][p] = "none"
    BY <2>2, <2>4 DEF CancelAbandon
  <2>5. CASE Refuse \/ Tier1Settle
    <3>1. job \in Repairs /\ r # job
      BY <2>1, <2>5, RouteOfStep DEF Refuse, Tier1Settle, Routed, Tier1Pc
    <3>2. callback'[r] = callback[r]
      BY <2>5, <3>1 DEF Refuse, Tier1Settle, Terminalize
    <3>3. QED
      BY <2>2, <3>2
  <2>6. QED
    BY <2>3, <2>4, <2>5, CallbackSteps
<1> HIDE DEF TypeOK, RowsTyped, TierTyped, TurnTyped
<1>4. QED
  BY <1>1, <1>2, <1>3, RoutedWork DEF Routed

(* While the worker is inside the mutex, no other step moves its repair. *)
LEMMA HeldStill ==
  ASSUME TypeOK, Owned, Guarded, [Next]_vars, pc \in InLock, status'[job] # status[job]
  PROVE  Tier1Run \/ Tier1Settle \/ TurnRun
<1>1. job \in Repairs /\ lock[job] = "worker" /\ cpc[job] \in {"idle", "waiting"}
  BY JobTyped DEF Guarded, InLock
<1>2. ASSUME NEW q \in Repairs, CancelTombstone(q) \/ CancelDirect(q) \/ CancelMark(q) \/ CancelConfirm(q)
      PROVE  FALSE
  <2>1. q # job
    BY <1>1, <1>2 DEF CancelTombstone, CancelDirect, CancelMark, CancelConfirm
  <2>2. QED
    BY <1>1, <1>2, <2>1 DEF CancelTombstone, CancelDirect, CancelMark, CancelConfirm, Cas,
       TypeOK, RowsTyped
<1>3. ASSUME NEW q \in Repairs, Dispatch(q) \/ Claim(q) PROVE FALSE
  BY <1>1, <1>3 DEF Dispatch, Claim, InLock, Owned, TypeOK, RowsTyped
<1>4. ~(Refuse \/ Finalize \/ Deduped \/ MarkFailed)
  BY DEF Refuse, Finalize, Deduped, MarkFailed, InLock
<1>5. QED
  BY <1>2, <1>3, <1>4, StatusSteps


(* Only the worker's own steps, and the end of the process, move it. *)
LEMMA WorkerSteps ==
  ASSUME [Next]_vars
  PROVE  \/ UNCHANGED <<workVars, tierVars>>
         \/ (\E r \in Repairs : Claim(r)) \/ RequestStep \/ RequestFails \/ EnterLock
         \/ Tier1Step \/ TurnStep \/ WorkerThrows \/ Crash
<1>1. CASE \E r \in Repairs : \/ Dispatch(r) \/ Claim(r) \/ LeaseExpires(r) \/ RequestCancel(r)
                              \/ CancelEnter(r) \/ CancelUnconfirmed(r) \/ CancelThrows(r)
  BY <1>1
  DEF Dispatch, LeaseExpires, RequestCancel, CancelEnter, CancelUnconfirmed, CancelThrows, rowVars,
      tierVars, turnVars, procVars, toldVars
<1>2. CASE \E r \in Repairs : CancelStep(r)
  BY ZenonT(40), <1>2
  DEF CancelStep, CancelRead, CancelAgain, CancelTombstone, CancelDirect, CancelMark,
      CancelTeardown, CancelConfirm, CancelResidual, CancelRevoke, CancelAbandon, rowVars, tierVars,
      turnVars, procVars, toldVars
<1>3. CASE RequestStep \/ RequestFails \/ RenewLease \/ EnterLock \/ Tier1Step
  BY <1>3
  DEF RenewLease, rowVars, tierVars, turnVars, procVars, toldVars
<1>4. CASE TurnStep \/ WorkerThrows
  BY <1>4
  DEF rowVars, tierVars, turnVars, procVars, toldVars
<1>5. CASE ProcessStep \/ UNCHANGED vars
  BY <1>5
  DEF ProcessStep, Restart, BeginShutdown, StopWorker, ShutDownRunners, vars, rowVars, tierVars,
      turnVars, procVars, toldVars
<1>6. QED
  BY <1>1, <1>2, <1>3, <1>4, <1>5 DEF Next

(* Inside a host action the worker moves on by its own steps only. *)
LEMMA HostActionSteps ==
  ASSUME [Next]_vars,
         pc' \in {"tier1_receipt", "tier1_claim", "tier1_ssh", "tier1_store", "tier1_settle"}
  PROVE  \/ UNCHANGED <<pc, job, outcome, tierVars>>
         \/ Tier1Run \/ Tier1Receipt \/ Tier1Claim \/ Tier1Store
         \/ \E o \in Receipt : Transmit(o)
<1>1. ~TurnStep
  BY DEF TurnStep, CloneReady, CloneFails, OpenSession, TurnRun, AbandonTurn, Reopen, Enqueue,
     ClaimTurn, Submit, StartTurn, EndTurn, LoseTurn, SettleExecution, Finalize, Deduped, MarkFailed,
     Report, SettleJob, Goto, LetGo
<1>2. ~(Refuse \/ AcceptOpcode \/ Tier1Settle)
  BY DEF Refuse, AcceptOpcode, Tier1Settle, Goto, LetGo
<1>3. ~(RequestStep \/ RequestFails \/ EnterLock \/ WorkerThrows \/ Crash \/ \E r \in Repairs : Claim(r))
  BY DEF RequestStep, FetchCapability, Freeze, PostAck, RequestFails, EnterLock, WorkerThrows, Caught,
     Crash, Claim, Goto, LetGo
<1>4. QED
  BY <1>1, <1>2, <1>3, WorkerSteps DEF Tier1Step, workVars

(* Every step keeps the order of pre-claim, opcode and receipt. *)
LEMMA ClaimedStep ==
  ASSUME TypeOK, Owned, Guarded, Claimed, [Next]_vars
  PROVE  Claimed'
<1> USE DEF TypeOK, TierTyped
<1>1. ASSUME NEW q \in Repairs
      PROVE  sent'[q] <= 1 /\ (~claimed'[q] => sent'[q] = 0 /\ receipt'[q] = "none")
  <2>1. CASE UNCHANGED tierVars
    BY <2>1 DEF Claimed, tierVars
  <2>2. CASE Tier1Claim
    BY <2>2 DEF Tier1Claim, Claimed
  <2>3. CASE Tier1Store
    BY <2>3 DEF Tier1Store, Claimed
  <2>4. ASSUME NEW o, Transmit(o)
        PROVE  sent'[q] <= 1 /\ (~claimed'[q] => sent'[q] = 0 /\ receipt'[q] = "none")
    <3>1. claimed[job] /\ sent[job] = 0 /\ job \in Repairs /\ UNCHANGED <<claimed, receipt>>
      BY <2>4, JobTyped DEF Transmit, Claimed
    <3>2. sent' = [sent EXCEPT ![job] = 1]
      BY <2>4, <3>1 DEF Transmit
    <3>3. sent'[q] <= 1
      BY <3>1, <3>2 DEF Claimed
    <3>4. ~claimed'[q] => sent'[q] = 0 /\ receipt'[q] = "none"
      BY <3>1, <3>2 DEF Claimed
    <3>5. QED
      BY <3>3, <3>4
  <2>5. QED
    BY <2>1, <2>2, <2>3, <2>4, TierSteps
<1>2. ASSUME pc' \in {"tier1_receipt", "tier1_claim", "tier1_ssh", "tier1_store", "tier1_settle"}
      PROVE  /\ pc' \in {"tier1_claim", "tier1_ssh"} => receipt'[job'] = "none"
             /\ pc' = "tier1_ssh" => claimed'[job'] /\ sent'[job'] = 0
             /\ pc' = "tier1_store" => claimed'[job'] /\ outcome' # "none"
             /\ pc' = "tier1_settle" => outcome' # "none" /\ outcome' = receipt'[job']
             /\ status'[job'] = "running"
  <2> DEFINE Work == /\ pc' \in {"tier1_claim", "tier1_ssh"} => receipt'[job'] = "none"
                     /\ pc' = "tier1_ssh" => claimed'[job'] /\ sent'[job'] = 0
                     /\ pc' = "tier1_store" => claimed'[job'] /\ outcome' # "none"
                     /\ pc' = "tier1_settle" => outcome' # "none" /\ outcome' = receipt'[job']
  <2>1. CASE UNCHANGED <<pc, job, outcome, tierVars>>
    <3>1. status'[job] = status[job]
      <4>1. ~(Tier1Run \/ Tier1Settle \/ TurnRun)
        BY <1>2, <2>1 DEF Tier1Run, Tier1Settle, TurnRun, Goto, LetGo
      <4>2. QED
        BY <1>2, <2>1, <4>1, HeldStill DEF InLock
    <3>2. QED
      BY <1>2, <2>1, <3>1 DEF Claimed, tierVars, InLock
  <2>2. CASE Tier1Run
    <3>1. job \in Repairs
      BY <2>2, JobTyped DEF Tier1Run
    <3>2. QED
      BY <1>2, <2>2, <3>1 DEF Tier1Run, Goto, LetGo, Cas, RowsTyped
  <2>3. CASE Tier1Receipt
    BY <2>3 DEF Tier1Receipt, Claimed, InLock, rowVars, tierVars
  <2>4. CASE Tier1Claim
    <3>1. job \in Repairs
      BY <2>4, JobTyped DEF Tier1Claim
    <3>2. QED
      BY <2>4, <3>1 DEF Tier1Claim, Claimed, InLock, rowVars
  <2>5. CASE Tier1Store
    <3>1. job \in Repairs
      BY <2>5, JobTyped DEF Tier1Store
    <3>2. QED
      BY <2>5, <3>1 DEF Tier1Store, Claimed, InLock, rowVars
  <2>6. ASSUME NEW o \in Receipt, Transmit(o) PROVE Work /\ status'[job'] = "running"
    BY <2>6 DEF Transmit, Claimed, InLock, rowVars, Receipt
  <2>7. QED
    BY <1>2, <2>1, <2>2, <2>3, <2>4, <2>5, <2>6, HostActionSteps
<1> HIDE DEF TypeOK, TierTyped
<1>3. QED
  BY <1>1, <1>2 DEF Claimed, InLock

(* A turn under way moves on by the steps of its promise only. *)
LEMMA TurnWaySteps ==
  ASSUME [Next]_vars,
         pc' \in {"submit", "starting", "turn", "turn_over", "turn_threw", "finalize"}
  PROVE  \/ UNCHANGED <<pc, job>>
         \/ ClaimTurn \/ Submit \/ StartTurn \/ LoseTurn \/ SettleExecution
         \/ WorkerThrows /\ pc \in {"starting", "turn_over"} /\ pc' = "turn_threw"
         \/ \E how, throws : EndTurn(how, throws)
<1>1. ~Tier1Step
  BY DEF Tier1Step, Refuse, AcceptOpcode, Tier1Run, Tier1Receipt, Tier1Claim, Transmit, Tier1Store,
     Tier1Settle, Goto, LetGo
<1>2. ~(CloneReady \/ CloneFails \/ OpenSession \/ TurnRun \/ AbandonTurn \/ Reopen \/ Enqueue)
  BY DEF CloneReady, CloneFails, OpenSession, TurnRun, AbandonTurn, Reopen, Enqueue, Goto, LetGo
<1>3. ~(Finalize \/ Deduped \/ MarkFailed \/ \E a \in BOOLEAN : Report(a))
  BY DEF Finalize, Deduped, MarkFailed, Report, SettleJob, Goto, LetGo
<1>4. ~(RequestStep \/ RequestFails \/ EnterLock \/ Crash \/ \E r \in Repairs : Claim(r))
  BY DEF RequestStep, FetchCapability, Freeze, PostAck, RequestFails, EnterLock, Crash, Claim, Goto,
     LetGo
<1>5. WorkerThrows => pc \in {"starting", "turn_over"} /\ pc' = "turn_threw"
  BY DEF WorkerThrows, Caught, Goto, LetGo
<1>6. QED
  BY <1>1, <1>2, <1>3, <1>4, <1>5, WorkerSteps DEF TurnStep, workVars

(* Every step keeps the ledger in step with the turn. *)
LEMMA LedgeredStep ==
  ASSUME TypeOK, Owned, Ledgered, [Next]_vars
  PROVE  Ledgered'
<1> USE DEF TypeOK, TurnTyped
<1>6. starts \in [Repairs -> Nat] /\ starts' \in [Repairs -> Nat]
  BY TurnsStep
<1>1. ASSUME NEW q \in Repairs
      PROVE  queue'[q] = "queued" => exec'[q] = "accepted"
  <2>1. CASE UNCHANGED <<exec, queue>>
    BY <2>1 DEF Ledgered
  <2>2. CASE Reopen \/ Enqueue \/ ClaimTurn
    BY <2>2 DEF Reopen, Enqueue, ClaimTurn, Ledgered
  <2>3. CASE SettleExecution
    <3>1. exec[job] = "running" \/ pc = "turn_over" \/ pc = "turn_threw"
      BY <2>3 DEF SettleExecution
    <3>2. exec[job] = "running"
      BY <2>3, <3>1 DEF SettleExecution, Ledgered
    <3>3. QED
      BY <2>3, <3>2 DEF SettleExecution, Ledgered
  <2>4. QED
    BY <2>1, <2>2, <2>3, LedgerSteps
<1>2. ASSUME NEW q \in Repairs
      PROVE  starts'[q] >= starts[q]
  <2>1. CASE StartTurn
    BY <2>1 DEF StartTurn
  <2>2. QED
    BY <2>1, StartsSteps
<1>3. ASSUME NEW q \in Repairs, exec'[q] = "done"
      PROVE  starts'[q] > 0
  <2>1. starts[q] > 0
    <3>1. CASE UNCHANGED <<exec, queue>>
      BY <1>3, <3>1 DEF Ledgered
    <3>2. CASE Reopen \/ Enqueue \/ ClaimTurn
      BY <1>3, <3>2 DEF Reopen, Enqueue, ClaimTurn, Ledgered
    <3>3. CASE SettleExecution
      BY <1>3, <3>3 DEF SettleExecution, Ledgered
    <3>4. QED
      BY <3>1, <3>2, <3>3, LedgerSteps
  <2>2. QED
    BY <1>2, <1>6, <2>1
<1>4. ASSUME pc' \in {"submit", "starting", "turn", "turn_over", "turn_threw", "finalize"}
      PROVE  /\ pc' # "finalize" => exec'[job'] = "running"
             /\ pc' \in {"turn", "turn_over"} => starts'[job'] > 0
             /\ pc' = "finalize" => exec'[job'] = "done"
  <2> DEFINE Way == /\ pc' # "finalize" => exec'[job'] = "running"
                    /\ pc' \in {"turn", "turn_over"} => starts'[job'] > 0
                    /\ pc' = "finalize" => exec'[job'] = "done"
  <2> SUFFICES Way
    OBVIOUS
  <2>1. pc # "idle" => job \in Repairs
    BY JobTyped
  <2>2. CASE UNCHANGED <<pc, job>>
    <3>1. ~(Reopen \/ Enqueue \/ ClaimTurn \/ SettleExecution)
      BY <1>4, <2>2 DEF Reopen, Enqueue, ClaimTurn, SettleExecution, Goto
    <3>2. exec' = exec /\ starts'[job] >= starts[job]
      BY <1>2, <1>4, <2>1, <2>2, <3>1, LedgerSteps
    <3>4. pc \in {"turn", "turn_over"} => starts'[job] > 0
      BY <1>6, <2>1, <3>2 DEF Ledgered
    <3>3. QED
      BY <1>4, <2>2, <3>2, <3>4 DEF Ledgered
  <2>3. CASE ClaimTurn
    BY <1>4, <2>1, <2>3 DEF ClaimTurn, Goto, Ledgered
  <2>4. CASE \/ Submit
             \/ WorkerThrows /\ pc \in {"starting", "turn_over"} /\ pc' = "turn_threw"
    BY <1>4, <2>1, <2>4 DEF Submit, WorkerThrows, Caught, Goto, Ledgered, turnVars
  <2>5. CASE StartTurn
    BY <2>1, <2>5 DEF StartTurn, Goto, Ledgered
  <2>6. CASE LoseTurn
    BY <2>1, <2>6 DEF LoseTurn, Ledgered
  <2>7. ASSUME NEW how, NEW throws, EndTurn(how, throws) PROVE Way
    BY <2>1, <2>7 DEF EndTurn, Ledgered
  <2>8. CASE SettleExecution
    BY <1>4, <2>1, <2>8 DEF SettleExecution, Goto
  <2>9. \/ UNCHANGED <<pc, job>>
        \/ ClaimTurn \/ Submit \/ StartTurn \/ LoseTurn \/ SettleExecution
        \/ WorkerThrows /\ pc \in {"starting", "turn_over"} /\ pc' = "turn_threw"
        \/ \E how, throws : EndTurn(how, throws)
    BY <1>4, TurnWaySteps
  <2>10. QED
    BY <2>2, <2>3, <2>4, <2>5, <2>6, <2>7, <2>8, <2>9
<1> HIDE DEF TypeOK, TurnTyped
<1>5. QED
  BY <1>1, <1>3, <1>4 DEF Ledgered


(* Only a request, a cancel and the end of the process move a cancel. *)
LEMMA CancelCursor ==
  ASSUME [Next]_vars
  PROVE  \/ UNCHANGED cpc
         \/ \E r \in Repairs : \/ RequestCancel(r) \/ CancelEnter(r) \/ CancelStep(r)
                               \/ CancelUnconfirmed(r) \/ CancelThrows(r)
         \/ Crash
  BY
  DEF Next, RequestStep, Tier1Step, TurnStep, ProcessStep, vars, Dispatch, Claim, LeaseExpires,
      FetchCapability, Freeze, PostAck, RequestFails, RenewLease, EnterLock, Refuse, AcceptOpcode,
      Tier1Run, Tier1Receipt, Tier1Claim, Transmit, Tier1Store, Tier1Settle, CloneReady,
      CloneFails, OpenSession, TurnRun, AbandonTurn, Reopen, Enqueue, ClaimTurn, Submit,
      StartTurn, EndTurn, LoseTurn, SettleExecution, Finalize, Deduped, MarkFailed, Report,
      WorkerThrows, Restart, BeginShutdown, StopWorker, ShutDownRunners, SettleJob, rowVars,
      tierVars, turnVars, workVars, procVars, toldVars, SettleJob

(* Only a cancel of its own moves the cancel of a repair towards a revocation. *)
LEMMA CancelPoints ==
  ASSUME TypeOK, [Next]_vars, NEW r \in Repairs, cpc'[r] \in {"residual", "revoke", "abandon"}
  PROVE  cpc'[r] = cpc[r] \/ CancelRead(r) \/ CancelResidual(r) \/ CancelRevoke(r)
<1> USE DEF TypeOK, ProcTyped
<1>1. ASSUME NEW q \in Repairs, CancelRead(q) \/ CancelResidual(q) \/ CancelRevoke(q)
      PROVE  q = r \/ cpc'[r] = cpc[r]
  BY <1>1 DEF CancelRead, CancelResidual, CancelRevoke, CancelAt
<1>2. ASSUME NEW q \in Repairs, NEW p \in {"idle", "waiting", "read", "teardown", "confirm"},
             CancelAt(q, p)
      PROVE  cpc'[r] = cpc[r]
  BY <1>2 DEF CancelAt
<1>3. ASSUME NEW q \in Repairs,
             \/ RequestCancel(q) \/ CancelEnter(q) \/ CancelAgain(q) \/ CancelTombstone(q)
             \/ CancelDirect(q) \/ CancelMark(q) \/ CancelTeardown(q) \/ CancelConfirm(q)
             \/ CancelAbandon(q) \/ CancelUnconfirmed(q) \/ CancelThrows(q)
      PROVE  cpc'[r] = cpc[r]
  BY <1>2, <1>3 DEF RequestCancel, CancelEnter, CancelAgain, CancelTombstone, CancelDirect, CancelMark,
     CancelTeardown, CancelConfirm, CancelAbandon, CancelUnconfirmed, CancelThrows, Answer
<1>4. ~Crash
  BY DEF Crash
<1> HIDE DEF TypeOK, ProcTyped
<1>5. CASE UNCHANGED cpc
  BY <1>5
<1>6. QED
  BY <1>1, <1>3, <1>4, <1>5, CancelCursor DEF CancelStep

(* Every step keeps a cancel that revokes over a repair that has ended. *)
LEMMA RevokingStep ==
  ASSUME TypeOK, Owned, Revoking, [Next]_vars
  PROVE  Revoking'
<1> USE DEF TypeOK, ProcTyped, RowsTyped
<1>1. ASSUME NEW r \in Repairs, cpc'[r] \in {"residual", "revoke", "abandon"}
      PROVE  /\ status'[r] \in {"succeeded", "failed"}
             /\ cpc'[r] = "abandon" => revoked'[r]
  <2>1. status[r] \in {"succeeded", "failed"} => status'[r] = status[r]
    BY StatusMoves DEF Executable
  <2>2. revoked[r] => revoked'[r]
    BY RevokedSteps DEF CancelRevoke
  <2>3. CASE cpc'[r] = cpc[r]
    BY <1>1, <2>1, <2>2, <2>3 DEF Revoking
  <2>4. CASE CancelRead(r)
    BY <1>1, <2>1, <2>4 DEF CancelRead, CancelAt
  <2>5. CASE CancelResidual(r)
    BY <1>1, <2>1, <2>5 DEF CancelResidual, CancelAt, Revoking
  <2>6. CASE CancelRevoke(r)
    BY <1>1, <2>1, <2>6 DEF CancelRevoke, CancelAt, Revoking
  <2>7. QED
    BY <1>1, <2>3, <2>4, <2>5, <2>6, CancelPoints
<1>2. QED
  BY <1>1 DEF Revoking


(* What has ended stays as it is: neither the worker nor a cancel touches the
   status, the receipt, the opcode or the execution of such a repair. *)
LEMMA EndedStill ==
  ASSUME TypeOK, Owned, Routed, Claimed, [Next]_vars, NEW r \in Repairs,
         status[r] \in {"succeeded", "failed"}
  PROVE  /\ status'[r] = status[r] /\ receipt'[r] = receipt[r] /\ sent'[r] = sent[r]
         /\ exec'[r] = exec[r] /\ routing'[r] = routing[r]
<1> USE DEF TypeOK, RowsTyped, TierTyped, TurnTyped
<1>1. status'[r] = status[r]
  BY StatusMoves DEF Executable
<1>2. pc \notin {"idle", "report"} => r # job
  BY DEF Owned
<1>3. routing'[r] = routing[r]
  BY RoutingSteps DEF Freeze, Routed
<1>4. receipt'[r] = receipt[r] /\ sent'[r] = sent[r]
  <2>1. ASSUME NEW o, Transmit(o)
        PROVE  receipt'[r] = receipt[r] /\ sent'[r] = sent[r]
    BY <1>2, <2>1 DEF Transmit
  <2>2. CASE Tier1Claim \/ Tier1Store
    BY <1>2, <2>2 DEF Tier1Claim, Tier1Store
  <2>3. QED
    BY <2>1, <2>2, TierSteps DEF tierVars
<1>5. exec'[r] = exec[r]
  BY <1>2, LedgerSteps DEF Reopen, Enqueue, ClaimTurn, SettleExecution
<1>6. QED
  BY <1>1, <1>3, <1>4, <1>5

(* While a repair has not ended by itself, neither phase of its callbacks comes
   or goes; once it has, neither does. *)
LEMMA CallbackStill ==
  ASSUME TypeOK, Owned, [Next]_vars, NEW r \in Repairs, status'[r] = status[r], NEW p \in Phase
  PROVE  callback'[r][p] = "none" <=> callback[r][p] = "none"
<1> USE DEF TypeOK, RowsTyped
<1>1. CASE UNCHANGED callback
  BY <1>1
<1>2. ASSUME NEW q \in Repairs, CancelAbandon(q)
      PROVE  callback'[r][p] = "none" <=> callback[r][p] = "none"
  BY <1>2 DEF CancelAbandon
<1>3. CASE Refuse \/ Tier1Settle
  <2>1. PICK from \in SUBSET Executable, to \in {"succeeded", "failed"} : Terminalize(job, from, to)
    BY <1>3 DEF Refuse, Tier1Settle, Executable
  <2>2. job \in Repairs
    BY <1>3, JobTyped DEF Refuse, Tier1Settle
  <2>3. CASE r # job
    BY <2>1, <2>2, <2>3 DEF Terminalize
  <2>4. CASE r = job
    <3>1. ~CasWins(job, from)
      BY <2>1, <2>4 DEF Terminalize, Cas, CasWins, Executable
    <3>2. QED
      BY <2>1, <3>1 DEF Terminalize
  <2>5. QED
    BY <2>3, <2>4
<1>4. QED
  BY <1>1, <1>2, <1>3, CallbackSteps

(* Every step keeps the callback, the receipt and the end of a Tier1 repair in
   agreement. *)
LEMMA Tier1AccountedStep ==
  ASSUME TypeOK, Owned, Routed, Claimed, Tier1Accounted, [Next]_vars
  PROVE  Tier1Accounted'
<1> USE DEF TypeOK, RowsTyped
<1> DEFINE Accounted(r) ==
      /\ callback[r]["done"] # "none" <=> status[r] = "succeeded"
      /\ callback[r]["failed"] # "none" <=> status[r] = "failed"
      /\ status[r] = "succeeded" => receipt[r] \in Receipt \ {"rejected"}
      /\ status[r] = "failed" /\ sent[r] > 0 => receipt[r] = "rejected"
<1> SUFFICES ASSUME NEW r \in Repairs, routing'[r] \in {"tier1", "refused"}
             PROVE  Accounted(r)'
  BY DEF Tier1Accounted
<1>1. Accounted(r)
  <2>1. CASE routing[r] \in {"tier1", "refused"}
    BY <2>1 DEF Tier1Accounted
  <2>2. CASE routing[r] = "none"
    BY <2>2 DEF Routed, Phase
  <2>3. routing[r] # "tier2"
    BY RoutingSteps DEF Freeze
  <2>4. QED
    BY <2>1, <2>2, <2>3 DEF Route
<1>2. CASE status'[r] = status[r]
  <2>1. \A p \in Phase : callback'[r][p] = "none" <=> callback[r][p] = "none"
    BY <1>2, CallbackStill
  <2>2. status[r] \in {"succeeded", "failed"} => receipt'[r] = receipt[r] /\ sent'[r] = sent[r]
    BY EndedStill
  <2>3. QED
    BY <1>1, <1>2, <2>1, <2>2 DEF Phase
<1>3. CASE status'[r] # status[r] /\ status'[r] \in {"succeeded", "failed"}
  <2>1. r = job /\ routing'[r] = routing[r] /\ status[r] \in Executable
    BY <1>3, EndsRouted, StatusMoves
  <2>2. callback[r]["done"] = "none" /\ callback[r]["failed"] = "none"
    BY <1>1, <2>1 DEF Executable
  <2>3. CASE Refuse /\ routing[r] = "refused"
    <3>1. sent[r] = 0 /\ sent' = sent
      BY <2>3 DEF Refuse, Routed, Claimed, tierVars
    <3>2. status'[r] = "failed"
      BY <1>3, <2>1, <2>3 DEF Refuse, Terminalize, Cas
    <3>3. callback' = [callback EXCEPT ![r]["failed"] = "queued"]
      BY <2>1, <2>2, <2>3 DEF Refuse, Terminalize, CasWins
    <3>4. callback'[r]["failed"] = "queued" /\ callback'[r]["done"] = "none"
      BY <2>2, <3>3 DEF Phase
    <3>5. QED
      BY <3>1, <3>2, <3>4
  <2>4. CASE Tier1Settle
    <3>1. outcome = receipt[r] /\ outcome # "none" /\ receipt[r] \in Receipt
          /\ receipt' = receipt
      BY <2>1, <2>4 DEF Tier1Settle, Claimed, TierTyped, tierVars
    <3>2. CasWins(job, {"running"})
      BY <1>3, <2>1, <2>4 DEF Tier1Settle, Terminalize, Cas
    <3>3. CASE outcome = "rejected"
      <4>1. callback' = [callback EXCEPT ![r]["failed"] = "queued"] /\ status'[r] = "failed"
        BY <2>1, <2>2, <2>4, <3>2, <3>3 DEF Tier1Settle, Terminalize, Cas
      <4>2. callback'[r]["failed"] = "queued" /\ callback'[r]["done"] = "none"
        BY <2>2, <4>1 DEF Phase
      <4>3. QED
        BY <3>1, <3>3, <4>1, <4>2
    <3>4. CASE outcome # "rejected"
      <4>1. callback' = [callback EXCEPT ![r]["done"] = "queued"] /\ status'[r] = "succeeded"
        BY <2>1, <2>2, <2>4, <3>2, <3>4 DEF Tier1Settle, Terminalize, Cas
      <4>2. callback'[r]["done"] = "queued" /\ callback'[r]["failed"] = "none"
        BY <2>2, <4>1 DEF Phase
      <4>3. QED
        BY <3>1, <3>4, <4>1, <4>2
    <3>5. QED
      BY <3>3, <3>4
  <2>5. QED
    BY <1>3, <2>1, <2>3, <2>4, EndsRouted
<1>4. CASE status'[r] # status[r] /\ status'[r] \notin {"succeeded", "failed"}
  <2>1. ~(Refuse \/ Tier1Settle) \/ r # job
    BY <1>4 DEF Refuse, Tier1Settle, Terminalize, Cas
  <2>2. status[r] \notin {"succeeded", "failed"}
    BY <1>4, EndedStill
  <2>3. callback[r]["done"] = "none" /\ callback[r]["failed"] = "none"
    BY <1>1, <2>2
  <2>4. callback'[r]["done"] = "none" /\ callback'[r]["failed"] = "none"
    <3>1. CASE UNCHANGED callback
      BY <2>3, <3>1
    <3>2. ASSUME NEW q \in Repairs, CancelAbandon(q) PROVE UNCHANGED status
      BY <3>2 DEF CancelAbandon
    <3>3. CASE (Refuse \/ Tier1Settle) /\ r # job
      <4>1. job \in Repairs
        BY <3>3, JobTyped DEF Refuse, Tier1Settle
      <4>2. QED
        BY <2>3, <3>3, <4>1 DEF Refuse, Tier1Settle, Terminalize
    <3>4. QED
      BY <1>4, <2>1, <3>1, <3>2, <3>3, CallbackSteps
  <2>5. QED
    BY <1>4, <2>4
<1>5. QED
  BY <1>2, <1>3, <1>4

(* Every step keeps a recorded success of an agent's turn a real one. *)
LEMMA SuccessMeansRunStep ==
  ASSUME TypeOK, Owned, Routed, Claimed, Ledgered, SuccessMeansRun, [Next]_vars
  PROVE  SuccessMeansRun'
<1> USE DEF TypeOK, RowsTyped, TurnTyped
<1> SUFFICES ASSUME NEW r \in Repairs, status'[r] = "succeeded", routing'[r] = "tier2"
             PROVE  starts'[r] > 0 /\ exec'[r] = "done"
  BY DEF SuccessMeansRun
<1>1. exec'[r] = "done"
  <2>1. CASE status'[r] = status[r]
    BY <2>1, EndedStill DEF SuccessMeansRun
  <2>2. CASE status'[r] # status[r]
    <3>1. r = job /\ (Finalize \/ Deduped \/ MarkFailed)
      BY <2>2, EndsRouted
    <3>2. exec' = exec
      BY <3>1 DEF Finalize, Deduped, MarkFailed, SettleJob, turnVars
    <3>3. CASE Finalize
      BY <3>1, <3>2, <3>3 DEF Finalize, Ledgered
    <3>4. CASE Deduped \/ MarkFailed
      BY <2>2, <3>1, <3>2, <3>4 DEF Deduped, MarkFailed, SettleJob, Cas
    <3>5. QED
      BY <3>1, <3>3, <3>4
  <2>3. QED
    BY <2>1, <2>2
<1>2. Ledgered'
  BY LedgeredStep
<1>3. QED
  BY <1>1, <1>2 DEF Ledgered

(* Every step keeps the failures reported to v5 real and final. *)
LEMMA ReportTruthfulStep ==
  ASSUME TypeOK, Owned, Routed, Claimed, ReportTruthful, [Next]_vars
  PROVE  ReportTruthful'
<1> USE DEF TypeOK, RowsTyped, ToldTyped
<1> SUFFICES ASSUME NEW r \in Repairs, reported'[r]
             PROVE  status'[r] = "failed"
  BY DEF ReportTruthful
<1>1. CASE reported'[r] = reported[r]
  BY <1>1, EndedStill DEF ReportTruthful
<1>2. ASSUME NEW a \in BOOLEAN, Report(a) PROVE status'[r] = "failed"
  <2>1. status[job] = "failed" /\ status' = status
    BY <1>2 DEF Report, Owned, rowVars
  <2>2. CASE r = job
    BY <2>1, <2>2
  <2>3. CASE r # job
    <3>1. reported' = [reported EXCEPT ![job] = reported[job] \/ a]
      BY <1>2 DEF Report
    <3>2. reported'[r] = reported[r]
      BY <2>3, <3>1
    <3>3. QED
      BY <1>1, <3>2
  <2>4. QED
    BY <2>2, <2>3
<1>3. CASE UNCHANGED reported
  BY <1>1, <1>3
<1>4. QED
  BY <1>2, <1>3, ToldSteps DEF toldVars, CancelAgain, CancelTombstone, CancelDirect, CancelConfirm,
     CancelAbandon, CancelUnconfirmed, CancelThrows

(* Every step keeps what was answered as terminated so. *)
LEMMA TerminatedIsFinalStep ==
  ASSUME TypeOK, Owned, Routed, Claimed, Revoking, TerminatedIsFinal, [Next]_vars
  PROVE  TerminatedIsFinal'
<1> USE DEF TypeOK, RowsTyped, ToldTyped
<1> DEFINE Final(r) == \/ status[r] = "cancelled"
                       \/ status[r] \in {"succeeded", "failed"} /\ revoked[r]
<1> SUFFICES ASSUME NEW r \in Repairs, told'[r]
             PROVE  Final(r)'
  BY DEF TerminatedIsFinal
<1>1. Final(r) => Final(r)'
  <2>1. status[r] = "cancelled" => status'[r] = "cancelled"
    BY StatusMoves DEF Executable
  <2>2. status[r] \in {"succeeded", "failed"} => status'[r] = status[r]
    BY EndedStill
  <2>3. revoked[r] => revoked'[r]
    BY RevokedSteps DEF CancelRevoke
  <2>4. QED
    BY <2>1, <2>2, <2>3
<1>2. told[r] => Final(r)
  BY DEF TerminatedIsFinal
<1>3. ASSUME NEW q \in Repairs, Answer(q, FALSE) PROVE told'[r] = told[r]
  BY <1>3 DEF Answer
<1>4. ASSUME NEW q \in Repairs, NEW t \in BOOLEAN, Answer(q, t), q # r PROVE told'[r] = told[r]
  BY <1>4 DEF Answer
<1>5. ASSUME CancelAgain(r) \/ CancelTombstone(r) \/ CancelDirect(r) \/ CancelConfirm(r),
             ~told[r]
      PROVE  status'[r] = "cancelled"
  <2>1. CASE CancelAgain(r)
    BY <2>1 DEF CancelAgain, rowVars
  <2>2. CASE CancelTombstone(r)
    BY <1>5, <2>2 DEF CancelTombstone, Cas
  <2>3. CASE CancelDirect(r) \/ CancelConfirm(r)
    <3>1. Answer(r, status'[r] = "cancelled")
      BY <2>3 DEF CancelDirect, CancelConfirm
    <3>2. ASSUME status'[r] # "cancelled" PROVE FALSE
      <4>1. (status'[r] = "cancelled") = FALSE
        BY <3>2
      <4>2. Answer(r, FALSE)
        BY <3>1, <4>1
      <4>3. QED
        BY <1>3, <1>5, <4>2
    <3>3. QED
      BY <3>2
  <2>4. QED
    BY <1>5, <2>1, <2>2, <2>3
<1>6. CASE CancelAbandon(r)
  BY <1>1, <1>6 DEF CancelAbandon, Revoking, ProcTyped
<1>7. ASSUME NEW q \in Repairs,
             \/ CancelAgain(q) \/ CancelTombstone(q) \/ CancelDirect(q) \/ CancelConfirm(q)
             \/ CancelAbandon(q) \/ CancelUnconfirmed(q) \/ CancelThrows(q)
      PROVE  Final(r)'
  <2>1. CASE told[r]
    BY <1>1, <1>2, <2>1
  <2>2. CASE ~told[r]
    <3>1. q = r
      <4>1. \/ UNCHANGED told
            \/ \E t \in BOOLEAN : Answer(q, t)
        <5>1. (status'[q] = "cancelled") \in BOOLEAN
          OBVIOUS
        <5>2. QED
          BY <1>7, <5>1 DEF CancelAgain, CancelTombstone, CancelDirect, CancelConfirm, CancelAbandon,
             CancelUnconfirmed, CancelThrows
      <4>2. QED
        BY <1>4, <2>2, <4>1
    <3>2. ~(CancelUnconfirmed(r) \/ CancelThrows(r))
      BY <1>3, <2>2 DEF CancelUnconfirmed, CancelThrows
    <3>3. CASE CancelAgain(r) \/ CancelTombstone(r) \/ CancelDirect(r) \/ CancelConfirm(r)
      BY <1>5, <2>2, <3>3
    <3>4. QED
      BY <1>6, <1>7, <3>1, <3>2, <3>3
  <2>3. QED
    BY <2>1, <2>2
<1>8. CASE \E a \in BOOLEAN : Report(a)
  BY <1>1, <1>2, <1>8 DEF Report
<1>9. QED
  BY <1>1, <1>2, <1>7, <1>8, ToldSteps DEF toldVars


--------------------------------------------------------------------------------
(* The invariant of the specification. *)

(* The initial state satisfies the invariant. *)
LEMMA InvInit == Init => IInv
<1> SUFFICES ASSUME Init PROVE IInv
  OBVIOUS
<1> USE RepairAssumption
<1>1. TypeOK
  BY TypeInit
<1>2. Owned /\ Guarded /\ Revoking
  BY DEF Init, Owned, Guarded, Revoking, InLock
<1>3. Routed /\ Claimed
  BY DEF Init, Routed, Claimed, Tier1Pc, Tier2Pc, Renewing, InPromise, InLock, Phase
<1>4. Ledgered /\ SuccessMeansRun
  BY DEF Init, Ledgered, SuccessMeansRun
<1>5. Tier1Accounted /\ ReportTruthful /\ TerminatedIsFinal
  BY DEF Init, Tier1Accounted, ReportTruthful, TerminatedIsFinal
<1>6. QED
  BY <1>1, <1>2, <1>3, <1>4, <1>5 DEF IInv

(* Every step keeps the invariant. *)
LEMMA InvStep == IInv /\ [Next]_vars => IInv'
<1> SUFFICES ASSUME IInv, [Next]_vars PROVE IInv'
  OBVIOUS
<1>1. /\ TypeOK /\ Owned /\ Guarded /\ Routed /\ Claimed /\ Ledgered /\ Revoking
      /\ Tier1Accounted /\ SuccessMeansRun /\ ReportTruthful /\ TerminatedIsFinal
  BY DEF IInv
<1>2. TypeOK'
  BY <1>1, RowsStep, TierStep, TurnsStep, WorkStep, ProcStep, ToldStep, CountersStep DEF TypeOK
<1>3. Owned' /\ Guarded' /\ Routed' /\ Claimed' /\ Ledgered' /\ Revoking'
  BY <1>1, OwnedStep, GuardedStep, RoutedStep, ClaimedStep, LedgeredStep, RevokingStep
<1>4. Tier1Accounted' /\ SuccessMeansRun' /\ ReportTruthful' /\ TerminatedIsFinal'
  BY <1>1, Tier1AccountedStep, SuccessMeansRunStep, ReportTruthfulStep, TerminatedIsFinalStep
<1>5. QED
  BY <1>2, <1>3, <1>4 DEF IInv

(* Who holds what, and what each row stands for, in every reachable state: the
   worker and the cancel exclude each other by the mutex, the worker follows
   the frozen routing, the pre-claim precedes the opcode and the opcode its
   receipt, and the ledger has the turn that runs. *)
THEOREM RepairInvariance == Spec => []IInv
  BY InvInit, InvStep, PTL DEF Spec

--------------------------------------------------------------------------------
(* What follows from it. *)

(* Rows, mutexes, the worker's memory and the outside world are well typed in
   every reachable state, for any set of repairs and any number of crashes and
   faults. *)
THEOREM RepairTyped == Spec => []TypeOK
<1>1. IInv => TypeOK
  BY DEF IInv
<1>2. QED
  BY <1>1, RepairInvariance, PTL

(* terminalizeTier1WithCallback and the set-once receipt: the end of a Tier1
   repair, its callback and its receipt agree. *)
THEOREM Tier1IsAccounted == Spec => []Tier1Accounted
<1>1. IInv => Tier1Accounted
  BY DEF IInv
<1>2. QED
  BY <1>1, RepairInvariance, PTL

(* setJobFrozenRouting and its read-back: no repair has both a host action and
   an agent's turn. *)
THEOREM OneRouteOnly == Spec => []OneRoute
<1>1. IInv => OneRoute
  <2> SUFFICES ASSUME IInv, NEW r \in Repairs, sent[r] > 0, starts[r] > 0 PROVE FALSE
    BY DEF OneRoute
  <2>1. claimed[r]
    BY DEF IInv, TypeOK, TierTyped, Claimed
  <2>2. QED
    BY <2>1 DEF IInv, Routed
<1>2. QED
  BY <1>1, RepairInvariance, PTL

(* The turn, its execution and the status of the job: a recorded success of
   an agent's turn was one. *)
THEOREM SuccessWasRun == Spec => []SuccessMeansRun
<1>1. IInv => SuccessMeansRun
  BY DEF IInv
<1>2. QED
  BY <1>1, RepairInvariance, PTL

(* markFailedAndReport and finalizeJob: a reported failure is one for good. *)
THEOREM ReportsTruthful == Spec => []ReportTruthful
<1>1. IInv => ReportTruthful
  BY DEF IInv
<1>2. QED
  BY <1>1, RepairInvariance, PTL

(* cancelLocked: what a cancel answered as terminated stays so. *)
THEOREM TerminationFinal == Spec => []TerminatedIsFinal
<1>1. IInv => TerminatedIsFinal
  BY DEF IInv
<1>2. QED
  BY <1>1, RepairInvariance, PTL

(* A step starts no turn, and claims none, for a repair that is cancelled or
   being cancelled and whose execution is not running. *)
LEMMA FencedStep ==
  ASSUME IInv, [Next]_vars, NEW r \in Repairs,
         status[r] \in {"cancelling", "cancelled"}, exec[r] # "running"
  PROVE  starts'[r] = starts[r] /\ exec'[r] # "running"
<1> USE DEF IInv, TypeOK, TurnTyped
<1>1. starts'[r] = starts[r]
  <2>1. CASE StartTurn
    <3>1. r # job
      BY <2>1 DEF StartTurn, Ledgered
    <3>2. QED
      BY <2>1, <3>1 DEF StartTurn
  <2>2. QED
    BY <2>1, StartsSteps
<1>2. exec'[r] # "running"
  <2>1. CASE ClaimTurn
    BY <2>1 DEF ClaimTurn, Executable
  <2>2. CASE Reopen \/ Enqueue \/ SettleExecution
    BY <2>2 DEF Reopen, Enqueue, SettleExecution
  <2>3. QED
    BY <2>1, <2>2, LedgerSteps
<1>3. QED
  BY <1>1, <1>2

(* The fences of enqueueExecution and claimQueuedTurn, behind the mutex of
   cancel: after a cancel that found no running turn there is none. *)
THEOREM TurnsFenced == Spec => FencedTurn
<1>1. IInv /\ [Next]_vars =>
        [\A r \in Repairs :
           status[r] \in {"cancelling", "cancelled"} /\ exec[r] # "running" =>
             starts'[r] = starts[r] /\ exec'[r] # "running"]_vars
  BY FencedStep
<1>2. QED
  BY <1>1, RepairInvariance, PTL DEF Spec, FencedTurn

--------------------------------------------------------------------------------
(* The refinement of RepairPromise. *)

(* What each status means to v5. *)
LEMMA FateOf ==
  /\ Fate("absent") = "unknown"
  /\ \A s \in {"received", "starting", "running"} : Fate(s) = "open"
  /\ Fate("cancelling") = "closing"
  /\ Fate("succeeded") = "succeeded" /\ Fate("failed") = "failed" /\ Fate("cancelled") = "cancelled"
  BY DEF Fate

(* The initial state is that of the promise. *)
LEMMA PromiseInit == Init => Promise!Init
  BY FateOf DEF Init, Promise!Init

(* The step that transmits an opcode is the one action of its repair. *)
LEMMA PromiseAct ==
  ASSUME IInv, NEW o, Transmit(o)
  PROVE  Promise!Act(job)
<1> USE DEF IInv, TypeOK, RowsTyped, TierTyped
<1>1. job \in Repairs
  BY JobTyped DEF Transmit
<1>2. sent[job] = 0 /\ status[job] = "running"
  BY DEF Transmit, Claimed, InLock
<1>3. sent' = [sent EXCEPT ![job] = 1] /\ status' = status
  <2>1. sent' = [sent EXCEPT ![job] = sent[job] + 1] /\ status' = status
    BY DEF Transmit, rowVars
  <2>2. QED
    BY <1>2, <2>1
<1>4. QED
  BY <1>1, <1>2, <1>3, FateOf DEF Promise!Act

(* A step that moves a repair's status moves its fate along the promise, or
   not at all. *)
LEMMA PromiseMove ==
  ASSUME IInv, [Next]_vars, UNCHANGED sent, NEW r \in Repairs, status'[r] # status[r]
  PROVE  \/ Promise!Open(r) \/ Promise!Succeed(r) \/ Promise!Fail(r) \/ Promise!Close(r)
         \/ Promise!Cancel(r)
         \/ [q \in Repairs |-> Fate(status[q])]' = [q \in Repairs |-> Fate(status[q])]
<1> DEFINE F == [q \in Repairs |-> Fate(status[q])]
<1>1. F' = [F EXCEPT ![r] = Fate(status'[r])]
  BY StatusMoves DEF IInv
<1>2. F[r] = Fate(status[r])
  OBVIOUS
<1>3. Fate(status'[r]) = F[r] => F' = F
  BY <1>1
<1>4. CASE status[r] = "absent" /\ status'[r] \in {"received", "cancelled"}
  BY <1>1, <1>2, <1>4, FateOf DEF Promise!Open, Promise!Cancel, Promise!Move
<1>5. CASE status[r] = "received" /\ status'[r] \in {"starting", "cancelling", "cancelled"}
  BY <1>1, <1>2, <1>3, <1>5, FateOf DEF Promise!Close, Promise!Cancel, Promise!Move
<1>6. CASE status[r] \in Executable /\ status'[r] \in {"starting", "running", "cancelling", "cancelled"}
  BY ZenonT(40), <1>1, <1>2, <1>3, <1>6, FateOf DEF Promise!Close, Promise!Cancel, Promise!Move, Executable
<1>7. CASE status[r] = "cancelling" /\ status'[r] = "cancelled"
  BY <1>1, <1>2, <1>7, FateOf DEF Promise!Cancel, Promise!Move
<1>8. CASE status[r] \in Executable /\ status'[r] \in {"succeeded", "failed"}
  BY <1>1, <1>2, <1>8, FateOf DEF Promise!Succeed, Promise!Fail, Promise!Move, Executable
<1>9. QED
  BY <1>4, <1>5, <1>6, <1>7, <1>8, StatusMoves DEF IInv

(* The gateway keeps its promise to v5: every repair has one end, for good;
   its host action is taken at most once, and never once a cancel has begun to
   close the repair, across crashes and restarts. *)
THEOREM ImplementsRepairPromise == Spec => KeepsPromise
<1>1. ASSUME IInv, [Next]_vars
      PROVE  [Promise!Next]_<<[r \in Repairs |-> Fate(status[r])], sent>>
  <2> DEFINE F == [r \in Repairs |-> Fate(status[r])]
  <2>1. CASE \E o \in Receipt : Transmit(o)
    <3>1. Promise!Act(job) /\ job \in Repairs
      BY <1>1, <2>1, PromiseAct, JobTyped DEF IInv, Transmit
    <3>2. QED
      BY <3>1 DEF Promise!Next
  <2>2. CASE sent' = sent /\ status' = status
    BY <2>2
  <2>3. CASE sent' = sent /\ status' # status
    <3>1. status \in [Repairs -> Status] /\ status' \in [Repairs -> Status]
      BY <1>1, RowsStep DEF IInv, TypeOK, RowsTyped
    <3>2. PICK r \in Repairs : status'[r] # status[r]
      BY <2>3, <3>1
    <3>3. \/ Promise!Open(r) \/ Promise!Succeed(r) \/ Promise!Fail(r) \/ Promise!Close(r)
          \/ Promise!Cancel(r)
          \/ F' = F
      BY <1>1, <2>3, <3>2, PromiseMove
    <3>4. QED
      BY <2>3, <3>3 DEF Promise!Next
  <2>4. QED
    BY <1>1, <2>1, <2>2, <2>3, TierSteps DEF tierVars, Tier1Claim, Tier1Store
<1>2. QED
  BY <1>1, PromiseInit, RepairInvariance, PTL DEF Spec, KeepsPromise, Promise!Spec

================================================================================
