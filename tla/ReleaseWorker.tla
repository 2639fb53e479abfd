----------------------------- MODULE ReleaseWorker -----------------------------
(***************************************************************************)
(* The Tier2 release worker of the self-heal subsystem: the durable ledger  *)
(* of release jobs (selfhealStore.ts), the background worker that deploys   *)
(* them (releaseWorker.ts), the deploy lane it spawns in a systemd scope    *)
(* (selfheal-release-lane.sh), the local release fuse, and the two ways a   *)
(* release is cancelled (by its release_request_id, or by cancelling the    *)
(* repair it belongs to).                                                   *)
(*                                                                          *)
(* One step is one SQLite transaction, one probe or command of the host, or *)
(* one step of the lane; everything the gateway process holds in memory is  *)
(* lost by Crash, everything in the ledger and on the host survives it.     *)
(***************************************************************************)
EXTENDS Naturals, Sequences

CONSTANTS
  Jobs,         \* release jobs, named by their release_request_id
  Repairs,      \* the repairs they belong to
  RepairOf,     \* the repair of each job
  ManualPlan,   \* jobs whose frozen plan cannot be deployed by machine
  LocalOrigin,  \* jobs enqueued by the broker or the break-glass route
  Adjudicated,  \* jobs whose fuse epoch v5 may clear
  None,         \* no job
  MaxCrashes,   \* bound: crashes of the gateway process
  MaxFaults,    \* bound: failing transactions and host calls
  SpawnMayFail, \* whether spawning systemd-run may fail
  LeaderMayDie  \* whether the lane's shell may die on its own

ASSUME JobAssumption ==
  /\ RepairOf \in [Jobs -> Repairs]
  /\ ManualPlan \subseteq Jobs
  /\ LocalOrigin \subseteq Jobs
  /\ Adjudicated \subseteq Jobs
  /\ None \notin Jobs

ASSUME BoundAssumption ==
  /\ MaxCrashes \in Nat
  /\ MaxFaults \in Nat
  /\ SpawnMayFail \in BOOLEAN
  /\ LeaderMayDie \in BOOLEAN

VARIABLES
  (* the ledger, one entry per release job *)
  status,       \* the job's status; "absent" before its row exists
  checkpoint,   \* checkpoint_json holds a strongly bound checkpoint
  receipt,      \* receipt_json: the lane's verdict, or "none"
  pushed,       \* canonical_pushed_at is set
  pushPending,  \* failure_reason is 'canonical_push_pending'
  posted,       \* callback rows ever enqueued, as <<job, phase>>
  fuse,         \* the engaged fuse epoch, or None
  cleared,      \* tombstones of cleared fuse epochs
  revoked,      \* repairs with release_revoked
  (* the gateway process *)
  intake,       \* v5 requests past the fuse check, not yet inserted
  wpc, wjob,    \* what the worker is doing, and for which job
  wreceipt,     \* the verdict it holds in memory
  wrevoked,     \* release_revoked as read inside the repair lock
  wtry,         \* inside the try block of runClaimed
  lock,         \* holder of each per-repair mutex
  (* the host *)
  lane,         \* the lane's shell, in its scope
  childUp,      \* deploy-v5.sh is running in the scope
  effect,       \* what the deploy did to production
  pipe,         \* lane events written and not yet read
  attached,     \* lanes whose stdout this process reads
  starts,       \* how many lanes were ever spawned for a job
  crashes, faults

rowVars  == <<status, checkpoint, receipt, pushed, pushPending, posted>>
gateVars == <<fuse, cleared, revoked>>
workVars == <<wpc, wjob, wreceipt, wrevoked, wtry>>
procVars == <<intake, lock, attached>>
hostVars == <<lane, childUp, effect, pipe, starts>>
vars == <<rowVars, gateVars, workVars, procVars, hostVars, crashes, faults>>

Closed == {"deployed", "deploy_failed", "deploy_unknown", "manual_required", "cancelled"}
Status == {"absent", "received", "deploying"} \cup Closed
Phase  == {"deploying", "deployed", "deploy_failed", "deploy_unknown", "manual_required"}
Verdict == {"deployed", "deploy_failed", "deploy_unknown", "manual"}
Event   == {"checkpoint", "unbound_checkpoint"} \cup Verdict

LaneLive == {"checks", "deploy", "proof", "push"}
LaneOver == {"exited", "killed"}

(* The worker owns a claimed job at these points of its program. *)
AtWork == {"prepare", "streaming", "hung", "exited", "confirm", "confirm_killed",
           "settle", "adjudicate", "push", "pending", "pending_fuse", "unknown_fuse",
           "close_pushed", "close_pending", "close_unknown", "close_failed",
           "close_manual"}
WorkerPc == {"down", "idle", "locking", "locked"} \cup AtWork

(* The scope's cgroup is empty only when neither process is left in it. *)
ScopeActive(j) == lane[j] \in LaneLive \/ childUp[j]

RowsTyped ==
  /\ status \in [Jobs -> Status]
  /\ checkpoint \in [Jobs -> BOOLEAN]
  /\ receipt \in [Jobs -> Verdict \cup {"none"}]
  /\ pushed \in [Jobs -> BOOLEAN]
  /\ pushPending \in [Jobs -> BOOLEAN]
  /\ posted \subseteq Jobs \X Phase

GatesTyped ==
  /\ fuse \in Jobs \cup {None}
  /\ cleared \subseteq Jobs
  /\ revoked \subseteq Repairs

WorkTyped ==
  /\ wpc \in WorkerPc
  /\ wjob \in Jobs \cup {None}
  /\ wreceipt \in Verdict \cup {"none"}
  /\ wrevoked \in BOOLEAN
  /\ wtry \in BOOLEAN

ProcTyped ==
  /\ intake \subseteq Jobs
  /\ lock \in [Repairs -> {"free", "worker", "cancel"}]
  /\ attached \subseteq Jobs

HostTyped ==
  /\ lane \in [Jobs -> {"unstarted"} \cup LaneLive \cup LaneOver]
  /\ childUp \in [Jobs -> BOOLEAN]
  /\ effect \in [Jobs -> {"none", "partial", "applied"}]
  /\ pipe \in [Jobs -> Seq(Event)]
  /\ starts \in [Jobs -> Nat]

CountersTyped == crashes \in Nat /\ faults \in Nat

TypeOK == RowsTyped /\ GatesTyped /\ WorkTyped /\ ProcTyped /\ HostTyped /\ CountersTyped

Init ==
  /\ status = [j \in Jobs |-> "absent"]
  /\ checkpoint = [j \in Jobs |-> FALSE]
  /\ receipt = [j \in Jobs |-> "none"]
  /\ pushed = [j \in Jobs |-> FALSE]
  /\ pushPending = [j \in Jobs |-> FALSE]
  /\ posted = {}
  /\ fuse = None
  /\ cleared = {}
  /\ revoked = {}
  /\ intake = {}
  /\ wpc = "idle"
  /\ wjob = None
  /\ wreceipt = "none"
  /\ wrevoked = FALSE
  /\ wtry = FALSE
  /\ lock = [r \in Repairs |-> "free"]
  /\ lane = [j \in Jobs |-> "unstarted"]
  /\ childUp = [j \in Jobs |-> FALSE]
  /\ effect = [j \in Jobs |-> "none"]
  /\ pipe = [j \in Jobs |-> <<>>]
  /\ attached = {}
  /\ starts = [j \in Jobs |-> 0]
  /\ crashes = 0
  /\ faults = 0

--------------------------------------------------------------------------------
(* Intake, the fuse and cancels: the handlers of the gateway's webhooks. *)

(* receiveSelfhealRelease reads the fuse, then awaits, then inserts. *)
CheckIntake(j) ==
  /\ wpc # "down"
  /\ j \notin LocalOrigin
  /\ status[j] = "absent"
  /\ fuse = None
  /\ intake' = intake \cup {j}
  /\ UNCHANGED <<rowVars, gateVars, workVars, lock, attached, hostVars, crashes, faults>>

(* A re-delivered request finds the row and changes nothing. *)
InsertRelease(j) ==
  /\ wpc # "down"
  /\ j \in intake \/ j \in LocalOrigin
  /\ status[j] = "absent"
  /\ status' = [status EXCEPT ![j] = "received"]
  /\ intake' = intake \ {j}
  /\ UNCHANGED <<checkpoint, receipt, pushed, pushPending, posted, gateVars,
                 workVars, lock, attached, hostVars, crashes, faults>>

(* Slip: clears whichever epoch is engaged. *)
ClearAnyFuse(j) ==
  /\ wpc # "down"
  /\ j \in Adjudicated
  /\ status[j] # "absent"
  /\ j \notin cleared
  /\ cleared' = cleared \cup {j}
  /\ fuse' = None
  /\ UNCHANGED <<revoked, rowVars, workVars, procVars, hostVars, crashes, faults>>

(* v5 clears one exact epoch after a human judged it; the tombstone is
   appended whether or not this host has engaged that epoch. *)
ClearFuse(j) ==
  /\ wpc # "down"
  /\ j \in Adjudicated
  /\ status[j] # "absent"
  /\ j \notin cleared
  /\ cleared' = cleared \cup {j}
  /\ fuse' = IF fuse = j THEN None ELSE fuse
  /\ UNCHANGED <<revoked, rowVars, workVars, procVars, hostVars, crashes, faults>>

(* An epoch is engaged unless it was already cleared or a fuse is engaged. *)
EngageFuse(j) ==
  fuse' = IF j \notin cleared /\ fuse = None THEN j ELSE fuse

(* cancelReleaseJob: only a received, unclaimed job is cancelled. *)
CancelRow(j) ==
  status' = IF status[j] = "received" THEN [status EXCEPT ![j] = "cancelled"] ELSE status

CancelRelease(j) ==
  /\ wpc # "down"
  /\ status[j] = "received"
  /\ CancelRow(j)
  /\ UNCHANGED <<checkpoint, receipt, pushed, pushPending, posted, gateVars,
                 workVars, procVars, hostVars, crashes, faults>>

(* Slip: does not wait for the repair's mutex. *)
CancelUnlocked(r) ==
  /\ wpc # "down"
  /\ lock[r] # "cancel"
  /\ lock' = [lock EXCEPT ![r] = "cancel"]
  /\ UNCHANGED <<rowVars, gateVars, workVars, intake, attached, hostVars, crashes, faults>>

(* Cancel of a repair whose own job has ended: under the repair's mutex it
   revokes the repair's release (and abandons callbacks still queued). *)
CancelEnter(r) ==
  /\ wpc # "down"
  /\ lock[r] = "free"
  /\ lock' = [lock EXCEPT ![r] = "cancel"]
  /\ UNCHANGED <<rowVars, gateVars, workVars, intake, attached, hostVars, crashes, faults>>

CancelRevoke(r) ==
  /\ lock[r] = "cancel"
  /\ revoked' = revoked \cup {r}
  /\ lock' = [lock EXCEPT ![r] = "free"]
  /\ UNCHANGED <<fuse, cleared, rowVars, workVars, intake, attached, hostVars, crashes, faults>>

--------------------------------------------------------------------------------
(* The worker: from a received job to a running lane. *)

Goto(pc) == wpc' = pc /\ UNCHANGED <<wjob, wreceipt, wrevoked, wtry>>

(* The worker is done with its job, or never took it. *)
LetGo ==
  /\ wpc' = "idle"
  /\ wjob' = None
  /\ wreceipt' = "none"
  /\ wrevoked' = FALSE
  /\ wtry' = FALSE

(* Slip: the mutex is not released. *)
KeepLock(r) == UNCHANGED lock

Unlock(r) == lock' = [lock EXCEPT ![r] = "free"]

(* Slip: the callback row does not depend on the CAS. *)
PostAnyway(j, from, to, pending) ==
  /\ status' = IF status[j] \in from THEN [status EXCEPT ![j] = to] ELSE status
  /\ pushPending' = IF status[j] \in from THEN [pushPending EXCEPT ![j] = pending] ELSE pushPending
  /\ posted' = posted \cup {<<j, to>>}

(* The set-once terminal CAS and its callback row, in one transaction. *)
Terminalize(j, from, to, pending) ==
  IF status[j] \in from
  THEN /\ status' = [status EXCEPT ![j] = to]
       /\ pushPending' = [pushPending EXCEPT ![j] = pending]
       /\ posted' = posted \cup {<<j, to>>}
  ELSE UNCHANGED <<status, pushPending, posted>>

(* The sweep takes up a received job, unless it reads an engaged fuse. *)
ReadFuse(j) ==
  /\ wpc = "idle"
  /\ status[j] = "received"
  /\ fuse = None
  /\ wpc' = "locking"
  /\ wjob' = j
  /\ UNCHANGED <<wreceipt, wrevoked, wtry, rowVars, gateVars, procVars, hostVars, crashes, faults>>

(* Inside the mutex it reads the job and its repair again. *)
EnterLock ==
  /\ wpc = "locking"
  /\ lock[RepairOf[wjob]] = "free"
  /\ IF status[wjob] = "received"
     THEN /\ lock' = [lock EXCEPT ![RepairOf[wjob]] = "worker"]
          /\ wpc' = "locked"
          /\ wrevoked' = (RepairOf[wjob] \in revoked)
          /\ UNCHANGED <<wjob, wreceipt, wtry>>
     ELSE LetGo /\ UNCHANGED lock
  /\ UNCHANGED <<rowVars, gateVars, intake, attached, hostVars, crashes, faults>>

CloseRevoked ==
  /\ wpc = "locked"
  /\ wrevoked
  /\ CancelRow(wjob)
  /\ Unlock(RepairOf[wjob])
  /\ LetGo
  /\ UNCHANGED <<checkpoint, receipt, pushed, pushPending, posted, gateVars,
                 intake, attached, hostVars, crashes, faults>>

CloseManualPlan ==
  /\ wpc = "locked"
  /\ ~wrevoked
  /\ wjob \in ManualPlan
  /\ Terminalize(wjob, {"received", "deploying"}, "manual_required", FALSE)
  /\ Unlock(RepairOf[wjob])
  /\ LetGo
  /\ UNCHANGED <<checkpoint, receipt, pushed, gateVars, intake, attached, hostVars, crashes, faults>>

(* claimReleaseJob's one immediate transaction: the fuse, the host-wide
   singleflight, the CAS from received. *)
Claimable(j) ==
  /\ fuse = None
  /\ \A k \in Jobs \ {j} : status[k] # "deploying"
  /\ status[j] = "received"

Claim ==
  /\ wpc = "locked"
  /\ ~wrevoked
  /\ wjob \notin ManualPlan
  /\ Unlock(RepairOf[wjob])
  /\ IF Claimable(wjob)
     THEN /\ status' = [status EXCEPT ![wjob] = "deploying"]
          /\ posted' = posted \cup {<<wjob, "deploying">>}
          /\ wpc' = "prepare"
          /\ wtry' = TRUE
          /\ UNCHANGED <<wjob, wreceipt, wrevoked>>
     ELSE LetGo /\ UNCHANGED <<status, posted>>
  /\ UNCHANGED <<checkpoint, receipt, pushed, pushPending, gateVars, intake, attached,
                 hostVars, crashes, faults>>

(* systemd-run starts the lane in a scope of its own and its stdout is read. *)
Spawn ==
  /\ wpc = "prepare"
  /\ lane' = [lane EXCEPT ![wjob] = "checks"]
  /\ starts' = [starts EXCEPT ![wjob] = @ + 1]
  /\ attached' = attached \cup {wjob}
  /\ Goto("streaming")
  /\ UNCHANGED <<rowVars, gateVars, intake, lock, childUp, effect, pipe, crashes, faults>>

(* A spawn error emits 'error' and never 'exit': runLane's promise stays
   pending, and with it the tick. *)
SpawnError ==
  /\ SpawnMayFail
  /\ wpc = "prepare"
  /\ Goto("hung")
  /\ UNCHANGED <<rowVars, gateVars, procVars, hostVars, crashes, faults>>

--------------------------------------------------------------------------------
(* The worker: reading the lane, and waiting for it. *)

Verdicts(j) == pipe[j] # <<>> /\ Head(pipe[j]) \in Verdict
Drop(j) == pipe' = [pipe EXCEPT ![j] = Tail(@)]

(* One stdout line: a checkpoint that binds is persisted set-once, whatever
   the job's status; a verdict is kept by the runClaimed call still running. *)
ReadLine(j) ==
  /\ j \in attached
  /\ pipe[j] # <<>>
  /\ Drop(j)
  /\ checkpoint' = [checkpoint EXCEPT ![j] = @ \/ Head(pipe[j]) = "checkpoint"]
  /\ wreceipt' = IF Verdicts(j) /\ wjob = j /\ wpc \in {"streaming", "exited"}
                 THEN Head(pipe[j]) ELSE wreceipt
  /\ UNCHANGED <<status, receipt, pushed, pushPending, posted, gateVars, wpc, wjob, wrevoked,
                 wtry, procVars, lane, childUp, effect, starts, crashes, faults>>

(* The write of a checkpoint fails, and the failure is swallowed. *)
LoseCheckpoint(j) ==
  /\ faults < MaxFaults
  /\ j \in attached
  /\ pipe[j] # <<>> /\ Head(pipe[j]) = "checkpoint"
  /\ Drop(j)
  /\ faults' = faults + 1
  /\ UNCHANGED <<rowVars, gateVars, workVars, procVars, lane, childUp, effect, starts, crashes>>

(* 'exit' says that the shell is gone; stdout may hold unread lines and the
   scope other processes. *)
LaneExit ==
  /\ wpc = "streaming"
  /\ lane[wjob] \in LaneOver
  /\ Goto("exited")
  /\ UNCHANGED <<rowVars, gateVars, procVars, hostVars, crashes, faults>>

(* A signal to the scope: its shell is gone, its deploy may take longer. *)
SignalScope(j) ==
  /\ lane' = [lane EXCEPT ![j] = IF @ \in LaneLive THEN "killed" ELSE @]
  /\ \E up \in BOOLEAN :
       (up => childUp[j]) /\ childUp' = [childUp EXCEPT ![j] = up]

LaneTimeout ==
  /\ wpc = "streaming"
  /\ SignalScope(wjob)
  /\ Goto("confirm")
  /\ UNCHANGED <<rowVars, gateVars, procVars, effect, pipe, starts, crashes, faults>>

(* Slip: a scope that cannot be probed counts as dead. *)
ScopePresumedDead ==
  /\ wpc \in {"confirm", "confirm_killed"}
  /\ Goto("settle")
  /\ UNCHANGED <<rowVars, gateVars, procVars, hostVars, crashes, faults>>

ScopeConfirmedDead ==
  /\ wpc \in {"confirm", "confirm_killed"}
  /\ ~ScopeActive(wjob)
  /\ Goto("settle")
  /\ UNCHANGED <<rowVars, gateVars, procVars, hostVars, crashes, faults>>

(* Still active or unknown after the grace: SIGKILL, which may fail too. *)
KillScope ==
  /\ wpc = "confirm"
  /\ SignalScope(wjob)
  /\ Goto("confirm_killed")
  /\ UNCHANGED <<rowVars, gateVars, procVars, effect, pipe, starts, crashes, faults>>

(* Never confirmed dead: the job stays deploying for a later sweep. *)
HoldJob ==
  /\ wpc = "confirm_killed"
  /\ LetGo
  /\ UNCHANGED <<rowVars, gateVars, procVars, hostVars, crashes, faults>>

--------------------------------------------------------------------------------
(* The worker: closing a job. *)

(* Slip: the scope is not probed. *)
RecoverUnprobed(j) ==
  /\ wpc = "idle"
  /\ status[j] = "deploying"
  /\ wpc' = "settle"
  /\ wjob' = j
  /\ UNCHANGED <<wreceipt, wrevoked, wtry, rowVars, gateVars, procVars, hostVars, crashes, faults>>

(* The sweep's recovery of a deploying job whose scope it finds inactive;
   an active or unknown scope is left alone. *)
Recover(j) ==
  /\ wpc = "idle"
  /\ status[j] = "deploying"
  /\ ~ScopeActive(j)
  /\ wpc' = "settle"
  /\ wjob' = j
  /\ UNCHANGED <<wreceipt, wrevoked, wtry, rowVars, gateVars, procVars, hostVars, crashes, faults>>

(* Slips: nothing durable means nothing was deployed; or means come later. *)
SettleOr(pc) ==
  /\ wpc = "settle"
  /\ wpc' = CASE receipt[wjob] # "none" -> "adjudicate"
              [] receipt[wjob] = "none" /\ checkpoint[wjob] -> "push"
              [] OTHER -> pc
  /\ wreceipt' = receipt[wjob]
  /\ UNCHANGED <<wjob, wrevoked, wtry, rowVars, gateVars, procVars, hostVars, crashes, faults>>

SettleAsFailed == SettleOr("close_failed")
SettleLater    == SettleOr("idle")

SettleFromDurableState ==
  /\ wpc = "settle"
  /\ IF status[wjob] # "deploying"
     THEN LetGo
     ELSE /\ wpc' = CASE receipt[wjob] # "none" -> "adjudicate"
                      [] receipt[wjob] = "none" /\ checkpoint[wjob] -> "push"
                      [] OTHER -> "unknown_fuse"
          /\ wreceipt' = receipt[wjob]
          /\ UNCHANGED <<wjob, wrevoked, wtry>>
  /\ UNCHANGED <<rowVars, gateVars, procVars, hostVars, crashes, faults>>

(* After a normal exit the receipt is persisted set-once and read back. *)
PersistReceipt ==
  /\ wpc = "exited"
  /\ receipt' = [receipt EXCEPT ![wjob] = IF @ = "none" THEN wreceipt ELSE @]
  /\ wreceipt' = IF wreceipt = "none" THEN "none" ELSE receipt'[wjob]
  /\ wpc' = "adjudicate"
  /\ UNCHANGED <<wjob, wrevoked, wtry, status, checkpoint, pushed, pushPending, posted, gateVars,
                 procVars, hostVars, crashes, faults>>

(* A deployed receipt is valid only with the job's durable checkpoint. *)
Adjudicate ==
  /\ wpc = "adjudicate"
  /\ Goto(CASE wreceipt = "deployed" /\ checkpoint[wjob] -> "push"
            [] wreceipt = "deploy_failed" -> "close_failed"
            [] wreceipt = "manual" -> "close_manual"
            [] OTHER -> "unknown_fuse")
  /\ UNCHANGED <<rowVars, gateVars, procVars, hostVars, crashes, faults>>

(* Slip: believes the lane, which has pushed canonical before it reports. *)
PushOnLaneWord ==
  /\ wpc = "push"
  /\ IF wreceipt = "deployed" THEN Goto("close_pushed") ELSE Goto("pending_fuse")
  /\ UNCHANGED <<rowVars, gateVars, procVars, hostVars, crashes, faults>>

(* The worker pushes canonical itself and reads the branch back. *)
PushCanonical ==
  /\ wpc = "push"
  /\ \/ /\ pushed' = [pushed EXCEPT ![wjob] = TRUE]
        /\ Goto("close_pushed")
        /\ UNCHANGED pushPending
     \/ /\ pushPending' = [pushPending EXCEPT ![wjob] = TRUE]
        /\ Goto("pending_fuse")
        /\ UNCHANGED pushed
  /\ UNCHANGED <<status, checkpoint, receipt, posted, gateVars, procVars, hostVars, crashes, faults>>

(* Slip: a pending push does not pull the fuse. *)
PendingWithoutFuse ==
  /\ wpc = "pending_fuse"
  /\ Goto("close_pending")
  /\ UNCHANGED <<rowVars, gateVars, procVars, hostVars, crashes, faults>>

EngageForPending ==
  /\ wpc = "pending_fuse"
  /\ EngageFuse(wjob)
  /\ Goto("close_pending")
  /\ UNCHANGED <<cleared, revoked, rowVars, procVars, hostVars, crashes, faults>>

EngageForUnknown ==
  /\ wpc = "unknown_fuse"
  /\ EngageFuse(wjob)
  /\ Goto("close_unknown")
  /\ UNCHANGED <<cleared, revoked, rowVars, procVars, hostVars, crashes, faults>>

CloseAs(from, to, pending) ==
  /\ Terminalize(wjob, from, to, pending)
  /\ LetGo
  /\ UNCHANGED <<checkpoint, receipt, pushed, gateVars, procVars, hostVars, crashes, faults>>

CloseDeployed ==
  \/ wpc = "close_pushed"  /\ CloseAs({"deploying"}, "deployed", FALSE)
  \/ wpc = "close_pending" /\ CloseAs({"deploying"}, "deployed", TRUE)
CloseUnknown == wpc = "close_unknown" /\ CloseAs({"deploying"}, "deploy_unknown", FALSE)
CloseFailed  == wpc = "close_failed"  /\ CloseAs({"deploying"}, "deploy_failed", FALSE)
CloseManual  ==
  wpc = "close_manual" /\ CloseAs({"received", "deploying"}, "manual_required", FALSE)

--------------------------------------------------------------------------------
(* Failures of the gateway. *)

(* These steps run a transaction or a host call that may throw. Inside
   runClaimed's try the job is settled once from durable state; anywhere else
   the tick ends, and withRepairLock's finally has freed the mutex. *)
Throwing == {"locked", "prepare", "exited", "settle", "adjudicate", "push", "pending_fuse",
             "unknown_fuse", "close_pushed", "close_pending", "close_unknown",
             "close_failed", "close_manual"}

Fault ==
  /\ wpc \in Throwing
  /\ faults < MaxFaults
  /\ faults' = faults + 1
  /\ lock' = [r \in Repairs |-> IF lock[r] = "worker" THEN "free" ELSE lock[r]]
  /\ IF wtry
     THEN wpc' = "settle" /\ wtry' = FALSE /\ wreceipt' = "none" /\ UNCHANGED <<wjob, wrevoked>>
     ELSE LetGo
  /\ UNCHANGED <<rowVars, gateVars, intake, attached, hostVars, crashes>>

Crash ==
  /\ wpc # "down"
  /\ crashes < MaxCrashes
  /\ crashes' = crashes + 1
  /\ wpc' = "down"
  /\ wjob' = None
  /\ wreceipt' = "none"
  /\ wrevoked' = FALSE
  /\ wtry' = FALSE
  /\ intake' = {}
  /\ lock' = [r \in Repairs |-> "free"]
  /\ attached' = {}
  /\ pipe' = [j \in Jobs |-> <<>>]
  /\ UNCHANGED <<rowVars, gateVars, lane, childUp, effect, starts, faults>>

Restart ==
  /\ wpc = "down"
  /\ wpc' = "idle"
  /\ UNCHANGED <<wjob, wreceipt, wrevoked, wtry, rowVars, gateVars, procVars, hostVars, crashes, faults>>

--------------------------------------------------------------------------------
(* The lane: one shell script in its scope, deploy-v5.sh below it. *)

(* A line for a reader that is gone kills the shell with SIGPIPE. *)
Emit(j, event, next) ==
  IF j \in attached
  THEN /\ pipe' = [pipe EXCEPT ![j] = Append(@, event)]
       /\ lane' = [lane EXCEPT ![j] = next]
  ELSE /\ UNCHANGED pipe
       /\ lane' = [lane EXCEPT ![j] = "killed"]

LaneStep == UNCHANGED <<rowVars, gateVars, workVars, procVars, starts, crashes, faults>>

(* A pre-deploy check refuses: nothing was deployed. Without a usable argsFile
   the refusal names no job, which the worker can only take for unknown. *)
LaneRefuse(j) ==
  /\ lane[j] = "checks"
  /\ \E event \in {"manual", "deploy_unknown"} : Emit(j, event, "exited")
  /\ UNCHANGED <<childUp, effect>> /\ LaneStep

LaneDeploy(j) ==
  /\ lane[j] = "checks"
  /\ lane' = [lane EXCEPT ![j] = "deploy"]
  /\ childUp' = [childUp EXCEPT ![j] = TRUE]
  /\ effect' = [effect EXCEPT ![j] = "partial"]
  /\ UNCHANGED pipe /\ LaneStep

(* deploy-v5.sh ends, with its shell or orphaned in the scope. *)
ChildEnds(j) ==
  /\ childUp[j]
  /\ childUp' = [childUp EXCEPT ![j] = FALSE]
  /\ \E e \in {"none", "partial", "applied"} : effect' = [effect EXCEPT ![j] = e]
  /\ lane' = [lane EXCEPT ![j] = IF @ = "deploy" THEN "proof" ELSE @]
  /\ UNCHANGED pipe /\ LaneStep

(* The read-only prover: a definite verdict is true, and it may have none. *)
LaneProve(j) ==
  /\ lane[j] = "proof"
  /\ \/ /\ effect[j] = "applied"
        /\ \E e \in {"checkpoint", "unbound_checkpoint"} : Emit(j, e, "push")
     \/ effect[j] = "none" /\ Emit(j, "deploy_failed", "exited")
     \/ Emit(j, "deploy_unknown", "exited")
  /\ UNCHANGED <<childUp, effect>> /\ LaneStep

LaneReport(j) ==
  /\ lane[j] = "push"
  /\ Emit(j, "deployed", "exited")
  /\ UNCHANGED <<childUp, effect>> /\ LaneStep

(* The shell dies alone: at a line of its diagnostics when nobody reads them,
   or, with LeaderMayDie, at any time. *)
LeaderDies(j) ==
  /\ lane[j] \in LaneLive
  /\ j \notin attached \/ LeaderMayDie
  /\ lane' = [lane EXCEPT ![j] = "killed"]
  /\ UNCHANGED <<childUp, effect, pipe>> /\ LaneStep

--------------------------------------------------------------------------------
Webhook ==
  \/ \E j \in Jobs : CheckIntake(j) \/ InsertRelease(j) \/ ClearFuse(j) \/ CancelRelease(j)
  \/ \E r \in Repairs : CancelEnter(r) \/ CancelRevoke(r)

(* The worker's steps that need only itself. *)
WorkerStep ==
  \/ CloseRevoked \/ CloseManualPlan \/ Claim \/ Spawn \/ SpawnError
  \/ LaneExit \/ ScopeConfirmedDead \/ KillScope \/ HoldJob
  \/ SettleFromDurableState \/ PersistReceipt \/ Adjudicate
  \/ PushCanonical \/ EngageForPending \/ EngageForUnknown
  \/ CloseDeployed \/ CloseUnknown \/ CloseFailed \/ CloseManual

Worker ==
  \/ \E j \in Jobs : ReadFuse(j) \/ ReadLine(j) \/ LoseCheckpoint(j) \/ Recover(j)
  \/ EnterLock
  \/ WorkerStep
  \/ LaneTimeout

LaneProgress(j) == LaneRefuse(j) \/ LaneDeploy(j) \/ ChildEnds(j) \/ LaneProve(j) \/ LaneReport(j)

Host == \E j \in Jobs : LaneProgress(j) \/ LeaderDies(j)

Next == Webhook \/ Worker \/ Host \/ Fault \/ Crash \/ Restart

Spec == Init /\ [][Next]_vars

(* The sweep runs on a timer and recovers before it claims; the mutex is a
   FIFO; systemd restarts the gateway; the lane's commands end (flock -w, the
   timeouts of ssh and git), so its scope empties. Nothing else is promised:
   no request, no cancel and no clearing of the fuse ever has to come. *)
Fairness ==
  /\ WF_vars(WorkerStep) /\ WF_vars(Restart)
  /\ \A r \in Repairs : WF_vars(CancelRevoke(r))
  /\ SF_vars(EnterLock)
  /\ \A j \in Jobs : /\ SF_vars(Recover(j)) /\ SF_vars(ReadFuse(j))
                     /\ WF_vars(LaneProgress(j))

FairSpec == Spec /\ Fairness

--------------------------------------------------------------------------------
(* Properties *)

(* A release is deployed at most once: whatever crashes, faults, timeouts and
   recoveries happen, no second lane is ever spawned for a job. *)
AtMostOneStart == \A j \in Jobs : starts[j] <= 1

(* Host-wide singleflight of the ledger: two rows are never deploying. *)
Singleflight ==
  \A j, k \in Jobs : status[j] = "deploying" /\ status[k] = "deploying" => j = k

(* Two scopes are never alive at once, so two deploys never mutate production
   together, although the ledger, not the host, decides who may start. *)
OneScopeAtATime == \A j, k \in Jobs : ScopeActive(j) /\ ScopeActive(k) => j = k

(* What the ledger says of a closed job is what happened to production:
   deployed only over an applied effect with a durable checkpoint; failed,
   manual and cancelled only when nothing was changed and nothing is running. *)
ReportedOutcomeTrue ==
  \A j \in Jobs :
    /\ status[j] = "deployed" => checkpoint[j] /\ effect[j] = "applied"
    /\ status[j] \in {"absent", "received", "cancelled"} => starts[j] = 0
    /\ status[j] \in {"deploy_failed", "manual_required"} =>
         effect[j] = "none" /\ ~ScopeActive(j)

(* A job whose outcome a human still has to settle: unknown, or deployed with
   production ahead of the canonical branch. *)
Unresolved(j) == status[j] = "deploy_unknown" \/ (status[j] = "deployed" /\ pushPending[j])

(* The fuse has one slot and every unresolved job wants it: until v5 clears a
   job's epoch, the fuse is engaged for that very job, across crashes between
   the engage and the close and late clears of other epochs. *)
FuseHoldsUnresolved == \A j \in Jobs : Unresolved(j) /\ j \notin cleared => fuse = j

(* A deployed job that is not resolved as pending had canonical pushed and
   read back by the worker itself. *)
DeployedIsPushed == \A j \in Jobs : status[j] = "deployed" /\ ~pushPending[j] => pushed[j]

(* v5 is told one final outcome of a job, the one in the ledger, and is told
   it whenever the job is closed by the worker. *)
OneVerdict ==
  \A j \in Jobs, phase \in Phase \ {"deploying"} : <<j, phase>> \in posted <=> status[j] = phase

(* Once a cancel has revoked a repair's release under its mutex, no job of
   that repair is claimed any more, even by a worker that was half way. *)
RevokedNeverClaimed ==
  [][\A j \in Jobs : status[j] = "received" /\ status'[j] = "deploying" => RepairOf[j] \notin revoked]_vars

(* The worker's rule: a job leaves deploying only when its scope is dead. *)
SettleOnlyDeadScope ==
  [][\A j \in Jobs : status[j] = "deploying" /\ status'[j] # "deploying" => ~ScopeActive(j)]_vars

(* Every claimed job is closed in the end, so the singleflight is freed. *)
ClaimedIsClosed == \A j \in Jobs : status[j] = "deploying" ~> status[j] \in Closed

(* Every received job is taken up - claimed, closed or cancelled - unless the
   fuse gets engaged: a busy deploy only delays it. *)
ReceivedIsTaken == \A j \in Jobs : status[j] = "received" ~> status[j] # "received" \/ fuse # None

(* The ledger and its one-slot fuse implement at-most-once deploys that wait
   for a human: the fuse stands for the set of all unresolved epochs. *)
Promise == INSTANCE AtMostOnceDeploy WITH
  phase <- [j \in Jobs |-> IF status[j] = "deployed" /\ pushPending[j]
                           THEN "deployed_unpushed" ELSE status[j]],
  launched <- {j \in Jobs : starts[j] > 0},
  waived <- cleared

DeploysAtMostOnce == Promise!Spec
--------------------------------------------------------------------------------
(* The inductive invariant: what every step relies on. *)

(* Whatever crashed before, at its points of work the worker has a job, and
   that job is deploying; inside the mutex only a cancel can have overtaken it. *)
Owned ==
  /\ wpc \in {"locking", "locked"} \cup AtWork => wjob \in Jobs
  /\ wpc = "locked" => status[wjob] \in {"received", "cancelled"}
  /\ wpc \in AtWork => status[wjob] = "deploying"
  /\ wtry => wpc \in AtWork

(* A lane is spawned only for the job just claimed, never spawned for before. *)
Started ==
  /\ AtMostOneStart
  /\ \A j \in Jobs : status[j] \in {"absent", "received", "cancelled"} => starts[j] = 0
  /\ wpc = "prepare" => starts[wjob] = 0

(* The fuse belongs to the job that is deploying, if one is; it is engaged
   before the close that needs it. *)
Fused ==
  /\ \A j \in Jobs : status[j] = "deploying" => fuse \in {None, j}
  /\ wpc \in {"close_unknown", "close_pending"} => fuse = wjob \/ wjob \in cleared
  /\ FuseHoldsUnresolved

Pushed == DeployedIsPushed /\ (wpc = "close_pushed" => pushed[wjob])

(* Inside the mutex the worker's reading of release_revoked is current. *)
Guarded ==
  wpc = "locked" => /\ lock[RepairOf[wjob]] = "worker"
                    /\ RepairOf[wjob] \in revoked => wrevoked

(* Production never changes again under a lane that is over with no child. *)
Quiet(j, e) == effect[j] = e /\ ~childUp[j]

LaneShape ==
  \A j \in Jobs :
    /\ starts[j] = 0 <=> lane[j] = "unstarted"
    /\ lane[j] = "unstarted" => pipe[j] = <<>> /\ ~checkpoint[j]
    /\ lane[j] \in {"unstarted", "checks"} => Quiet(j, "none")
    /\ lane[j] = "proof" => ~childUp[j]
    /\ lane[j] = "push" => Quiet(j, "applied")

(* Each piece of evidence - on the wire, durable, or in the worker's hands -
   is true of production and cannot become false. *)
TrueOf(j, event) ==
  /\ event = "checkpoint" => Quiet(j, "applied") /\ lane[j] \in {"push"} \cup LaneOver
  /\ event \in {"deploy_failed", "manual"} => Quiet(j, "none") /\ lane[j] \in LaneOver

Evidence ==
  /\ \A j \in Jobs :
       /\ \A i \in DOMAIN pipe[j] : TrueOf(j, pipe[j][i])
       /\ checkpoint[j] => TrueOf(j, "checkpoint")
       /\ TrueOf(j, receipt[j])
  /\ wpc \in {"down", "idle"} => wreceipt = "none"
  /\ wjob \in Jobs => TrueOf(wjob, wreceipt)
  /\ wpc \in {"push", "pending_fuse", "close_pushed", "close_pending"} => checkpoint[wjob]
  /\ wpc = "close_failed" => TrueOf(wjob, "deploy_failed")
  /\ wpc = "close_manual" => TrueOf(wjob, "manual")

IInv == TypeOK /\ Owned /\ Started /\ Singleflight /\ Fused /\ Pushed /\ Guarded
        /\ OneVerdict /\ LaneShape /\ Evidence /\ ReportedOutcomeTrue
================================================================================
