------------------------------- MODULE RepairJob -------------------------------
(***************************************************************************)
(* The life of a repair in the gateway: the dispatch that v5 sends, the     *)
(* job worker that drives it (jobWorker.ts) through a Tier1 host action or  *)
(* a Tier2 agent turn (sessionManager.ts, submitWithExecutionId), the       *)
(* cancel that races it (cancel.ts), and the rows all of them share         *)
(* (selfhealStore.ts).                                                      *)
(*                                                                          *)
(* One step is one SQLite statement or transaction, one request to v5, one  *)
(* SSH command, or one event of the agent's runner.  The gateway is one     *)
(* process: Crash, or the end of a graceful shutdown, loses what it holds   *)
(* in memory and the agent's turn; the rows survive.                        *)
(***************************************************************************)
EXTENDS Naturals

CONSTANTS
  Repairs,      \* repair ids
  None,         \* no repair
  RoutesOf,     \* the routings v5 may answer for each repair
  MaxCrashes,   \* bound: crashes and graceful restarts of the gateway
  MaxFaults,    \* bound: failing statements and teardowns
  MayShutDown   \* whether the gateway may be shut down gracefully

(* A routing is a Tier1 opcode this host executes, one it refuses (opcode
   drift, or no host configured), or a Tier2 agent turn. *)
Route == {"tier1", "refused", "tier2"}

ASSUME RepairAssumption ==
  /\ None \notin Repairs
  /\ RoutesOf \in [Repairs -> SUBSET Route]

ASSUME LimitAssumption ==
  /\ MaxCrashes \in Nat
  /\ MaxFaults \in Nat
  /\ MayShutDown \in BOOLEAN

VARIABLES
  (* a row of selfheal_jobs, and its callbacks *)
  status,     \* the job's status; "absent" before its row exists
  lease,      \* who holds an unexpired lease: this process, a dead one, none
  routing,    \* the frozen condition key, class and opcode
  claimed,    \* tier1_claimed_at is set
  receipt,    \* outcome in tier1_receipt
  revoked,    \* release_revoked is set
  callback,   \* outbox rows of the job, by phase
  (* a row of selfheal_executions, and of durable_turn_queue *)
  exec,
  queue,
  (* the gateway process *)
  proc,       \* running, or how far its shutdown has come
  lock,       \* holder of each per-repair mutex
  session,    \* the session manager has the repair's session
  live,       \* the runner is executing the repair's turn
  pc, job,    \* what the worker is doing, and for which repair
  route,      \* the routing it read back from the row
  outcome,    \* the receipt it holds
  turnError,  \* the turn it awaited surfaced an error
  cpc,        \* what a cancel of each repair is doing
  (* what the outside world has seen *)
  sent,       \* opcodes transmitted to the host
  starts,     \* turns started
  reported,   \* v5 was told that the repair failed
  told,       \* v5 was told that the repair is terminated
  crashes, faults

rowVars   == <<status, lease, routing, revoked, callback>>
tierVars  == <<claimed, receipt, sent>>
turnVars  == <<exec, queue, live, starts>>
workVars  == <<pc, job, route, outcome, turnError>>
procVars  == <<proc, lock, session, cpc>>
toldVars  == <<reported, told>>
vars == <<rowVars, tierVars, turnVars, workVars, procVars, toldVars, crashes, faults>>

Executable == {"starting", "running"}
Ended      == {"succeeded", "failed", "cancelled"}
Status     == {"absent", "received", "cancelling"} \cup Executable \cup Ended
Receipt    == {"completed", "action_failed", "rejected", "unknown"}
Phase      == {"done", "failed"}

(* The worker's points inside the repair's mutex, inside the turn's promise,
   and under the lease-renewal timer. *)
InLock    == {"tier1_cas", "tier1_receipt", "tier1_claim", "tier1_ssh", "tier1_store",
              "tier1_settle", "turn_cas", "abandon_turn"}
InPromise == {"reopen", "enqueue", "claim_turn", "submit", "starting", "turn", "turn_over",
              "turn_threw"}
Renewing  == InPromise \cup {"deduped", "finalize", "turn_failed"}
WorkerPc  == {"idle", "capability", "freeze", "ack", "dispatch", "tier1_lock", "clone",
              "session", "turn_lock", "mark_failed", "report"} \cup InLock \cup Renewing
CancelPc  == {"idle", "waiting", "read", "tombstone", "direct", "mark", "teardown",
              "confirm", "residual", "revoke", "abandon"}

RowsTyped ==
  /\ status \in [Repairs -> Status]
  /\ lease \in [Repairs -> {"none", "mine", "dead"}]
  /\ routing \in [Repairs -> Route \cup {"none"}]
  /\ revoked \in [Repairs -> BOOLEAN]
  /\ callback \in [Repairs -> [Phase -> {"none", "queued", "abandoned"}]]

TierTyped ==
  /\ claimed \in [Repairs -> BOOLEAN]
  /\ receipt \in [Repairs -> Receipt \cup {"none"}]
  /\ sent \in [Repairs -> Nat]

TurnTyped ==
  /\ exec \in [Repairs -> {"none", "accepted", "running", "done", "failed"}]
  /\ queue \in [Repairs -> {"none", "queued", "consumed"}]
  /\ live \in [Repairs -> BOOLEAN]
  /\ starts \in [Repairs -> Nat]

WorkTyped ==
  /\ pc \in WorkerPc
  /\ job \in Repairs \cup {None}
  /\ route \in Route \cup {"none"}
  /\ outcome \in Receipt \cup {"none"}
  /\ turnError \in BOOLEAN

ProcTyped ==
  /\ proc \in {"up", "draining", "stopped", "closing", "down"}
  /\ lock \in [Repairs -> {"free", "worker", "cancel"}]
  /\ session \in [Repairs -> BOOLEAN]
  /\ cpc \in [Repairs -> CancelPc]

ToldTyped ==
  /\ reported \in [Repairs -> BOOLEAN]
  /\ told \in [Repairs -> BOOLEAN]

CountersTyped == crashes \in Nat /\ faults \in Nat

TypeOK ==
  /\ RowsTyped /\ TierTyped /\ TurnTyped /\ WorkTyped /\ ProcTyped /\ ToldTyped
  /\ CountersTyped

Init ==
  /\ status = [r \in Repairs |-> "absent"]
  /\ lease = [r \in Repairs |-> "none"]
  /\ routing = [r \in Repairs |-> "none"]
  /\ claimed = [r \in Repairs |-> FALSE]
  /\ receipt = [r \in Repairs |-> "none"]
  /\ revoked = [r \in Repairs |-> FALSE]
  /\ callback = [r \in Repairs |-> [p \in Phase |-> "none"]]
  /\ exec = [r \in Repairs |-> "none"]
  /\ queue = [r \in Repairs |-> "none"]
  /\ proc = "up"
  /\ lock = [r \in Repairs |-> "free"]
  /\ session = [r \in Repairs |-> FALSE]
  /\ live = [r \in Repairs |-> FALSE]
  /\ pc = "idle"
  /\ job = None
  /\ route = "none"
  /\ outcome = "none"
  /\ turnError = FALSE
  /\ cpc = [r \in Repairs |-> "idle"]
  /\ sent = [r \in Repairs |-> 0]
  /\ starts = [r \in Repairs |-> 0]
  /\ reported = [r \in Repairs |-> FALSE]
  /\ told = [r \in Repairs |-> FALSE]
  /\ crashes = 0
  /\ faults = 0

--------------------------------------------------------------------------------
(* Steps shared by the handlers. *)

(* The guarded status update; the callers that check its result test
   CasWins in the same step. *)
CasWins(r, from) == status[r] \in from
Cas(r, from, to) ==
  status' = IF CasWins(r, from) THEN [status EXCEPT ![r] = to] ELSE status

Goto(p) == pc' = p /\ UNCHANGED <<job, route, outcome, turnError>>

(* processJob returned or threw to the tick. *)
LetGo ==
  /\ pc' = "idle"
  /\ job' = None
  /\ route' = "none"
  /\ outcome' = "none"
  /\ turnError' = FALSE

Unlock(r) == lock' = [lock EXCEPT ![r] = "free"]

(* A new dispatch; a re-delivery finds the row, answers duplicate or
   conflict, and changes nothing. *)
Dispatch(r) ==
  /\ proc = "up"
  /\ status[r] = "absent"
  /\ status' = [status EXCEPT ![r] = "received"]
  /\ UNCHANGED <<lease, routing, revoked, callback, tierVars, turnVars, workVars,
                 procVars, toldVars, crashes, faults>>

--------------------------------------------------------------------------------
(* The worker: from a claimed job to its route. *)

(* A slip: only a job that had not begun running is claimed again. *)
ClaimableSlip(r) ==
  \/ status[r] = "received"
  \/ status[r] = "starting" /\ lease[r] = "none"

(* The tick leases one job: a received one, or one whose lease ran out.  The
   code takes the oldest; any of them is a superset of that. *)
Claimable(r) ==
  \/ status[r] = "received"
  \/ status[r] \in Executable /\ lease[r] = "none"

Claim(r) ==
  /\ proc \in {"up", "draining"}
  /\ pc = "idle"
  /\ Claimable(r)
  /\ status' = [status EXCEPT ![r] = "starting"]
  /\ lease' = [lease EXCEPT ![r] = "mine"]
  /\ pc' = "capability"
  /\ job' = r
  /\ UNCHANGED <<routing, revoked, callback, tierVars, turnVars, route, outcome, turnError,
                 procVars, toldVars, crashes, faults>>

(* v5 issues the short-lived capability. *)
FetchCapability ==
  /\ pc = "capability"
  /\ Goto("freeze")
  /\ UNCHANGED <<rowVars, tierVars, turnVars, procVars, toldVars, crashes, faults>>

(* The routing is fetched unless it is frozen, written set-once, and what the
   row holds then is what the worker goes by. *)
Freeze(c) ==
  /\ pc = "freeze"
  /\ c \in RoutesOf[job]
  /\ routing' = IF routing[job] = "none" THEN [routing EXCEPT ![job] = c] ELSE routing
  /\ route' = routing'[job]
  /\ pc' = "ack"
  /\ UNCHANGED <<status, lease, revoked, callback, tierVars, turnVars, job, outcome,
                 turnError, procVars, toldVars, crashes, faults>>

(* The acknowledgement has reached v5. *)
PostAck ==
  /\ pc = "ack"
  /\ Goto(IF route = "tier2" THEN "clone" ELSE "dispatch")
  /\ UNCHANGED <<rowVars, tierVars, turnVars, procVars, toldVars, crashes, faults>>

(* v5 did not answer, or refused: the job keeps its lease and its status, and
   is claimed again when the lease runs out. *)
RequestFails ==
  /\ pc \in {"capability", "freeze", "ack"}
  /\ LetGo
  /\ UNCHANGED <<rowVars, tierVars, turnVars, procVars, toldVars, crashes, faults>>

(* The lease of a dead process, or of a worker whose renewal timer does not
   run, ends by the clock. *)
LeaseExpires(r) ==
  /\ lease[r] # "none"
  /\ ~(lease[r] = "mine" /\ job = r /\ pc \in Renewing)
  /\ lease' = [lease EXCEPT ![r] = "none"]
  /\ UNCHANGED <<status, routing, revoked, callback, tierVars, turnVars, workVars,
                 procVars, toldVars, crashes, faults>>

RenewLease ==
  /\ pc \in Renewing
  /\ lease[job] = "none"
  /\ status[job] \in Executable
  /\ lease' = [lease EXCEPT ![job] = "mine"]
  /\ UNCHANGED <<status, routing, revoked, callback, tierVars, turnVars, workVars,
                 procVars, toldVars, crashes, faults>>

--------------------------------------------------------------------------------
(* Tier1: one host action, under the repair's mutex. *)

(* A slip: the callback is queued whether or not the status was won. *)
TerminalizeSlip(r, from, to) ==
  /\ Cas(r, from, to)
  /\ callback' =
       [callback EXCEPT ![r][IF to = "succeeded" THEN "done" ELSE "failed"] = "queued"]

(* The terminal status and its callback, in one transaction. *)
Terminalize(r, from, to) ==
  /\ Cas(r, from, to)
  /\ callback' =
       IF CasWins(r, from) /\ callback[r][IF to = "succeeded" THEN "done" ELSE "failed"] = "none"
       THEN [callback EXCEPT ![r][IF to = "succeeded" THEN "done" ELSE "failed"] = "queued"]
       ELSE callback

(* Opcode drift, or no host configured: refused before the mutex. *)
Refuse ==
  /\ pc = "dispatch"
  /\ route = "refused"
  /\ Terminalize(job, Executable, "failed")
  /\ LetGo
  /\ UNCHANGED <<lease, routing, revoked, tierVars, turnVars, procVars, toldVars, crashes, faults>>

AcceptOpcode ==
  /\ pc = "dispatch"
  /\ route = "tier1"
  /\ Goto("tier1_lock")
  /\ UNCHANGED <<rowVars, tierVars, turnVars, procVars, toldVars, crashes, faults>>

EnterLock ==
  /\ pc \in {"tier1_lock", "turn_lock"}
  /\ lock[job] = "free"
  /\ lock' = [lock EXCEPT ![job] = "worker"]
  /\ Goto(IF pc = "tier1_lock" THEN "tier1_cas" ELSE "turn_cas")
  /\ UNCHANGED <<rowVars, tierVars, turnVars, proc, session, cpc, toldVars, crashes, faults>>

Tier1Run ==
  /\ pc = "tier1_cas"
  /\ Cas(job, Executable, "running")
  /\ IF CasWins(job, Executable)
     THEN Goto("tier1_receipt") /\ UNCHANGED lock
     ELSE LetGo /\ Unlock(job)
  /\ UNCHANGED <<lease, routing, revoked, callback, tierVars, turnVars, proc, session, cpc,
                 toldVars, crashes, faults>>

(* A receipt already on the row is settled as it stands. *)
Tier1Receipt ==
  /\ pc = "tier1_receipt"
  /\ outcome' = receipt[job]
  /\ pc' = IF receipt[job] = "none" THEN "tier1_claim" ELSE "tier1_settle"
  /\ UNCHANGED <<rowVars, tierVars, turnVars, job, route, turnError, procVars,
                 toldVars, crashes, faults>>

(* A slip: an attempt without a receipt transmits, claimed before or not. *)
Tier1ClaimSlip ==
  /\ pc = "tier1_claim"
  /\ claimed' = [claimed EXCEPT ![job] = TRUE]
  /\ pc' = "tier1_ssh"
  /\ UNCHANGED <<rowVars, receipt, sent, turnVars, job, route, outcome, turnError,
                 procVars, toldVars, crashes, faults>>

(* The durable pre-claim: its winner may transmit, a loser settles unknown. *)
Tier1Claim ==
  /\ pc = "tier1_claim"
  /\ claimed' = [claimed EXCEPT ![job] = TRUE]
  /\ outcome' = IF claimed[job] THEN "unknown" ELSE "none"
  /\ pc' = IF claimed[job] THEN "tier1_store" ELSE "tier1_ssh"
  /\ UNCHANGED <<rowVars, receipt, sent, turnVars, job, route, turnError,
                 procVars, toldVars, crashes, faults>>

(* The opcode goes out; the host answers with a receipt, refuses because a
   deploy is active (a "rejected" receipt too), or the transport is lost. *)
Transmit(o) ==
  /\ pc = "tier1_ssh"
  /\ sent' = [sent EXCEPT ![job] = @ + 1]
  /\ outcome' = o
  /\ pc' = "tier1_store"
  /\ UNCHANGED <<rowVars, claimed, receipt, turnVars, job, route, turnError,
                 procVars, toldVars, crashes, faults>>

(* The receipt is written set-once, and the row's is the one that counts. *)
Tier1Store ==
  /\ pc = "tier1_store"
  /\ receipt' = IF receipt[job] = "none" THEN [receipt EXCEPT ![job] = outcome] ELSE receipt
  /\ outcome' = receipt'[job]
  /\ pc' = "tier1_settle"
  /\ UNCHANGED <<rowVars, claimed, sent, turnVars, job, route, turnError,
                 procVars, toldVars, crashes, faults>>

(* Only a receipt that says nothing was done fails the repair. *)
Tier1Settle ==
  /\ pc = "tier1_settle"
  /\ Terminalize(job, {"running"}, IF outcome = "rejected" THEN "failed" ELSE "succeeded")
  /\ Unlock(job)
  /\ LetGo
  /\ UNCHANGED <<lease, routing, revoked, tierVars, turnVars, proc, session, cpc,
                 toldVars, crashes, faults>>

--------------------------------------------------------------------------------
(* Tier2: an agent's turn. *)

(* The agent exists and the clone is ready; or the repair fails. *)
CloneReady ==
  /\ pc = "clone"
  /\ Goto("session")
  /\ UNCHANGED <<rowVars, tierVars, turnVars, procVars, toldVars, crashes, faults>>

CloneFails ==
  /\ pc = "clone"
  /\ Goto("mark_failed")
  /\ UNCHANGED <<rowVars, tierVars, turnVars, procVars, toldVars, crashes, faults>>

(* The session is opened; a session manager that shuts down refuses. *)
OpenSession ==
  /\ pc = "session"
  /\ IF proc = "up"
     THEN session' = [session EXCEPT ![job] = TRUE] /\ Goto("turn_lock")
     ELSE UNCHANGED session /\ LetGo
  /\ UNCHANGED <<rowVars, tierVars, turnVars, proc, lock, cpc, toldVars, crashes, faults>>

(* In the mutex: the job must still be executable, and the turn is begun
   without waiting for it. *)
TurnRun ==
  /\ pc = "turn_cas"
  /\ Cas(job, Executable, "running")
  /\ IF CasWins(job, Executable)
     THEN Goto("reopen") /\ Unlock(job)
     ELSE Goto("abandon_turn") /\ UNCHANGED lock
  /\ UNCHANGED <<lease, routing, revoked, callback, tierVars, turnVars, proc, session, cpc,
                 toldVars, crashes, faults>>

(* A cancel was first: the session goes, nothing was submitted. *)
AbandonTurn ==
  /\ pc = "abandon_turn"
  /\ session' = [session EXCEPT ![job] = FALSE]
  /\ live' = [live EXCEPT ![job] = FALSE]
  /\ Unlock(job)
  /\ LetGo
  /\ UNCHANGED <<rowVars, tierVars, exec, queue, starts, proc, cpc, toldVars, crashes, faults>>

(* An attempt that a crash cut off is opened again. *)
Reopen ==
  /\ pc = "reopen"
  /\ IF exec[job] = "running"
     THEN /\ exec' = [exec EXCEPT ![job] = "accepted"]
          /\ queue' = [queue EXCEPT ![job] = IF @ = "consumed" THEN "queued" ELSE @]
     ELSE UNCHANGED <<exec, queue>>
  /\ Goto("enqueue")
  /\ UNCHANGED <<rowVars, tierVars, live, starts, procVars, toldVars, crashes, faults>>

(* The execution and its queued turn, once, and only for an executable job. *)
Enqueue ==
  /\ pc = "enqueue"
  /\ IF exec[job] = "none" /\ status[job] \in Executable
     THEN /\ exec' = [exec EXCEPT ![job] = "accepted"]
          /\ queue' = [queue EXCEPT ![job] = "queued"]
     ELSE UNCHANGED <<exec, queue>>
  /\ Goto("claim_turn")
  /\ UNCHANGED <<rowVars, tierVars, live, starts, procVars, toldVars, crashes, faults>>

(* A slip: the queued turn is consumed without a look at the job. *)
ClaimTurnSlip ==
  /\ pc = "claim_turn"
  /\ IF queue[job] = "queued"
     THEN /\ queue' = [queue EXCEPT ![job] = "consumed"]
          /\ exec' = [exec EXCEPT ![job] = IF @ = "accepted" THEN "running" ELSE @]
          /\ Goto("submit")
     ELSE Goto("deduped") /\ UNCHANGED <<exec, queue>>
  /\ UNCHANGED <<rowVars, tierVars, live, starts, procVars, toldVars, crashes, faults>>

(* The queued turn is consumed, again only for an executable job; a worker
   that loses mirrors what the execution came to. *)
ClaimTurn ==
  /\ pc = "claim_turn"
  /\ IF queue[job] = "queued" /\ status[job] \in Executable
     THEN /\ queue' = [queue EXCEPT ![job] = "consumed"]
          /\ exec' = [exec EXCEPT ![job] = IF @ = "accepted" THEN "running" ELSE @]
          /\ Goto("submit")
     ELSE Goto("deduped") /\ UNCHANGED <<exec, queue>>
  /\ UNCHANGED <<rowVars, tierVars, live, starts, procVars, toldVars, crashes, faults>>

(* submit: a session manager that shuts down refuses the turn. *)
Submit ==
  /\ pc = "submit"
  /\ Goto(IF proc = "up" THEN "starting" ELSE "turn_threw")
  /\ UNCHANGED <<rowVars, tierVars, exec, queue, live, starts, procVars, toldVars,
                 crashes, faults>>

(* The runner spawns its process and starts the turn, whatever has become of
   the session since submit was called. *)
StartTurn ==
  /\ pc = "starting"
  /\ live' = [live EXCEPT ![job] = TRUE]
  /\ starts' = [starts EXCEPT ![job] = @ + 1]
  /\ Goto("turn")
  /\ UNCHANGED <<rowVars, tierVars, exec, queue, procVars, toldVars, crashes, faults>>

(* The agent is done, with or without an error in its stream, or submit
   rejects. *)
EndTurn(how, throws) ==
  /\ pc = "turn"
  /\ live[job]
  /\ live' = [live EXCEPT ![job] = FALSE]
  /\ turnError' = (how = "error")
  /\ pc' = IF throws THEN "turn_threw" ELSE "turn_over"
  /\ UNCHANGED <<rowVars, tierVars, exec, queue, starts, job, route, outcome, procVars,
                 toldVars, crashes, faults>>

(* Its process was shut down under it; the exit surfaces as an error. *)
LoseTurn ==
  /\ pc = "turn"
  /\ ~live[job]
  /\ turnError' = TRUE
  /\ pc' = "turn_over"
  /\ UNCHANGED <<rowVars, tierVars, exec, queue, live, starts, job, route, outcome, procVars,
                 toldVars, crashes, faults>>

(* A slip: the ledger is settled in a finally, as done. *)
SettleExecutionSlip ==
  /\ pc \in {"turn_over", "turn_threw"}
  /\ exec' = [exec EXCEPT ![job] = "done"]
  /\ Goto(IF pc = "turn_over" THEN "finalize" ELSE "turn_failed")
  /\ UNCHANGED <<rowVars, tierVars, queue, live, starts, procVars, toldVars, crashes, faults>>

(* submit returned, or threw: the ledger is settled. *)
SettleExecution ==
  /\ pc \in {"turn_over", "turn_threw"}
  /\ exec' = [exec EXCEPT ![job] = IF pc = "turn_over" THEN "done" ELSE "failed"]
  /\ Goto(IF pc = "turn_over" THEN "finalize" ELSE "turn_failed")
  /\ UNCHANGED <<rowVars, tierVars, queue, live, starts, procVars, toldVars, crashes, faults>>

(* A slip: the failure is reported whoever won the status. *)
SettleJobSlip(to) ==
  /\ Cas(job, Executable, to)
  /\ IF to = "failed" THEN Goto("report") ELSE LetGo
  /\ UNCHANGED <<lease, routing, revoked, callback, tierVars, turnVars, procVars, toldVars,
                 crashes, faults>>

(* The job follows the turn's error; a failure it has recorded itself is
   reported. *)
SettleJob(to) ==
  /\ Cas(job, Executable, to)
  /\ IF to = "failed" /\ CasWins(job, Executable) THEN Goto("report") ELSE LetGo
  /\ UNCHANGED <<lease, routing, revoked, callback, tierVars, turnVars, procVars, toldVars,
                 crashes, faults>>

Finalize ==
  /\ pc = "finalize"
  /\ SettleJob(IF turnError THEN "failed" ELSE "succeeded")

(* The turn was consumed before: its execution decides. *)
Deduped ==
  /\ pc = "deduped"
  /\ SettleJob(IF exec[job] = "done" THEN "succeeded" ELSE "failed")

MarkFailed ==
  /\ pc \in {"mark_failed", "turn_failed"}
  /\ SettleJob("failed")

(* Best effort: the report reaches v5, or is lost. *)
Report(arrives) ==
  /\ pc = "report"
  /\ reported' = [reported EXCEPT ![job] = @ \/ arrives]
  /\ LetGo
  /\ UNCHANGED <<rowVars, tierVars, turnVars, procVars, told, crashes, faults>>

--------------------------------------------------------------------------------
(* Cancel of a repair, under its mutex. *)

CancelAt(r, p) == cpc' = [cpc EXCEPT ![r] = p]

(* The handler answers v5, and leaves the mutex. *)
Answer(r, terminated) ==
  /\ CancelAt(r, "idle")
  /\ Unlock(r)
  /\ told' = [told EXCEPT ![r] = @ \/ terminated]

RequestCancel(r) ==
  /\ proc = "up"
  /\ cpc[r] = "idle"
  /\ CancelAt(r, "waiting")
  /\ UNCHANGED <<rowVars, tierVars, turnVars, workVars, proc, lock, session, toldVars,
                 crashes, faults>>

CancelEnter(r) ==
  /\ cpc[r] = "waiting"
  /\ lock[r] = "free"
  /\ lock' = [lock EXCEPT ![r] = "cancel"]
  /\ CancelAt(r, "read")
  /\ UNCHANGED <<rowVars, tierVars, turnVars, workVars, proc, session, toldVars, crashes, faults>>

(* What the row says, and whether the session is there, decide the case. *)
CancelRead(r) ==
  /\ cpc[r] = "read"
  /\ status[r] # "cancelled"
  /\ CancelAt(r, CASE status[r] = "absent" -> "tombstone"
                   [] status[r] \in {"succeeded", "failed"} -> "residual"
                   [] OTHER -> IF session[r] THEN "mark" ELSE "direct")
  /\ UNCHANGED <<rowVars, tierVars, turnVars, workVars, proc, lock, session, toldVars,
                 crashes, faults>>

CancelAgain(r) ==
  /\ cpc[r] = "read"
  /\ status[r] = "cancelled"
  /\ Answer(r, TRUE)
  /\ UNCHANGED <<rowVars, tierVars, turnVars, workVars, proc, session, reported, crashes, faults>>

(* An unknown repair gets a cancelled row, unless a dispatch was faster. *)
CancelTombstone(r) ==
  /\ cpc[r] = "tombstone"
  /\ Cas(r, {"absent"}, "cancelled")
  /\ IF CasWins(r, {"absent"})
     THEN Answer(r, TRUE)
     ELSE CancelAt(r, "read") /\ UNCHANGED <<lock, told>>
  /\ UNCHANGED <<lease, routing, revoked, callback, tierVars, turnVars, workVars, proc, session,
                 reported, crashes, faults>>

CancelDirect(r) ==
  /\ cpc[r] = "direct"
  /\ Cas(r, {"received", "starting", "running", "cancelling"}, "cancelled")
  /\ Answer(r, status'[r] = "cancelled")
  /\ UNCHANGED <<lease, routing, revoked, callback, tierVars, turnVars, workVars, proc, session,
                 reported, crashes, faults>>

CancelMark(r) ==
  /\ cpc[r] = "mark"
  /\ Cas(r, {"received", "starting", "running"}, "cancelling")
  /\ CancelAt(r, "teardown")
  /\ UNCHANGED <<lease, routing, revoked, callback, tierVars, turnVars, workVars, proc, lock,
                 session, toldVars, crashes, faults>>

(* interrupt and destroySession: the runner's process is killed, if there is
   one, and the session is forgotten. *)
Teardown(r) ==
  /\ session' = [session EXCEPT ![r] = FALSE]
  /\ live' = [live EXCEPT ![r] = FALSE]

CancelTeardown(r) ==
  /\ cpc[r] = "teardown"
  /\ Teardown(r)
  /\ CancelAt(r, "confirm")
  /\ UNCHANGED <<rowVars, tierVars, exec, queue, starts, workVars, proc, lock, toldVars,
                 crashes, faults>>

(* A slip: a teardown that threw is answered like one that succeeded. *)
CancelUnconfirmedSlip(r) ==
  /\ cpc[r] = "teardown"
  /\ faults < MaxFaults
  /\ faults' = faults + 1
  /\ Answer(r, TRUE)
  /\ UNCHANGED <<rowVars, tierVars, turnVars, workVars, proc, session, reported, crashes>>

(* The teardown threw: the job stays cancelling, for a later cancel. *)
CancelUnconfirmed(r) ==
  /\ cpc[r] = "teardown"
  /\ faults < MaxFaults
  /\ faults' = faults + 1
  /\ Answer(r, FALSE)
  /\ UNCHANGED <<rowVars, tierVars, turnVars, workVars, proc, session, reported, crashes>>

CancelConfirm(r) ==
  /\ cpc[r] = "confirm"
  /\ Cas(r, {"cancelling"}, "cancelled")
  /\ Answer(r, status'[r] = "cancelled")
  /\ UNCHANGED <<lease, routing, revoked, callback, tierVars, turnVars, workVars, proc, session,
                 reported, crashes, faults>>

(* A repair that has ended keeps its result: a leftover session is torn down
   at best effort, the release revoked, the queued callbacks abandoned. *)
CancelResidual(r) ==
  /\ cpc[r] = "residual"
  /\ \/ session[r] /\ Teardown(r)
     \/ UNCHANGED <<session, live>>
  /\ CancelAt(r, "revoke")
  /\ UNCHANGED <<rowVars, tierVars, exec, queue, starts, workVars, proc, lock, toldVars,
                 crashes, faults>>

CancelRevoke(r) ==
  /\ cpc[r] = "revoke"
  /\ revoked' = [revoked EXCEPT ![r] = TRUE]
  /\ CancelAt(r, "abandon")
  /\ UNCHANGED <<status, lease, routing, callback, tierVars, turnVars, workVars, proc, lock,
                 session, toldVars, crashes, faults>>

CancelAbandon(r) ==
  /\ cpc[r] = "abandon"
  /\ callback' = [callback EXCEPT ![r] =
       [p \in Phase |-> IF @[p] = "queued" THEN "abandoned" ELSE @[p]]]
  /\ Answer(r, TRUE)
  /\ UNCHANGED <<status, lease, routing, revoked, tierVars, turnVars, workVars, proc, session,
                 reported, crashes, faults>>

--------------------------------------------------------------------------------
(* Faults, crashes and the graceful shutdown. *)

(* Where a throw at each point of the worker is caught: by the turn's promise,
   by the await on it, or by the tick, which leaves the job as it is. *)
Caught(p) ==
  CASE p \in {"starting", "turn_over"} -> "turn_threw"
    [] p \in {"reopen", "enqueue", "claim_turn", "turn_threw", "deduped", "finalize"} ->
         "turn_failed"
    [] OTHER -> "idle"

WorkerThrows ==
  /\ pc \notin {"idle", "tier1_lock", "submit", "turn", "report"}
  /\ faults < MaxFaults
  /\ faults' = faults + 1
  /\ IF Caught(pc) = "idle" THEN LetGo ELSE Goto(Caught(pc))
  /\ lock' = IF pc \in InLock THEN [lock EXCEPT ![job] = "free"] ELSE lock
  /\ UNCHANGED <<rowVars, tierVars, turnVars, proc, session, cpc, toldVars, crashes>>

CancelThrows(r) ==
  /\ cpc[r] \notin {"idle", "waiting", "teardown", "residual"}
  /\ faults < MaxFaults
  /\ faults' = faults + 1
  /\ Answer(r, FALSE)
  /\ UNCHANGED <<rowVars, tierVars, turnVars, workVars, proc, session, reported, crashes>>

(* The process ends, killed or at the end of its shutdown: the worker, the
   cancels, the sessions and the agent's processes go with it. *)
Crash ==
  /\ proc # "down"
  /\ proc # "up" \/ crashes < MaxCrashes
  /\ proc' = "down"
  /\ crashes' = IF proc = "up" THEN crashes + 1 ELSE crashes
  /\ LetGo
  /\ cpc' = [r \in Repairs |-> "idle"]
  /\ lock' = [r \in Repairs |-> "free"]
  /\ session' = [r \in Repairs |-> FALSE]
  /\ live' = [r \in Repairs |-> FALSE]
  /\ lease' = [r \in Repairs |-> IF lease[r] = "mine" THEN "dead" ELSE lease[r]]
  /\ UNCHANGED <<status, routing, revoked, callback, tierVars, exec, queue, starts, toldVars,
                 faults>>

Restart ==
  /\ proc = "down"
  /\ proc' = "up"
  /\ UNCHANGED <<rowVars, tierVars, turnVars, workVars, lock, session, cpc, toldVars,
                 crashes, faults>>

(* Graceful shutdown: no new sessions and turns; then the worker stops and
   gives up its leases; then the runners are shut down; then the sessions
   have settled and the process exits. *)
BeginShutdown ==
  /\ MayShutDown
  /\ proc = "up"
  /\ crashes < MaxCrashes
  /\ crashes' = crashes + 1
  /\ proc' = "draining"
  /\ UNCHANGED <<rowVars, tierVars, turnVars, workVars, lock, session, cpc, toldVars, faults>>

StopWorker ==
  /\ proc = "draining"
  /\ proc' = "stopped"
  /\ lease' = [r \in Repairs |->
       IF lease[r] = "mine" /\ status[r] \in Executable THEN "none" ELSE lease[r]]
  /\ UNCHANGED <<status, routing, revoked, callback, tierVars, turnVars, workVars, lock, session,
                 cpc, toldVars, crashes, faults>>

ShutDownRunners ==
  /\ proc = "stopped"
  /\ proc' = "closing"
  /\ live' = [r \in Repairs |-> FALSE]
  /\ UNCHANGED <<rowVars, tierVars, exec, queue, starts, workVars, lock, session, cpc, toldVars,
                 crashes, faults>>

--------------------------------------------------------------------------------
Tier1Step ==
  \/ Refuse \/ AcceptOpcode \/ Tier1Run \/ Tier1Receipt \/ Tier1Claim
  \/ \E o \in Receipt : Transmit(o)
  \/ Tier1Store \/ Tier1Settle

TurnStep ==
  \/ CloneReady \/ CloneFails \/ OpenSession \/ TurnRun \/ AbandonTurn
  \/ Reopen \/ Enqueue \/ ClaimTurn \/ Submit \/ StartTurn
  \/ EndTurn("ok", FALSE)
  \/ \E throws \in BOOLEAN : EndTurn("error", throws)
  \/ LoseTurn \/ SettleExecution \/ Finalize \/ Deduped \/ MarkFailed
  \/ \E arrives \in BOOLEAN : Report(arrives)

RequestStep == FetchCapability \/ (\E c \in Route : Freeze(c)) \/ PostAck

CancelStep(r) ==
  \/ CancelRead(r) \/ CancelAgain(r) \/ CancelTombstone(r) \/ CancelDirect(r)
  \/ CancelMark(r) \/ CancelTeardown(r) \/ CancelConfirm(r)
  \/ CancelResidual(r) \/ CancelRevoke(r) \/ CancelAbandon(r)

ProcessStep ==
  \/ Crash \/ Restart \/ BeginShutdown \/ StopWorker \/ ShutDownRunners

Next ==
  \/ \E r \in Repairs :
       \/ Dispatch(r) \/ Claim(r) \/ LeaseExpires(r)
       \/ RequestCancel(r) \/ CancelEnter(r) \/ CancelStep(r)
       \/ CancelUnconfirmed(r) \/ CancelThrows(r)
  \/ RequestStep \/ RequestFails \/ RenewLease \/ EnterLock
  \/ Tier1Step \/ TurnStep \/ WorkerThrows
  \/ ProcessStep

Spec == Init /\ [][Next]_vars

(* The sweep of a timer that re-arms itself, the promise chain of a mutex,
   requests that v5 answers now and then, an agent whose turn ends, systemd
   that restarts the gateway, and a v5 that repeats a cancel it was not
   confirmed. *)
Fairness ==
  /\ WF_vars(Tier1Step) /\ WF_vars(TurnStep) /\ WF_vars(RequestStep \/ RequestFails)
  /\ SF_vars(FetchCapability) /\ SF_vars(\E c \in Route : Freeze(c)) /\ SF_vars(PostAck)
  /\ SF_vars(EnterLock)
  /\ WF_vars(Crash /\ proc # "up") /\ WF_vars(Restart)
  /\ WF_vars(StopWorker) /\ WF_vars(ShutDownRunners)
  /\ \A r \in Repairs :
       /\ SF_vars(Claim(r)) /\ WF_vars(LeaseExpires(r))
       /\ WF_vars(CancelStep(r)) /\ SF_vars(CancelEnter(r))
       /\ WF_vars(RequestCancel(r) /\ status[r] = "cancelling")

FairSpec == Spec /\ Fairness

--------------------------------------------------------------------------------
(* Properties. *)

(* A Tier1 repair that has ended by itself has told v5 so with the callback
   of that end and no other; it succeeded only over a receipt that does not
   refuse, and failed, once its opcode had gone out, only over one that does:
   terminalizeTier1WithCallback and the set-once receipt agree, whatever
   crashed in between. *)
Tier1Accounted ==
  \A r \in Repairs : routing[r] \in {"tier1", "refused"} =>
    /\ callback[r]["done"] # "none" <=> status[r] = "succeeded"
    /\ callback[r]["failed"] # "none" <=> status[r] = "failed"
    /\ status[r] = "succeeded" => receipt[r] \in Receipt \ {"rejected"}
    /\ status[r] = "failed" /\ sent[r] > 0 => receipt[r] = "rejected"

(* A repair is driven along one route: it never has both a host action and an
   agent's turn, even if v5 answers differently after a restart
   (setJobFrozenRouting and the read-back). *)
OneRoute ==
  \A r \in Repairs : ~(sent[r] > 0 /\ starts[r] > 0)

(* A Tier2 repair is recorded as succeeded only if its turn was started and
   the execution ledger says that it completed: no redrive, deduplication or
   lost row turns a swallowed turn into a success. *)
SuccessMeansRun ==
  \A r \in Repairs : status[r] = "succeeded" /\ routing[r] = "tier2" =>
    starts[r] > 0 /\ exec[r] = "done"

(* v5 is told of a failure only for a job that is, and stays, failed: a cancel
   that wins owns both the status and the report (markFailedAndReport,
   finalizeJob). *)
ReportTruthful ==
  \A r \in Repairs : reported[r] => status[r] = "failed"

(* What a cancel answered as terminated stays so: the repair is cancelled, or
   it had ended and its release is durably revoked. *)
TerminatedIsFinal ==
  \A r \in Repairs : told[r] =>
    \/ status[r] = "cancelled"
    \/ status[r] \in {"succeeded", "failed"} /\ revoked[r]

(* A cancel that finds the repair without a running turn is the last word on
   turns: none is claimed from the queue and none is started afterwards,
   wherever the worker stood (the fences of enqueueExecution and
   claimQueuedTurn, behind the mutex). *)
FencedTurn ==
  [][\A r \in Repairs :
       status[r] \in {"cancelling", "cancelled"} /\ exec[r] # "running" =>
         starts'[r] = starts[r] /\ exec'[r] # "running"]_vars

(* The detailed job implements what v5 was promised: one end per repair, the
   host action at most once and never while or after a cancel. *)
Fate(s) ==
  CASE s = "absent" -> "unknown"
    [] s \in {"received", "starting", "running"} -> "open"
    [] s = "cancelling" -> "closing"
    [] OTHER -> s

Promise == INSTANCE RepairPromise WITH
  fate <- [r \in Repairs |-> Fate(status[r])],
  acted <- sent

KeepsPromise == Promise!Spec

(* Every dispatched repair ends: crashes, expired leases, redrives and cancels
   lose none. *)
Settled ==
  \A r \in Repairs : status[r] = "received" ~> status[r] \in Ended

--------------------------------------------------------------------------------
(* The inductive invariant that the proofs rest on. *)

Tier1Pc == {"tier1_lock", "tier1_cas", "tier1_receipt", "tier1_claim", "tier1_ssh",
            "tier1_store", "tier1_settle"}
Tier2Pc == {"clone", "session", "turn_lock", "turn_cas", "abandon_turn", "mark_failed",
            "report"} \cup Renewing

(* The worker has a job exactly when it works; nobody but the worker and a
   cancel moves the job on, and what it reports as failed is. *)
Owned ==
  /\ pc = "idle" <=> job = None
  /\ pc \notin {"idle", "report"} =>
       status[job] \in {"starting", "running", "cancelling", "cancelled"}
  /\ pc = "report" => status[job] = "failed"

(* The mutex: of a repair's worker and cancel, one at most is inside. *)
Guarded ==
  \A r \in Repairs :
    /\ lock[r] = "worker" <=> pc \in InLock /\ job = r
    /\ lock[r] = "cancel" <=> cpc[r] \notin {"idle", "waiting"}

(* The worker follows the frozen routing, and so does every trace it leaves. *)
Routed ==
  /\ pc \in Tier1Pc => route = "tier1"
  /\ pc \in Tier2Pc => route = "tier2"
  /\ pc \in {"ack", "dispatch"} => route # "none"
  /\ pc = "dispatch" => route # "tier2"
  /\ pc \notin {"idle", "capability", "freeze"} => route = routing[job]
  /\ \A r \in Repairs :
       /\ claimed[r] => routing[r] = "tier1"
       /\ exec[r] # "none" \/ starts[r] > 0 => routing[r] = "tier2"
       /\ routing[r] = "none" => status[r] \notin {"succeeded", "failed"}
       /\ routing[r] \in {"none", "tier2"} => \A p \in Phase : callback[r][p] = "none"

(* The pre-claim precedes the opcode, which precedes the receipt. *)
Claimed ==
  /\ \A r \in Repairs :
       /\ sent[r] <= 1
       /\ ~claimed[r] => sent[r] = 0 /\ receipt[r] = "none"
  /\ pc \in {"tier1_claim", "tier1_ssh"} => receipt[job] = "none"
  /\ pc = "tier1_ssh" => claimed[job] /\ sent[job] = 0
  /\ pc = "tier1_store" => claimed[job] /\ outcome # "none"
  /\ pc = "tier1_settle" => outcome # "none" /\ outcome = receipt[job]
  /\ pc \in InLock \ {"tier1_cas", "turn_cas", "abandon_turn"} => status[job] = "running"

(* A queued turn is one the ledger has accepted; a turn under way is one it
   has running, and one it has done was started. *)
Ledgered ==
  /\ \A r \in Repairs :
       /\ queue[r] = "queued" => exec[r] = "accepted"
       /\ exec[r] = "done" => starts[r] > 0
  /\ pc \in {"submit", "starting", "turn", "turn_over", "turn_threw"} => exec[job] = "running"
  /\ pc \in {"turn", "turn_over"} => starts[job] > 0
  /\ pc = "finalize" => exec[job] = "done"

(* A cancel that revokes works on a repair that has ended. *)
Revoking ==
  \A r \in Repairs :
    /\ cpc[r] \in {"residual", "revoke", "abandon"} => status[r] \in {"succeeded", "failed"}
    /\ cpc[r] = "abandon" => revoked[r]

IInv ==
  /\ TypeOK /\ Owned /\ Guarded /\ Routed /\ Claimed /\ Ledgered /\ Revoking
  /\ Tier1Accounted /\ SuccessMeansRun /\ ReportTruthful /\ TerminatedIsFinal

================================================================================
