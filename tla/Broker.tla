--------------------------------- MODULE Broker ---------------------------------
(***************************************************************************)
(* What an agent may ask of the host, and how v5 learns of it: the broker   *)
(* behind the Unix socket (broker.ts) with its ledger of claimed actions,   *)
(* the intake that turns a committed cutover into a release                 *)
(* (releaseIntake.ts), the durable outbox of callbacks (selfhealStore.ts)   *)
(* and the pump that delivers them (callbackPump.ts), against the cancel of *)
(* a repair (cancel.ts).                                                    *)
(*                                                                          *)
(* One step is one transaction of the store, one command on the host, or    *)
(* one request to v5.  The repair's own life is that of RepairJob, and what *)
(* a deploy does that of ReleaseWorker; here they are reduced to what the   *)
(* broker, the intake and the pump see of them.                             *)
(***************************************************************************)
EXTENDS Naturals, Sequences, FiniteSets

CONSTANTS
  Repairs,      \* repair ids
  Tier1Repairs, \* those driven by a host action: no agent, no request
  KeysOf,       \* the classes of condition key v5 may answer for each repair
  Params,       \* parameters of an action; those of a cutover name a commit
  None,         \* no parameter, no release
  Requests,     \* what the agents ask for
  Callers,      \* connections to the socket
  V5Ids,        \* release ids that v5, or root, asks with
  AutoIds,      \* release ids the broker makes up, one per enqueue
  AutoModes,    \* the settings of OC_SELFHEAL_AUTO_DEPLOY_TIER2 in use
  BatchLimit,   \* callbacks the pump reads at a time
  MaxCalls,     \* bound: requests to the broker
  MaxCrashes,   \* bound: crashes of the gateway
  MaxFaults     \* bound: failing commits, and requests to v5 that fail

KeyClass    == {"plain", "transport", "release"}
ParamsKeyed == {"verify", "report"}
Kind        == {"cutover", "restart_service"} \cup ParamsKeyed
ReleaseIds  == V5Ids \cup AutoIds

ASSUME RepairAssumption ==
  /\ Tier1Repairs \subseteq Repairs
  /\ KeysOf \in [Repairs -> SUBSET KeyClass]

ASSUME NameAssumption ==
  /\ None \notin Params \cup ReleaseIds
  /\ V5Ids \cap AutoIds = {}

ASSUME LimitAssumption ==
  /\ AutoModes \subseteq BOOLEAN
  /\ BatchLimit \in Nat \ {0}
  /\ MaxCalls \in Nat
  /\ MaxCrashes \in Nat
  /\ MaxFaults \in Nat

VARIABLES
  (* the rows of a repair *)
  status,     \* the job's status, as far as the broker tells it apart
  key,        \* class of the frozen condition key
  revoked,    \* release_revoked
  verified,   \* commits with a signed verification that passed
  (* the host's ledgers *)
  ledger,     \* broker_actions, by claim key
  outbox,     \* selfheal_callback_outbox, in the order of ids
  jobs,       \* selfheal_release_jobs
  (* the gateway process *)
  autoDeploy, \* OC_SELFHEAL_AUTO_DEPLOY_TIER2
  pc, req,    \* what each connection's handler is doing, and for which request
  answer,     \* outcome its handler holds
  cpc,        \* whether a cancel has revoked the release and not yet the rows
  ppc, batch, \* what the pump is doing, and the rows it still holds
  (* what the outside world has seen *)
  posted,     \* callbacks that reached v5
  effects,    \* executions, by claim key
  failures,   \* executions answered, or logged, as failed
  terminated, \* repairs whose cancel was answered terminated
  calls, crashes, faults

repairVars  == <<status, key, revoked, verified>>
brokerVars  == <<pc, req, answer, autoDeploy>>
pumpVars    == <<ppc, batch, posted>>
effectVars  == <<effects, failures>>
bounds      == <<calls, crashes, faults>>
vars == <<repairVars, ledger, outbox, jobs, brokerVars, cpc, pumpVars, effectVars,
          terminated, bounds>>

(* A request names a repair, a kind and parameters; its claim key leaves the
   parameters out for the kinds that a repair may carry out once. *)
Request == [repair: Repairs, kind: Kind, param: Params]
ASSUME RequestAssumption == Requests \subseteq Request

ClaimKeys == Repairs \X Kind \X (Params \cup {None})
ClaimKey(q) == <<q.repair, q.kind, IF q.kind \in ParamsKeyed THEN q.param ELSE None>>
CutoverKey(r) == <<r, "cutover", None>>

NoEntry == [state |-> "absent", param |-> None, answer |-> "none"]
Claimed(param) == [state |-> "claimed", param |-> param, answer |-> "none"]
Committed(param, a) == [state |-> "committed", param |-> param, answer |-> a]
NoJob == [status |-> "absent", repair |-> None, param |-> None]

Callback(r, phase, id, param) ==
  [repair |-> r, phase |-> phase, release |-> id, param |-> param,
   status |-> "queued", due |-> TRUE]

Answer == {"none", "ok", "parked", "queued", "failed", "threw"}
PumpPc == {"idle", "send", "resend", "accepted"}
Row == [repair: Repairs, phase: {"pending_release", "done", "deploying", "closed"},
        release: ReleaseIds \cup {None}, param: Params \cup {None},
        status: {"queued", "sent", "abandoned"}, due: BOOLEAN]
Entry == [state: {"absent", "claimed", "committed"}, param: Params \cup {None},
          answer: Answer]
Job == [status: {"absent", "received", "deploying", "closed", "cancelled"},
        repair: Repairs \cup {None}, param: Params \cup {None}]

(* Every variable has its type. *)
TypeOK ==
  /\ status \in [Repairs -> {"received", "active", "cancelling", "ended", "cancelled"}]
  /\ key \in [Repairs -> KeyClass \cup {"none"}]
  /\ revoked \in [Repairs -> BOOLEAN]
  /\ verified \in [Repairs -> SUBSET Params]
  /\ ledger \in [ClaimKeys -> Entry]
  /\ outbox \in Seq(Row)
  /\ jobs \in [ReleaseIds -> Job]
  /\ autoDeploy \in BOOLEAN
  /\ pc \in [Callers -> {"idle", "claim", "execute", "executing", "commit"}]
  /\ req \in [Callers -> Requests \cup {None}]
  /\ \A c \in Callers : pc[c] # "idle" => req[c] \in Requests
  /\ answer \in [Callers -> Answer]
  /\ cpc \in [Repairs -> {"idle", "abandon"}]
  /\ ppc \in PumpPc
  /\ batch \subseteq DOMAIN outbox
  /\ posted \subseteq DOMAIN outbox
  /\ effects \in [ClaimKeys -> Nat]
  /\ failures \in [ClaimKeys -> Nat]
  /\ terminated \subseteq Repairs
  /\ calls \in 0..MaxCalls
  /\ crashes \in 0..MaxCrashes
  /\ faults \in 0..MaxFaults

Init ==
  /\ status = [r \in Repairs |-> "received"]
  /\ key = [r \in Repairs |-> "none"]
  /\ revoked = [r \in Repairs |-> FALSE]
  /\ verified = [r \in Repairs |-> {}]
  /\ ledger = [k \in ClaimKeys |-> NoEntry]
  /\ outbox = <<>>
  /\ jobs = [id \in ReleaseIds |-> NoJob]
  /\ autoDeploy \in AutoModes
  /\ pc = [c \in Callers |-> "idle"]
  /\ req = [c \in Callers |-> None]
  /\ answer = [c \in Callers |-> "none"]
  /\ cpc = [r \in Repairs |-> "idle"]
  /\ ppc = "idle"
  /\ batch = {}
  /\ posted = {}
  /\ effects = [k \in ClaimKeys |-> 0]
  /\ failures = [k \in ClaimKeys |-> 0]
  /\ terminated = {}
  /\ calls = 0
  /\ crashes = 0
  /\ faults = 0

------------------------------------------------------------------------------
(* The broker: one request.                                                 *)

(* What a frozen condition key lets a repair ask for: a transport drill may
   only report, a release drill also verify and cut over. *)
Allowed(class, kind) ==
  CASE class = "plain"     -> TRUE
    [] class = "transport" -> kind = "report"
    [] class = "release"   -> kind # "restart_service"
    [] OTHER               -> FALSE

(* A request that is not refused: the repair is active and its frozen key
   allows the kind.  Nothing of this is read again later. *)
Authorize(c, q) ==
  /\ calls < MaxCalls
  /\ pc[c] = "idle"
  /\ q.repair \notin Tier1Repairs
  /\ status[q.repair] = "active"
  /\ Allowed(key[q.repair], q.kind)
  /\ pc' = [pc EXCEPT ![c] = "claim"]
  /\ req' = [req EXCEPT ![c] = q]
  /\ calls' = calls + 1
  /\ UNCHANGED <<repairVars, ledger, outbox, jobs, answer, autoDeploy, cpc, pumpVars,
                 effectVars, terminated, crashes, faults>>

(* The handler is through: the answer goes to the connection. *)
Reply(c) ==
  /\ pc' = [pc EXCEPT ![c] = "idle"]
  /\ req' = [req EXCEPT ![c] = None]
  /\ answer' = [answer EXCEPT ![c] = "none"]

(* Slip: a claim that never finished is taken over. *)
TakenOver(k) == ledger[k].state # "committed"

(* Slip: a committed entry does not keep its key. *)
Reused(k) == ledger[k].state # "claimed"

(* A key may be claimed by whoever finds no entry for it. *)
Claimable(k) == ledger[k].state = "absent"

Win(c) ==
  LET k == ClaimKey(req[c]) IN
  /\ pc[c] = "claim"
  /\ Claimable(k)
  /\ ledger' = [ledger EXCEPT ![k] = Claimed(req[c].param)]
  /\ pc' = [pc EXCEPT ![c] = "execute"]
  /\ UNCHANGED <<repairVars, outbox, jobs, req, answer, autoDeploy, cpc, pumpVars,
                 effectVars, terminated, bounds>>

(* A replay of the committed answer, a conflict of parameters, or a claim
   that never finished: nothing is carried out. *)
Refuse(c) ==
  /\ pc[c] = "claim"
  /\ ~ Claimable(ClaimKey(req[c]))
  /\ Reply(c)
  /\ UNCHANGED <<repairVars, ledger, outbox, jobs, autoDeploy, cpc, pumpVars, effectVars,
                 terminated, bounds>>

(* The parameters are refused, or a check of the cutover fails. *)
Reject(c) ==
  /\ pc[c] = "execute"
  /\ pc' = [pc EXCEPT ![c] = "commit"]
  /\ answer' = [answer EXCEPT ![c] = "failed"]
  /\ UNCHANGED <<repairVars, ledger, outbox, jobs, req, autoDeploy, cpc, pumpVars,
                 effectVars, terminated, bounds>>

(* The host command runs, the verification runs, or the report is posted. *)
Execute(c) ==
  /\ pc[c] = "execute"
  /\ req[c].kind # "cutover"
  /\ pc' = [pc EXCEPT ![c] = "executing"]
  /\ effects' = [effects EXCEPT ![ClaimKey(req[c])] = @ + 1]
  /\ UNCHANGED <<repairVars, ledger, outbox, jobs, req, answer, autoDeploy, cpc, pumpVars,
                 failures, terminated, bounds>>

(* It succeeded; a verification leaves a signed result, passed or not. *)
Succeed(c) ==
  LET q == req[c] IN
  /\ pc[c] = "executing"
  /\ pc' = [pc EXCEPT ![c] = "commit"]
  /\ answer' = [answer EXCEPT ![c] = "ok"]
  /\ \/ UNCHANGED verified
     \/ /\ q.kind = "verify"
        /\ verified' = [verified EXCEPT ![q.repair] = @ \cup {q.param}]
  /\ UNCHANGED <<status, key, revoked, ledger, outbox, jobs, req, autoDeploy, cpc, pumpVars,
                 effectVars, terminated, bounds>>

(* It failed, or threw, after it may have done something. *)
Fail(c) ==
  /\ pc[c] = "executing"
  /\ pc' = [pc EXCEPT ![c] = "commit"]
  /\ answer' = [answer EXCEPT ![c] = "failed"]
  /\ failures' = [failures EXCEPT ![ClaimKey(req[c])] = @ + 1]
  /\ UNCHANGED <<repairVars, ledger, outbox, jobs, req, autoDeploy, cpc, pumpVars, effects,
                 terminated, bounds>>

(* The cutover's checks pass: signed verification of this commit, ancestry,
   classification.  It is parked for a human, or queued for deployment. *)
PassCutover(c) ==
  LET q == req[c] IN
  /\ pc[c] = "execute"
  /\ q.kind = "cutover"
  /\ q.param \in verified[q.repair]
  /\ pc' = [pc EXCEPT ![c] = "commit"]
  /\ answer' = [answer EXCEPT ![c] = IF autoDeploy THEN "queued" ELSE "parked"]
  /\ UNCHANGED <<repairVars, ledger, outbox, jobs, req, autoDeploy, cpc, pumpVars, effectVars,
                 terminated, bounds>>

(* The entry of a claim that is finalized; a committed one stays. *)
Finalized(k, a) ==
  IF ledger[k].state = "claimed" THEN Committed(ledger[k].param, a) ELSE ledger[k]

(* Inserting a callback: the unique indices drop a second one of the same
   phase for the same release, or for a repair outside a release. *)
Duplicate(row, cb) ==
  /\ row.phase = cb.phase
  /\ row.release = cb.release
  /\ cb.release = None => row.repair = cb.repair
Enqueued(cb) ==
  IF \E i \in DOMAIN outbox : Duplicate(outbox[i], cb) THEN outbox ELSE Append(outbox, cb)

(* A successful action is committed with its answer. *)
Commit(c) ==
  LET k == ClaimKey(req[c]) IN
  /\ pc[c] = "commit"
  /\ answer[c] = "ok"
  /\ ledger' = [ledger EXCEPT ![k] = Finalized(k, "ok")]
  /\ Reply(c)
  /\ UNCHANGED <<repairVars, outbox, jobs, autoDeploy, cpc, pumpVars, effectVars, terminated,
                 bounds>>

(* A parked cutover is committed with the callback that tells v5 of it. *)
CommitParked(c) ==
  LET q == req[c]  k == ClaimKey(q) IN
  /\ pc[c] = "commit"
  /\ answer[c] = "parked"
  /\ ledger' = [ledger EXCEPT ![k] = Finalized(k, "parked")]
  /\ outbox' = Enqueued(Callback(q.repair, "pending_release", None, q.param))
  /\ Reply(c)
  /\ UNCHANGED <<repairVars, jobs, autoDeploy, cpc, pumpVars, effectVars, terminated, bounds>>

(* A queued cutover is committed with the release that deploys it. *)
CommitQueued(c) ==
  LET q == req[c]  k == ClaimKey(q) IN
  /\ pc[c] = "commit"
  /\ answer[c] = "queued"
  /\ \E id \in AutoIds :
       /\ jobs[id].status = "absent"
       /\ jobs' = [jobs EXCEPT ![id] =
                     [status |-> "received", repair |-> q.repair, param |-> q.param]]
  /\ ledger' = [ledger EXCEPT ![k] = Finalized(k, "queued")]
  /\ Reply(c)
  /\ UNCHANGED <<repairVars, outbox, autoDeploy, cpc, pumpVars, effectVars, terminated, bounds>>

(* A refused or failed action gives its claim back. *)
GiveBack(c) ==
  LET k == ClaimKey(req[c]) IN
  /\ pc[c] = "commit"
  /\ answer[c] = "failed"
  /\ ledger' = [ledger EXCEPT ![k] = IF @.state = "claimed" THEN NoEntry ELSE @]
  /\ Reply(c)
  /\ UNCHANGED <<repairVars, outbox, jobs, autoDeploy, cpc, pumpVars, effectVars, terminated,
                 bounds>>

(* Slip: the callback's insert fails after the entry is committed. *)
CommitFailsSlip(c) ==
  LET k == ClaimKey(req[c]) IN
  /\ pc[c] = "commit"
  /\ faults < MaxFaults
  /\ faults' = faults + 1
  /\ ledger' = [ledger EXCEPT ![k] = Finalized(k, answer[c])]
  /\ Reply(c)
  /\ UNCHANGED <<repairVars, outbox, jobs, autoDeploy, cpc, pumpVars, effectVars,
                 terminated, calls, crashes>>

(* The statement or transaction fails and is rolled back: the claim is held. *)
CommitFails(c) ==
  /\ pc[c] = "commit"
  /\ faults < MaxFaults
  /\ faults' = faults + 1
  /\ Reply(c)
  /\ UNCHANGED <<repairVars, ledger, outbox, jobs, autoDeploy, cpc, pumpVars, effectVars,
                 terminated, calls, crashes>>

------------------------------------------------------------------------------
(* The repair, its cancel, and its releases.                                *)

Start(r) ==
  /\ status[r] = "received"
  /\ status' = [status EXCEPT ![r] = "active"]
  /\ UNCHANGED <<key, revoked, verified, ledger, outbox, jobs, brokerVars, cpc, pumpVars,
                 effectVars, terminated, bounds>>

(* The routing v5 answered is frozen, once. *)
FreezeKey(r) ==
  /\ status[r] = "active"
  /\ key[r] = "none"
  /\ \E class \in KeysOf[r] : key' = [key EXCEPT ![r] = class]
  /\ UNCHANGED <<status, revoked, verified, ledger, outbox, jobs, brokerVars, cpc, pumpVars,
                 effectVars, terminated, bounds>>

(* A Tier1 repair ends together with its callback; a Tier2 one just ends. *)
End(r) ==
  /\ status[r] = "active"
  /\ key[r] # "none"
  /\ cpc[r] = "idle"
  /\ status' = [status EXCEPT ![r] = "ended"]
  /\ outbox' = IF r \in Tier1Repairs THEN Enqueued(Callback(r, "done", None, None))
                                     ELSE outbox
  /\ UNCHANGED <<key, revoked, verified, ledger, jobs, brokerVars, cpc, pumpVars, effectVars,
                 terminated, bounds>>

(* A cancel of a repair that has not ended: with no live session its status
   is set at once, with one it is marked, torn down, and then set. *)
CancelMark(r) ==
  /\ status[r] \in {"received", "active"}
  /\ status' = [status EXCEPT ![r] = "cancelling"]
  /\ UNCHANGED <<key, revoked, verified, ledger, outbox, jobs, brokerVars, cpc, pumpVars,
                 effectVars, terminated, bounds>>

CancelActive(r) ==
  /\ status[r] \in {"received", "active", "cancelling"}
  /\ status' = [status EXCEPT ![r] = "cancelled"]
  /\ terminated' = terminated \cup {r}
  /\ UNCHANGED <<key, revoked, verified, ledger, outbox, jobs, brokerVars, cpc, pumpVars,
                 effectVars, bounds>>

(* A cancel of one that has ended revokes its release, and abandons its
   callbacks, under the repair's mutex. *)
CancelRevoke(r) ==
  /\ status[r] = "ended"
  /\ cpc[r] = "idle"
  /\ r \notin terminated
  /\ revoked' = [revoked EXCEPT ![r] = TRUE]
  /\ cpc' = [cpc EXCEPT ![r] = "abandon"]
  /\ UNCHANGED <<status, key, verified, ledger, outbox, jobs, brokerVars, pumpVars, effectVars,
                 terminated, bounds>>

Abandon(row) == IF row.status = "queued" THEN [row EXCEPT !.status = "abandoned"] ELSE row

CancelAbandon(r) ==
  /\ cpc[r] = "abandon"
  /\ outbox' = [i \in DOMAIN outbox |->
                  IF outbox[i].repair = r THEN Abandon(outbox[i]) ELSE outbox[i]]
  /\ cpc' = [cpc EXCEPT ![r] = "idle"]
  /\ terminated' = terminated \cup {r}
  /\ UNCHANGED <<repairVars, ledger, jobs, brokerVars, pumpVars, effectVars, bounds>>

(* A release is asked for, by v5 or by root: the plan it freezes is that of
   the committed cutover, whatever has become of the repair. *)
ReceiveRelease(id, r) ==
  LET cutover == ledger[CutoverKey(r)] IN
  /\ jobs[id].status = "absent"
  /\ cutover.state = "committed"
  /\ jobs' = [jobs EXCEPT ![id] =
                [status |-> "received", repair |-> r, param |-> cutover.param]]
  /\ UNCHANGED <<repairVars, ledger, outbox, brokerVars, cpc, pumpVars, effectVars, terminated,
                 bounds>>

(* The worker takes a received release under the repair's mutex: it closes
   one whose repair is revoked, and claims any other together with the
   callback that says so. *)
TakeRelease(id) ==
  LET rep == jobs[id].repair IN
  /\ jobs[id].status = "received"
  /\ cpc[rep] = "idle"
  /\ jobs' = [jobs EXCEPT ![id].status = IF revoked[rep] THEN "cancelled" ELSE "deploying"]
  /\ outbox' = IF revoked[rep] THEN outbox
                             ELSE Enqueued(Callback(rep, "deploying", id, None))
  /\ UNCHANGED <<repairVars, ledger, brokerVars, cpc, pumpVars, effectVars, terminated, bounds>>

(* Its deploy is settled, with the callback of its verdict. *)
CloseRelease(id) ==
  /\ jobs[id].status = "deploying"
  /\ jobs' = [jobs EXCEPT ![id].status = "closed"]
  /\ outbox' = Enqueued(Callback(jobs[id].repair, "closed", id, None))
  /\ UNCHANGED <<repairVars, ledger, brokerVars, cpc, pumpVars, effectVars, terminated, bounds>>

------------------------------------------------------------------------------
(* The pump.                                                                *)

(* The rows to deliver: queued, due, and with no earlier row of the same
   repair still queued. *)
Earlier(i) == {j \in DOMAIN outbox : j < i /\ outbox[j].repair = outbox[i].repair}
(* Slip: every row that is due. *)
DueSlip == {i \in DOMAIN outbox : outbox[i].status = "queued" /\ outbox[i].due}

Due == {i \in DOMAIN outbox :
          /\ outbox[i].status = "queued"
          /\ outbox[i].due
          /\ \A j \in Earlier(i) : outbox[j].status # "queued"}

ReadDue ==
  /\ ppc = "idle"
  /\ Due # {}
  /\ batch' = {i \in Due : Cardinality({j \in Due : j < i}) < BatchLimit}
  /\ ppc' = "send"
  /\ UNCHANGED <<repairVars, ledger, outbox, jobs, brokerVars, cpc, posted, effectVars,
                 terminated, bounds>>

(* The row in hand is the first of the batch. *)
Current(i) == i \in batch /\ \A j \in batch : i <= j

(* The row is done with: the next one of the batch, or the next tick. *)
NextRow(i) ==
  /\ batch' = batch \ {i}
  /\ ppc' = IF batch = {i} THEN "idle" ELSE "send"

(* The row is written back only while it is queued. *)
MarkRow(i, s) ==
  outbox' = [outbox EXCEPT ![i] = IF @.status = "queued" THEN [@ EXCEPT !.status = s] ELSE @]

pumpFrame == <<repairVars, ledger, jobs, brokerVars, cpc, effectVars, terminated, calls, crashes>>

OneMoreFault == faults < MaxFaults /\ faults' = faults + 1

(* A capability is claimed and the callback posted with it: v5 takes it, or
   has had it already. *)
Deliver(i) ==
  /\ Current(i)
  /\ ppc \in {"send", "resend"}
  /\ posted' = posted \cup {i}
  /\ ppc' = "accepted"
  /\ UNCHANGED <<outbox, batch, faults, pumpFrame>>

(* The capability is refused as stale: it is claimed again, once. *)
Stale(i) ==
  /\ OneMoreFault
  /\ Current(i)
  /\ ppc = "send"
  /\ ppc' = "resend"
  /\ UNCHANGED <<outbox, batch, posted, pumpFrame>>

(* v5 refuses the capability for good, or does not know the repair. *)
GiveUp(i) ==
  /\ OneMoreFault
  /\ Current(i)
  /\ ppc \in {"send", "resend"}
  /\ MarkRow(i, "abandoned")
  /\ NextRow(i)
  /\ UNCHANGED <<posted, pumpFrame>>

(* No answer, or one that asks for a retry: the row backs off.  v5 may have
   taken the callback of a request whose answer is lost. *)
BackOff(i) ==
  /\ OneMoreFault
  /\ Current(i)
  /\ ppc \in {"send", "resend"}
  /\ \/ UNCHANGED posted
     \/ posted' = posted \cup {i}
  /\ outbox' = [outbox EXCEPT ![i] = IF @.status = "queued" THEN [@ EXCEPT !.due = FALSE] ELSE @]
  /\ NextRow(i)
  /\ UNCHANGED pumpFrame

MarkSent(i) ==
  /\ Current(i)
  /\ ppc = "accepted"
  /\ MarkRow(i, "sent")
  /\ NextRow(i)
  /\ UNCHANGED <<posted, faults, pumpFrame>>

(* next_attempt_at passes. *)
Elapse(i) ==
  /\ outbox[i].status = "queued"
  /\ ~ outbox[i].due
  /\ outbox' = [outbox EXCEPT ![i].due = TRUE]
  /\ UNCHANGED <<ppc, batch, posted, faults, pumpFrame>>

(* The process dies and comes back, perhaps with another setting; what it
   held in memory is lost, the rows are not. *)
Crash ==
  /\ crashes < MaxCrashes
  /\ crashes' = crashes + 1
  /\ autoDeploy' \in AutoModes
  /\ pc' = [c \in Callers |-> "idle"]
  /\ req' = [c \in Callers |-> None]
  /\ answer' = [c \in Callers |-> "none"]
  /\ cpc' = [r \in Repairs |-> "idle"]
  /\ ppc' = "idle"
  /\ batch' = {}
  /\ UNCHANGED <<repairVars, ledger, outbox, jobs, posted, effectVars, terminated, calls, faults>>

HandlerStep(c) ==
  \/ Win(c) \/ Refuse(c) \/ Reject(c) \/ Execute(c) \/ Succeed(c) \/ Fail(c)
  \/ PassCutover(c) \/ Commit(c) \/ CommitParked(c) \/ CommitQueued(c) \/ GiveBack(c)
  \/ CommitFails(c)

RepairStep(r) ==
  \/ Start(r) \/ FreezeKey(r) \/ End(r) \/ CancelMark(r) \/ CancelActive(r)
  \/ CancelRevoke(r) \/ CancelAbandon(r)

PumpStep(i) ==
  \/ Deliver(i) \/ Stale(i) \/ GiveUp(i) \/ BackOff(i) \/ MarkSent(i)

Next ==
  \/ \E c \in Callers, q \in Requests : Authorize(c, q)
  \/ \E c \in Callers : HandlerStep(c)
  \/ \E r \in Repairs : RepairStep(r)
  \/ \E id \in V5Ids, r \in Repairs : ReceiveRelease(id, r)
  \/ \E id \in ReleaseIds : TakeRelease(id) \/ CloseRelease(id)
  \/ ReadDue
  \/ \E i \in DOMAIN outbox : PumpStep(i) \/ Elapse(i)
  \/ Crash

Spec == Init /\ [][Next]_vars

------------------------------------------------------------------------------
(* Properties.                                                              *)

(* Callbacks of a repair reach v5 in the order they were enqueued: one that
   has been posted has none before it that is still to come, however often
   the earlier ones backed off or the gateway restarted. *)
OutboxInOrder == \A i \in posted : \A j \in Earlier(i) : outbox[j].status # "queued"

(* A cutover is committed as parked if, and only if, v5 is to be told of that
   commit, and as queued if, and only if, exactly one release of the broker's
   own deploys it: a crash or a failed commit leaves neither half. *)
AutoJobsOf(r) == {id \in AutoIds : jobs[id].status # "absent" /\ jobs[id].repair = r}
CutoverIsAnnounced ==
  \A r \in Repairs :
    LET cutover == ledger[CutoverKey(r)]
        told    == {i \in DOMAIN outbox :
                      outbox[i].repair = r /\ outbox[i].phase = "pending_release"}
    IN /\ cutover.state = "committed" /\ cutover.answer = "parked" <=> told # {}
       /\ \A i \in told : outbox[i].param = cutover.param
       /\ cutover.state = "committed" /\ cutover.answer = "queued" <=> AutoJobsOf(r) # {}
       /\ \A m, n \in AutoJobsOf(r) : m = n

(* Every release of a repair deploys the commit of its cutover, the one that
   was verified, wherever the release was asked for and however often. *)
ReleaseIsCutover ==
  \A id \in ReleaseIds :
    jobs[id].status # "absent" =>
      LET rep == jobs[id].repair IN
      /\ ledger[CutoverKey(rep)].state = "committed"
      /\ jobs[id].param = ledger[CutoverKey(rep)].param
      /\ jobs[id].param \in verified[rep]

(* An action is carried out again only after one that was answered, or
   logged, as failed: not after a success, and not after one whose end a
   crash or a failed commit left open. *)
CarriedOutOnce == \A k \in ClaimKeys : effects[k] <= failures[k] + 1

================================================================================
