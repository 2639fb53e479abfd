----------------------------- MODULE Broker_proofs -----------------------------
(* What the run of Broker shows for one repair, for any repairs, requests,   *)
(* connections, releases, crashes and faults.  The inductive invariant has   *)
(* five parts beside the types; each part is kept by a lemma with one step   *)
(* per action that can disturb it.                                           *)
EXTENDS Broker, SequenceTheorems, TLAPS

--------------------------------------------------------------------------------
(* The inductive invariant. *)

(* The key a handler claims for the request it is at. *)
KeyOf(c) == ClaimKey(req[c])

(* A handler that has won its claim and not yet answered for it. *)
Holding(c) == pc[c] \in {"execute", "executing", "commit"}

(* Such a handler's claim is in the ledger, with its own parameters, and it is
   the only handler of that key. *)
Owned ==
  /\ \A c \in Callers : Holding(c) => ledger[KeyOf(c)] = Claimed(req[c].param)
  /\ \A c, d \in Callers : Holding(c) /\ Holding(d) /\ KeyOf(c) = KeyOf(d) => c = d

(* Only a cutover of a verified commit is parked or queued, and a cutover that
   passes is answered in no other way; what is committed is one of the two. *)
Justified ==
  /\ \A c \in Callers :
       /\ pc[c] = "executing" => req[c].kind # "cutover"
       /\ pc[c] = "commit" /\ answer[c] = "ok" => req[c].kind # "cutover"
       /\ pc[c] = "commit" /\ answer[c] \in {"parked", "queued"} =>
            /\ req[c].kind = "cutover"
            /\ req[c].param \in verified[req[c].repair]
  /\ \A r \in Repairs :
       ledger[CutoverKey(r)].state = "committed" =>
         /\ ledger[CutoverKey(r)].answer \in {"parked", "queued"}
         /\ ledger[CutoverKey(r)].param \in verified[r]

(* A release that was asked for belongs to a repair. *)
Placed == \A id \in ReleaseIds : jobs[id].status # "absent" => jobs[id].repair \in Repairs

(* An execution is paid for by a failure before the key can be claimed again:
   at a key without an entry, at one whose holder has not begun, and at one
   whose holder is about to give it back, none is outstanding. *)
PaidFor ==
  /\ CarriedOutOnce
  /\ \A k \in ClaimKeys : ledger[k].state = "absent" => effects[k] <= failures[k]
  /\ \A c \in Callers :
       pc[c] = "execute" \/ (pc[c] = "commit" /\ answer[c] = "failed") =>
         effects[KeyOf(c)] <= failures[KeyOf(c)]

(* What the pump has in hand is as clear of earlier rows as what is posted. *)
Cleared == \A i \in batch \cup posted : \A j \in Earlier(i) : outbox[j].status # "queued"

IInv == TypeOK /\ Owned /\ Justified /\ Placed /\ PaidFor /\ Cleared
        /\ CutoverIsAnnounced /\ ReleaseIsCutover
--------------------------------------------------------------------------------
(* Keys and rows. *)

(* A request is claimed under a key of the ledger, and under its repair's
   cutover key exactly when it asks for a cutover. *)
LEMMA KeyIsTyped ==
  ASSUME NEW q \in Requests
  PROVE  /\ q \in Request
         /\ ClaimKey(q) \in ClaimKeys
         /\ \A r \in Repairs : ClaimKey(q) = CutoverKey(r) <=> q.kind = "cutover" /\ q.repair = r
         /\ \A r \in Repairs : CutoverKey(r) \in ClaimKeys
BY RequestAssumption DEF Request, ClaimKey, ClaimKeys, CutoverKey, Kind, ParamsKeyed

(* A handler at work has a request. *)
LEMMA AtWork ==
  ASSUME TypeOK, NEW c \in Callers, pc[c] # "idle"
  PROVE  req[c] \in Requests /\ KeyOf(c) \in ClaimKeys
BY KeyIsTyped DEF TypeOK, KeyOf

(* Inserting a callback leaves the rows there are and adds it at most once. *)
LEMMA EnqueueAppends ==
  ASSUME TypeOK, NEW cb \in Row
  PROVE  /\ Enqueued(cb) \in Seq(Row)
         /\ Len(outbox) <= Len(Enqueued(cb))
         /\ \A i \in 1..Len(outbox) : Enqueued(cb)[i] = outbox[i]
         /\ \A i \in DOMAIN Enqueued(cb) \ DOMAIN outbox : i > Len(outbox) /\ Enqueued(cb)[i] = cb
<1>1. outbox \in Seq(Row)
  BY DEF TypeOK
<1>2. CASE Enqueued(cb) = outbox
  BY <1>1, <1>2
<1>3. CASE Enqueued(cb) = Append(outbox, cb)
  BY <1>1, <1>3
<1>4. QED
  BY <1>2, <1>3 DEF Enqueued

--------------------------------------------------------------------------------
(* What a step changes. *)

(* The steps of the requests: any other one, but for a crash, leaves the
   handlers, the ledger, the results and the counts of executions alone. *)
LEMMA RequestSteps ==
  ASSUME [Next]_vars
  PROVE  \/ \E c \in Callers, q \in Requests : Authorize(c, q)
         \/ \E c \in Callers : HandlerStep(c)
         \/ Crash
         \/ UNCHANGED <<pc, req, answer, ledger, verified, effects, failures>>
BY DEF Next, vars, RepairStep, PumpStep, Start, FreezeKey, End, CancelMark, CancelActive,
       CancelRevoke, CancelAbandon, ReceiveRelease, TakeRelease, CloseRelease, ReadDue, Deliver,
       Stale, GiveUp, BackOff, MarkSent, Elapse, pumpFrame, repairVars, brokerVars, effectVars

(* Of the steps of a request, only the three ends of an action and its claim
   touch the ledger. *)
LEMMA LedgerSteps ==
  ASSUME [Next]_vars
  PROVE  \/ UNCHANGED ledger
         \/ \E c \in Callers : Win(c) \/ Commit(c) \/ CommitParked(c) \/ CommitQueued(c) \/ GiveBack(c)
BY RequestSteps DEF HandlerStep, Authorize, Refuse, Reject, Execute, Succeed, Fail, PassCutover,
       CommitFails, Crash

(* The steps that touch the outbox. *)
LEMMA OutboxSteps ==
  ASSUME [Next]_vars
  PROVE  \/ UNCHANGED outbox
         \/ \E c \in Callers : CommitParked(c)
         \/ \E r \in Repairs : End(r) \/ CancelAbandon(r)
         \/ \E id \in ReleaseIds : TakeRelease(id) \/ CloseRelease(id)
         \/ \E i \in DOMAIN outbox : GiveUp(i) \/ BackOff(i) \/ MarkSent(i) \/ Elapse(i)
BY DEF Next, vars, HandlerStep, RepairStep, PumpStep, Authorize, Win, Refuse, Reject, Execute,
       Succeed, Fail, PassCutover, Commit, CommitQueued, GiveBack, CommitFails, Start, FreezeKey,
       CancelMark, CancelActive, CancelRevoke, ReceiveRelease, ReadDue, Deliver, Stale, Crash

(* The steps that touch the releases. *)
LEMMA JobsSteps ==
  ASSUME [Next]_vars
  PROVE  \/ UNCHANGED jobs
         \/ \E c \in Callers : CommitQueued(c)
         \/ \E id \in V5Ids, r \in Repairs : ReceiveRelease(id, r)
         \/ \E id \in ReleaseIds : TakeRelease(id) \/ CloseRelease(id)
BY DEF Next, vars, HandlerStep, RepairStep, PumpStep, Authorize, Win, Refuse, Reject, Execute,
       Succeed, Fail, PassCutover, Commit, CommitParked, GiveBack, CommitFails, Start, FreezeKey,
       End, CancelMark, CancelActive, CancelRevoke, CancelAbandon, ReadDue, Deliver, Stale,
       GiveUp, BackOff, MarkSent, Elapse, Crash, pumpFrame

(* A row's identity: all of it but what the pump writes back. *)
SameRow(a, b) ==
  /\ a.repair = b.repair /\ a.phase = b.phase /\ a.release = b.release /\ a.param = b.param

(* The rows of the outbox stay where they are with their identity, one that
   is no longer queued never is again, and a new row comes last; only a parked
   cutover adds one that announces a cutover. *)
LEMMA OutboxStep ==
  ASSUME TypeOK, Placed, [Next]_vars
  PROVE  /\ outbox' \in Seq(Row)
         /\ Len(outbox) <= Len(outbox')
         /\ \A i \in 1..Len(outbox) :
              /\ SameRow(outbox[i], outbox'[i])
              /\ outbox[i].status # "queued" => outbox'[i].status # "queued"
         /\ (\E c \in Callers : CommitParked(c))
            \/ \A i \in 1..Len(outbox') : i > Len(outbox) => outbox'[i].phase # "pending_release"
<1> DEFINE Kept == /\ outbox' \in Seq(Row)
                   /\ Len(outbox) <= Len(outbox')
                   /\ \A i \in 1..Len(outbox) :
                        /\ SameRow(outbox[i], outbox'[i])
                        /\ outbox[i].status # "queued" => outbox'[i].status # "queued"
           Silent == \A i \in 1..Len(outbox') :
                       i > Len(outbox) => outbox'[i].phase # "pending_release"
<1> USE DEF SameRow
<1>0. outbox \in Seq(Row)
  BY DEF TypeOK
<1>1. ASSUME NEW cb \in Row, outbox' = Enqueued(cb)
      PROVE  Kept /\ (cb.phase # "pending_release" => Silent)
  <2>1. DOMAIN outbox = 1..Len(outbox) /\ DOMAIN outbox' = 1..Len(outbox')
    BY <1>0, <1>1, EnqueueAppends
  <2>2. Kept
    BY <1>1, EnqueueAppends
  <2>3. \A i \in 1..Len(outbox') : i > Len(outbox) => outbox'[i] = cb
    <3>1. ASSUME NEW i \in 1..Len(outbox'), i > Len(outbox) PROVE outbox'[i] = cb
      <4>1. i \in DOMAIN outbox' \ DOMAIN outbox
        BY <1>0, <2>1, <3>1, LenProperties
      <4>2. QED
        BY <1>1, <4>1, EnqueueAppends
    <3>2. QED
      BY <3>1
  <2>4. QED
    BY <2>2, <2>3
<1>2. ASSUME NEW i \in 1..Len(outbox), NEW row \in Row, outbox' = [outbox EXCEPT ![i] = row],
             SameRow(outbox[i], row), outbox[i].status # "queued" => row.status # "queued"
      PROVE  Kept /\ Silent
  BY <1>0, <1>2, ExceptSeq
<1>3. CASE UNCHANGED outbox
  BY <1>0, <1>3
<1>4. ASSUME NEW c \in Callers, CommitParked(c) PROVE Kept
  <2>1. req[c] \in Request
    BY <1>4, AtWork, KeyIsTyped DEF CommitParked
  <2>2. Callback(req[c].repair, "pending_release", None, req[c].param) \in Row
    BY <2>1 DEF Callback, Row, Request
  <2>3. QED
    BY <1>1, <1>4, <2>2 DEF CommitParked
<1>5. ASSUME NEW r \in Repairs, End(r) PROVE Kept /\ Silent
  <2>1. Callback(r, "done", None, None) \in Row
    BY DEF Callback, Row
  <2>2. Callback(r, "done", None, None).phase # "pending_release"
    BY DEF Callback
  <2>3. QED
    BY <1>0, <1>1, <1>5, <2>1, <2>2 DEF End
<1>6. ASSUME NEW r \in Repairs, CancelAbandon(r) PROVE Kept /\ Silent
  <2> DEFINE Left(i) == IF outbox[i].repair = r THEN Abandon(outbox[i]) ELSE outbox[i]
  <2>0. ASSUME NEW row \in Row
        PROVE  /\ Abandon(row) \in Row /\ SameRow(row, Abandon(row))
               /\ row.status # "queued" => Abandon(row).status # "queued"
    BY DEF Abandon, Row
  <2>1. ASSUME NEW i \in 1..Len(outbox)
        PROVE  /\ Left(i) \in Row /\ SameRow(outbox[i], Left(i))
               /\ outbox[i].status # "queued" => Left(i).status # "queued"
    <3>1. outbox[i] \in Row
      BY <1>0, ElementOfSeq
    <3>2. QED
      BY <2>0, <3>1
  <2>2. outbox' = [i \in 1..Len(outbox) |-> Left(i)]
    BY <1>0, <1>6 DEF CancelAbandon
  <2> HIDE DEF Left
  <2>3. outbox' \in Seq(Row) /\ Len(outbox') = Len(outbox)
    BY <1>0, <2>1, <2>2, IsASeq
  <2>4. \A i \in 1..Len(outbox) : outbox'[i] = Left(i)
    BY <2>2
  <2>5. Kept
    BY <1>0, <2>1, <2>3, <2>4
  <2>6. Silent
    BY <1>0, <2>3
  <2>7. QED
    BY <2>5, <2>6
<1>7. ASSUME NEW id \in ReleaseIds, TakeRelease(id) \/ CloseRelease(id) PROVE Kept /\ Silent
  <2>1. jobs[id].repair \in Repairs
    BY <1>7 DEF TakeRelease, CloseRelease, Placed
  <2>2. \A phase \in {"deploying", "closed"} :
          /\ Callback(jobs[id].repair, phase, id, None) \in Row
          /\ Callback(jobs[id].repair, phase, id, None).phase # "pending_release"
    BY <2>1 DEF Callback, Row
  <2>3. QED
    BY <1>1, <1>3, <1>7, <2>2 DEF TakeRelease, CloseRelease
<1>8. ASSUME NEW i \in DOMAIN outbox, GiveUp(i) \/ BackOff(i) \/ MarkSent(i) \/ Elapse(i)
      PROVE  Kept /\ Silent
  <2>1. i \in 1..Len(outbox) /\ outbox[i] \in Row
    BY <1>0, ElementOfSeq
  <2>2. PICK row \in Row : /\ outbox' = [outbox EXCEPT ![i] = row] /\ SameRow(outbox[i], row)
                           /\ outbox[i].status # "queued" => row.status # "queued"
    <3>1. \A s \in {"sent", "abandoned"} : [outbox[i] EXCEPT !.status = s] \in Row
      BY <2>1 DEF Row
    <3>2. \A b \in BOOLEAN : [outbox[i] EXCEPT !.due = b] \in Row
      BY <2>1 DEF Row
    <3>3. CASE GiveUp(i) \/ MarkSent(i)
      BY <2>1, <3>1, <3>3 DEF GiveUp, MarkSent, MarkRow, Row
    <3>4. CASE BackOff(i)
      BY <2>1, <3>2, <3>4 DEF BackOff, Row
    <3>5. CASE Elapse(i)
      BY <2>1, <3>2, <3>5 DEF Elapse, Row
    <3>6. QED
      BY <1>8, <3>3, <3>4, <3>5
  <2>3. QED
    BY <1>2, <2>1, <2>2
<1>9. Kept /\ ((\E c \in Callers : CommitParked(c)) \/ Silent)
  BY <1>3, <1>4, <1>5, <1>6, <1>7, <1>8, OutboxSteps
<1>10. QED
  BY <1>9

--------------------------------------------------------------------------------
(* Types. *)

(* The invariant holds at first. *)
LEMMA InvInit == Init => IInv
<1> SUFFICES ASSUME Init PROVE IInv
  OBVIOUS
<1>1. TypeOK
  BY RepairAssumption, LimitAssumption
  DEF Init, TypeOK, NoEntry, Entry, NoJob, Job, PumpPc, Answer
<1>2. Owned /\ Placed /\ Cleared /\ ReleaseIsCutover
  BY DEF Init, Owned, Placed, Cleared, ReleaseIsCutover, Holding, NoJob
<1>3. \A r \in Repairs : ledger[CutoverKey(r)] = NoEntry
  BY DEF Init, CutoverKey, ClaimKeys, Kind
<1>4. Justified
  BY <1>3 DEF Init, Justified, NoEntry
<1>5. PaidFor
  BY DEF Init, PaidFor, CarriedOutOnce
<1>6. CutoverIsAnnounced
  BY <1>3 DEF Init, CutoverIsAnnounced, AutoJobsOf, NoEntry, NoJob, ReleaseIds
<1>7. QED
  BY <1>1, <1>2, <1>4, <1>5, <1>6 DEF IInv

(* A step of a handler keeps the ledger, the handlers and the counts typed. *)
LEMMA HandlerTypes ==
  ASSUME TypeOK, NEW c \in Callers,
         (\E q \in Requests : Authorize(c, q)) \/ HandlerStep(c)
  PROVE  /\ pc' \in [Callers -> {"idle", "claim", "execute", "executing", "commit"}]
         /\ req' \in [Callers -> Requests \cup {None}]
         /\ \A d \in Callers : pc'[d] # "idle" => req'[d] \in Requests
         /\ answer' \in [Callers -> Answer]
         /\ ledger' \in [ClaimKeys -> Entry]
         /\ verified' \in [Repairs -> SUBSET Params]
         /\ effects' \in [ClaimKeys -> Nat] /\ failures' \in [ClaimKeys -> Nat]
<1>1. pc[c] # "idle" => KeyOf(c) \in ClaimKeys /\ req[c] \in Request
  BY AtWork, KeyIsTyped
<1>2. /\ pc' \in [Callers -> {"idle", "claim", "execute", "executing", "commit"}]
      /\ req' \in [Callers -> Requests \cup {None}]
      /\ \A d \in Callers : pc'[d] # "idle" => req'[d] \in Requests
      /\ answer' \in [Callers -> Answer]
  <2> DEFINE At(point, q, a) == /\ pc' = [pc EXCEPT ![c] = point]
                                /\ req' = [req EXCEPT ![c] = q]
                                /\ answer' = [answer EXCEPT ![c] = a]
         Typed == /\ pc' \in [Callers -> {"idle", "claim", "execute", "executing", "commit"}]
                  /\ req' \in [Callers -> Requests \cup {None}]
                  /\ \A d \in Callers : pc'[d] # "idle" => req'[d] \in Requests
                  /\ answer' \in [Callers -> Answer]
  <2>0. ASSUME NEW point \in {"idle", "claim", "execute", "executing", "commit"},
               NEW q \in Requests \cup {None}, NEW a \in Answer,
               point # "idle" => q \in Requests, At(point, q, a)
        PROVE  Typed
    BY <2>0 DEF TypeOK
  <2>1. ASSUME NEW q \in Requests, Authorize(c, q) PROVE Typed
    BY <2>0, <2>1 DEF Authorize, TypeOK
  <2>2. CASE pc[c] # "idle" /\ HandlerStep(c)
    <3>1. req[c] \in Requests /\ answer[c] \in Answer /\ req = [req EXCEPT ![c] = req[c]]
          /\ answer = [answer EXCEPT ![c] = answer[c]]
      BY <2>2, AtWork DEF TypeOK
    <3>2. CASE Refuse(c) \/ Commit(c) \/ CommitParked(c) \/ CommitQueued(c) \/ GiveBack(c)
               \/ CommitFails(c)
      BY <2>0, <3>2 DEF Refuse, Commit, CommitParked, CommitQueued, GiveBack, CommitFails, Reply,
                        Answer
    <3>3. CASE Win(c) \/ Execute(c)
      BY <2>0, <3>1, <3>3 DEF Win, Execute
    <3>4. CASE Reject(c) \/ Succeed(c) \/ Fail(c) \/ PassCutover(c)
      <4>1. PICK a \in Answer : At("commit", req[c], a)
        BY <3>1, <3>4 DEF Reject, Succeed, Fail, PassCutover, Answer
      <4>2. QED
        BY <2>0, <3>1, <4>1
    <3>5. QED
      BY <2>2, <3>2, <3>3, <3>4 DEF HandlerStep
  <2>3. HandlerStep(c) => pc[c] # "idle"
    BY DEF HandlerStep, Win, Refuse, Reject, Execute, Succeed, Fail, PassCutover, Commit,
           CommitParked, CommitQueued, GiveBack, CommitFails
  <2>4. QED
    BY <2>1, <2>2, <2>3
<1>3. ledger' \in [ClaimKeys -> Entry]
  <2>1. ASSUME NEW a \in Answer, NEW k \in ClaimKeys PROVE Finalized(k, a) \in Entry
    BY DEF TypeOK, Finalized, Committed, Entry
  <2>2. NoEntry \in Entry /\ \A p \in Params : Claimed(p) \in Entry
    BY DEF NoEntry, Claimed, Entry, Answer
  <2>3. ASSUME NEW k \in ClaimKeys, NEW e \in Entry, ledger' = [ledger EXCEPT ![k] = e]
        PROVE  ledger' \in [ClaimKeys -> Entry]
    BY <2>3 DEF TypeOK
  <2>4. CASE Win(c)
    BY <1>1, <2>2, <2>3, <2>4 DEF Win, KeyOf, Request
  <2>5. CASE Commit(c) \/ CommitParked(c) \/ CommitQueued(c)
    BY <1>1, <2>1, <2>3, <2>5 DEF Commit, CommitParked, CommitQueued, KeyOf, Answer
  <2>6. CASE GiveBack(c)
    BY <1>1, <2>2, <2>6 DEF GiveBack, KeyOf, TypeOK
  <2>7. QED
    BY <2>4, <2>5, <2>6
    DEF HandlerStep, Authorize, Refuse, Reject, Execute, Succeed, Fail, PassCutover, CommitFails,
        TypeOK
<1>4. verified' \in [Repairs -> SUBSET Params]
  <2>1. CASE Succeed(c)
    <3>1. req[c].repair \in Repairs /\ req[c].param \in Params
      BY <1>1, <2>1 DEF Succeed, Request
    <3>2. \/ verified' = verified
          \/ verified' = [verified EXCEPT ![req[c].repair] = @ \cup {req[c].param}]
      BY <2>1 DEF Succeed
    <3>3. verified[req[c].repair] \cup {req[c].param} \in SUBSET Params
      BY <3>1 DEF TypeOK
    <3>4. verified \in [Repairs -> SUBSET Params]
      BY DEF TypeOK
    <3>5. QED
      BY <3>1, <3>2, <3>3, <3>4, Zenon
  <2>2. QED
    BY <2>1 DEF HandlerStep, Authorize, Win, Refuse, Reject, Execute, Fail, PassCutover, Commit,
                CommitParked, CommitQueued, GiveBack, CommitFails, repairVars, TypeOK
<1>5. effects' \in [ClaimKeys -> Nat] /\ failures' \in [ClaimKeys -> Nat]
  <2>1. CASE Execute(c)
    BY <1>1, <2>1 DEF Execute, TypeOK, KeyOf
  <2>2. CASE Fail(c)
    BY <1>1, <2>2 DEF Fail, TypeOK, KeyOf
  <2>3. QED
    BY <2>1, <2>2 DEF HandlerStep, Authorize, Win, Refuse, Reject, Succeed, PassCutover, Commit,
                      CommitParked, CommitQueued, GiveBack, CommitFails, effectVars, TypeOK
<1>6. QED
  BY <1>2, <1>3, <1>4, <1>5

(* Every step keeps the rows of the releases typed, and placed. *)
LEMMA JobsTypes ==
  ASSUME TypeOK, Placed, [Next]_vars
  PROVE  jobs' \in [ReleaseIds -> Job] /\ Placed'
<1>1. ASSUME NEW c \in Callers, CommitQueued(c) PROVE jobs' \in [ReleaseIds -> Job] /\ Placed'
  <2>1. req[c] \in Request
    BY <1>1, AtWork, KeyIsTyped DEF CommitQueued
  <2>2. QED
    BY <1>1, <2>1 DEF CommitQueued, TypeOK, Placed, Job, Request, ReleaseIds
<1>2. ASSUME NEW id \in V5Ids, NEW r \in Repairs, ReceiveRelease(id, r)
      PROVE  jobs' \in [ReleaseIds -> Job] /\ Placed'
  <2>1. ledger[CutoverKey(r)].param \in Params \cup {None}
    BY DEF TypeOK, Entry, CutoverKey, ClaimKeys, Kind
  <2>2. QED
    BY <1>2, <2>1 DEF ReceiveRelease, TypeOK, Placed, Job, ReleaseIds
<1>3. ASSUME NEW id \in ReleaseIds, TakeRelease(id) \/ CloseRelease(id)
      PROVE  jobs' \in [ReleaseIds -> Job] /\ Placed'
  <2>1. PICK s \in {"cancelled", "deploying", "closed"} : jobs' = [jobs EXCEPT ![id].status = s]
    BY <1>3 DEF TakeRelease, CloseRelease
  <2>2. jobs[id].status # "absent" /\ jobs[id] \in Job
    BY <1>3 DEF TakeRelease, CloseRelease, TypeOK
  <2>3. QED
    BY <2>1, <2>2 DEF TypeOK, Placed, Job
<1>4. QED
  BY <1>1, <1>2, <1>3, JobsSteps DEF TypeOK, Placed

(* Every step keeps the rows of the repairs and their cancel typed. *)
LEMMA RepairTypes ==
  ASSUME TypeOK, [Next]_vars
  PROVE  /\ status' \in [Repairs -> {"received", "active", "cancelling", "ended", "cancelled"}]
         /\ key' \in [Repairs -> KeyClass \cup {"none"}]
         /\ revoked' \in [Repairs -> BOOLEAN]
         /\ cpc' \in [Repairs -> {"idle", "abandon"}]
         /\ terminated' \subseteq Repairs
<1> DEFINE Typed ==
      /\ status' \in [Repairs -> {"received", "active", "cancelling", "ended", "cancelled"}]
      /\ key' \in [Repairs -> KeyClass \cup {"none"}]
      /\ revoked' \in [Repairs -> BOOLEAN]
      /\ cpc' \in [Repairs -> {"idle", "abandon"}]
      /\ terminated' \subseteq Repairs
<1>1. ASSUME NEW r \in Repairs, RepairStep(r) PROVE Typed
  <2>1. CASE Start(r) \/ End(r) \/ CancelMark(r)
    BY <2>1 DEF Start, End, CancelMark, TypeOK
  <2>2. CASE FreezeKey(r)
    <3>1. PICK class \in KeysOf[r] : key' = [key EXCEPT ![r] = class]
      BY <2>2 DEF FreezeKey
    <3>2. class \in KeyClass
      BY RepairAssumption
    <3>3. QED
      BY <2>2, <3>1, <3>2 DEF FreezeKey, TypeOK
  <2>3. CASE CancelActive(r) \/ CancelRevoke(r) \/ CancelAbandon(r)
    BY <2>3 DEF CancelActive, CancelRevoke, CancelAbandon, TypeOK, repairVars
  <2>4. QED
    BY <1>1, <2>1, <2>2, <2>3 DEF RepairStep
<1>2. CASE Crash
  BY <1>2 DEF Crash, TypeOK, repairVars
<1>3. CASE UNCHANGED <<status, key, revoked, cpc, terminated>>
  BY <1>3 DEF TypeOK
<1>4. QED
  BY <1>1, <1>2, <1>3
  DEF Next, vars, HandlerStep, PumpStep, Authorize, Win, Refuse, Reject, Execute, Succeed, Fail,
      PassCutover, Commit, CommitParked, CommitQueued, GiveBack, CommitFails, ReceiveRelease,
      TakeRelease, CloseRelease, ReadDue, Deliver, Stale, GiveUp, BackOff, MarkSent, Elapse,
      pumpFrame, repairVars

(* Every step keeps what the pump holds, and what it has posted, typed. *)
LEMMA PumpTypes ==
  ASSUME TypeOK, Placed, [Next]_vars
  PROVE  ppc' \in PumpPc /\ batch' \subseteq DOMAIN outbox' /\ posted' \subseteq DOMAIN outbox'
<1>1. DOMAIN outbox \subseteq DOMAIN outbox'
  <2>1. outbox \in Seq(Row) /\ outbox' \in Seq(Row) /\ Len(outbox) <= Len(outbox')
    BY OutboxStep DEF TypeOK
  <2>2. QED
    BY <2>1
<1>2. CASE UNCHANGED <<ppc, batch, posted>>
  BY <1>1, <1>2 DEF TypeOK
<1>3. CASE ReadDue
  BY <1>1, <1>3 DEF ReadDue, TypeOK, Due, PumpPc
<1>4. ASSUME NEW i \in DOMAIN outbox, PumpStep(i)
      PROVE  /\ ppc' \in PumpPc /\ batch' \subseteq DOMAIN outbox'
             /\ posted' \subseteq DOMAIN outbox'
  BY <1>1, <1>4 DEF PumpStep, Deliver, Stale, GiveUp, BackOff, MarkSent, NextRow, TypeOK, PumpPc
<1>5. CASE Crash
  BY <1>1, <1>5 DEF Crash, TypeOK, PumpPc
<1>6. QED
  BY <1>2, <1>3, <1>4, <1>5
  DEF Next, vars, HandlerStep, RepairStep, Authorize, Win, Refuse, Reject, Execute, Succeed, Fail,
      PassCutover, Commit, CommitParked, CommitQueued, GiveBack, CommitFails, Start, FreezeKey,
      End, CancelMark, CancelActive, CancelRevoke, CancelAbandon, ReceiveRelease, TakeRelease,
      CloseRelease, Elapse, pumpVars

(* Every step keeps the bounds, and the setting. *)
LEMMA BoundTypes ==
  ASSUME TypeOK, [Next]_vars
  PROVE  /\ calls' \in 0..MaxCalls /\ crashes' \in 0..MaxCrashes /\ faults' \in 0..MaxFaults
         /\ autoDeploy' \in BOOLEAN
<1> USE LimitAssumption DEF TypeOK
<1>1. CASE UNCHANGED <<calls, crashes, faults, autoDeploy>>
  BY <1>1
<1>2. ASSUME NEW c \in Callers, NEW q \in Requests, Authorize(c, q)
      PROVE  calls' \in 0..MaxCalls /\ UNCHANGED <<crashes, faults, autoDeploy>>
  BY <1>2 DEF Authorize
<1>3. CASE Crash
  BY <1>3 DEF Crash
<1>4. ASSUME faults < MaxFaults, faults' = faults + 1, UNCHANGED <<calls, crashes, autoDeploy>>
      PROVE  faults' \in 0..MaxFaults
  BY <1>4
<1>5. ASSUME NEW c \in Callers, HandlerStep(c)
      PROVE  \/ UNCHANGED <<calls, crashes, faults, autoDeploy>>
             \/ faults < MaxFaults /\ faults' = faults + 1 /\ UNCHANGED <<calls, crashes, autoDeploy>>
  BY <1>5 DEF HandlerStep, Win, Refuse, Reject, Execute, Succeed, Fail, PassCutover, Commit,
              CommitParked, CommitQueued, GiveBack, CommitFails, bounds
<1>6. ASSUME NEW i \in DOMAIN outbox, PumpStep(i) \/ Elapse(i)
      PROVE  \/ UNCHANGED <<calls, crashes, faults, autoDeploy>>
             \/ faults < MaxFaults /\ faults' = faults + 1 /\ UNCHANGED <<calls, crashes, autoDeploy>>
  BY <1>6 DEF PumpStep, Deliver, Stale, GiveUp, BackOff, MarkSent, Elapse, OneMoreFault, pumpFrame,
              brokerVars
<1> HIDE LimitAssumption DEF TypeOK
<1>7. ASSUME NEW r \in Repairs, RepairStep(r) PROVE UNCHANGED <<calls, crashes, faults, autoDeploy>>
  BY <1>7 DEF RepairStep, Start, FreezeKey, End, CancelMark, CancelActive, CancelRevoke,
              CancelAbandon, bounds, brokerVars
<1>8. QED
  BY <1>1, <1>2, <1>3, <1>4, <1>5, <1>6, <1>7
  DEF Next, vars, ReceiveRelease, TakeRelease, CloseRelease, ReadDue, bounds, brokerVars, TypeOK

(* Every step keeps the types. *)
LEMMA TypeStep ==
  ASSUME TypeOK, Placed, [Next]_vars
  PROVE  TypeOK' /\ Placed'
<1> DEFINE Handlers ==
      /\ pc' \in [Callers -> {"idle", "claim", "execute", "executing", "commit"}]
      /\ req' \in [Callers -> Requests \cup {None}]
      /\ \A d \in Callers : pc'[d] # "idle" => req'[d] \in Requests
      /\ answer' \in [Callers -> Answer]
      /\ ledger' \in [ClaimKeys -> Entry]
      /\ verified' \in [Repairs -> SUBSET Params]
      /\ effects' \in [ClaimKeys -> Nat] /\ failures' \in [ClaimKeys -> Nat]
<1>1. Handlers
  <2>1. CASE Crash
    BY <2>1 DEF Crash, TypeOK, Answer, repairVars, effectVars
  <2>2. CASE UNCHANGED <<pc, req, answer, ledger, verified, effects, failures>>
    BY <2>2 DEF TypeOK
  <2>3. QED
    BY <2>1, <2>2, RequestSteps, HandlerTypes
<1>2. outbox' \in Seq(Row) /\ jobs' \in [ReleaseIds -> Job] /\ Placed'
  BY OutboxStep, JobsTypes
<1>3. QED
  BY <1>1, <1>2, RepairTypes, PumpTypes, BoundTypes DEF TypeOK

--------------------------------------------------------------------------------
(* Claims and their answers. *)

(* What a step of a handler does to the others: nothing. *)
LEMMA OthersStand ==
  ASSUME TypeOK, NEW c \in Callers,
         (\E q \in Requests : Authorize(c, q)) \/ HandlerStep(c)
  PROVE  /\ \A d \in Callers \ {c} : pc'[d] = pc[d] /\ req'[d] = req[d] /\ answer'[d] = answer[d]
         /\ pc'[c] # "idle" /\ pc'[c] # "claim" => pc[c] # "idle" /\ req'[c] = req[c]
BY DEF TypeOK, HandlerStep, Authorize, Win, Refuse, Reject, Execute, Succeed, Fail, PassCutover,
       Commit, CommitParked, CommitQueued, GiveBack, CommitFails, Reply

(* The entry of a claim that is held says so. *)
LEMMA HeldIsClaimed ==
  ASSUME Owned, NEW c \in Callers, Holding(c)
  PROVE  ledger[KeyOf(c)].state = "claimed" /\ ledger[KeyOf(c)].param = req[c].param
<1>1. ledger[KeyOf(c)] = Claimed(req[c].param)
  BY DEF Owned
<1>2. QED
  BY <1>1 DEF Claimed

(* The ledger changes at a handler's own key only, and there only from no
   entry to its claim, or from its claim to an answer or to no entry. *)
LEMMA EntryMoves ==
  ASSUME TypeOK, Owned, NEW c \in Callers, HandlerStep(c), ledger' # ledger
  PROVE  /\ pc[c] # "idle" /\ KeyOf(c) \in ClaimKeys
         /\ \A k \in ClaimKeys \ {KeyOf(c)} : ledger'[k] = ledger[k]
         /\ \/ /\ Win(c) /\ ledger[KeyOf(c)].state = "absent"
               /\ ledger'[KeyOf(c)] = Claimed(req[c].param)
            \/ /\ pc[c] = "commit" /\ pc'[c] = "idle" /\ ledger[KeyOf(c)] = Claimed(req[c].param)
               /\ \/ /\ answer[c] = "failed" /\ ledger'[KeyOf(c)] = NoEntry
                  \/ /\ Commit(c) \/ CommitParked(c) \/ CommitQueued(c)
                     /\ ledger'[KeyOf(c)] = Committed(req[c].param, answer[c])
<1>1. CASE Win(c)
  <2>1. KeyOf(c) \in ClaimKeys
    BY <1>1, AtWork DEF Win
  <2>2. QED
    BY <1>1, <2>1 DEF Win, KeyOf, Claimable, TypeOK
<1>2. CASE Commit(c) \/ CommitParked(c) \/ CommitQueued(c) \/ GiveBack(c)
  <2>1. pc[c] = "commit" /\ pc'[c] = "idle"
    BY <1>2 DEF Commit, CommitParked, CommitQueued, GiveBack, Reply, TypeOK
  <2>2. KeyOf(c) \in ClaimKeys /\ ledger[KeyOf(c)] = Claimed(req[c].param)
    BY <2>1, AtWork DEF Owned, Holding
  <2>3. ledger[KeyOf(c)].state = "claimed" /\ ledger[KeyOf(c)].param = req[c].param
    BY <2>1, HeldIsClaimed DEF Holding
  <2>4. CASE GiveBack(c)
    BY <2>1, <2>2, <2>3, <2>4 DEF GiveBack, KeyOf, TypeOK
  <2>5. CASE Commit(c) \/ CommitParked(c) \/ CommitQueued(c)
    BY <2>1, <2>2, <2>3, <2>5 DEF Commit, CommitParked, CommitQueued, KeyOf, Finalized, TypeOK
  <2>6. QED
    BY <1>2, <2>4, <2>5
<1>3. QED
  BY <1>1, <1>2 DEF HandlerStep, Refuse, Reject, Execute, Succeed, Fail, PassCutover, CommitFails

(* A handler comes to hold a claim only by winning it. *)
LEMMA HoldsByWinning ==
  ASSUME TypeOK, NEW c \in Callers,
         (\E q \in Requests : Authorize(c, q)) \/ HandlerStep(c), Holding(c)'
  PROVE  Holding(c) \/ Win(c)
BY DEF TypeOK, Holding, HandlerStep, Authorize, Win, Refuse, Reject, Execute, Succeed, Fail,
       PassCutover, Commit, CommitParked, CommitQueued, GiveBack, CommitFails, Reply

(* Every step keeps each claim held by one handler, that of its entry. *)
LEMMA OwnedStep ==
  ASSUME TypeOK, Owned, [Next]_vars
  PROVE  Owned'
<1>1. CASE Crash
  BY <1>1 DEF Crash, Owned, Holding
<1>2. CASE UNCHANGED <<pc, req, answer, ledger, verified, effects, failures>>
  BY <1>2 DEF Owned, Holding, KeyOf
<1>3. ASSUME NEW c \in Callers, (\E q \in Requests : Authorize(c, q)) \/ HandlerStep(c)
      PROVE  Owned'
  <2>1. ASSUME NEW d \in Callers, Holding(d)'
        PROVE  /\ Holding(d) \/ (d = c /\ Win(c))
               /\ KeyOf(d)' = KeyOf(d) /\ req'[d] = req[d] /\ KeyOf(d) \in ClaimKeys
    BY <1>3, <2>1, OthersStand, HoldsByWinning, AtWork DEF Holding, KeyOf, Win
  <2>2. CASE UNCHANGED ledger
    <3>1. ~ Win(c)
      <4>1. Win(c) => /\ ledger[KeyOf(c)].state = "absent"
                      /\ ledger'[KeyOf(c)] = Claimed(req[c].param)
        BY AtWork DEF Win, KeyOf, TypeOK, Claimable
      <4>2. QED
        BY <2>2, <4>1 DEF Claimed
    <3>2. QED
      BY <2>1, <2>2, <3>1 DEF Owned
  <2>3. CASE ledger' # ledger
    <3>1. HandlerStep(c)
      BY <1>3, <2>3 DEF Authorize
    <3>2. CASE Win(c)
      <4>0. ledger[KeyOf(c)].state = "absent"
        BY <3>2 DEF Win, Claimable, KeyOf
      <4>1. \A d \in Callers : Holding(d) => KeyOf(d) # KeyOf(c)
        BY <4>0, HeldIsClaimed
      <4>2. \A k \in ClaimKeys \ {KeyOf(c)} : ledger'[k] = ledger[k]
        BY <2>3, <3>1, EntryMoves
      <4>3. ledger'[KeyOf(c)] = Claimed(req[c].param)
        BY <3>2, AtWork DEF Win, KeyOf, TypeOK
      <4>4. QED
        BY <2>1, <4>1, <4>2, <4>3 DEF Owned
    <3>3. CASE pc[c] = "commit" /\ pc'[c] = "idle"
      <4>1. Holding(c) /\ ~ Holding(c)' /\ ~ Win(c)
        BY <3>3 DEF Holding, Win
      <4>2. \A k \in ClaimKeys \ {KeyOf(c)} : ledger'[k] = ledger[k]
        BY <2>3, <3>1, EntryMoves
      <4>3. QED
        BY <2>1, <4>1, <4>2 DEF Owned
    <3>4. QED
      BY <2>3, <3>1, <3>2, <3>3, EntryMoves
  <2>4. QED
    BY <2>2, <2>3
<1>4. QED
  BY <1>1, <1>2, <1>3, RequestSteps

(* Verifications are only added. *)
LEMMA VerifiedGrows ==
  ASSUME TypeOK, [Next]_vars, NEW r \in Repairs
  PROVE  verified[r] \subseteq verified'[r]
<1>1. ASSUME NEW c \in Callers, Succeed(c) PROVE verified[r] \subseteq verified'[r]
  <2>1. \/ verified' = verified
        \/ verified' = [verified EXCEPT ![req[c].repair] = @ \cup {req[c].param}]
    BY <1>1 DEF Succeed
  <2>2. QED
    BY <2>1 DEF TypeOK
<1>2. QED
  BY <1>1, RequestSteps
  DEF HandlerStep, Authorize, Win, Refuse, Reject, Execute, Fail, PassCutover, Commit, CommitParked,
      CommitQueued, GiveBack, CommitFails, Crash, repairVars

(* Every step keeps parked and queued to cutovers of verified commits. *)
LEMMA JustifiedStep ==
  ASSUME TypeOK, Owned, Justified, [Next]_vars
  PROVE  Justified'
<1> DEFINE Fits(c) ==
      /\ pc[c] = "executing" => req[c].kind # "cutover"
      /\ pc[c] = "commit" /\ answer[c] = "ok" => req[c].kind # "cutover"
      /\ pc[c] = "commit" /\ answer[c] \in {"parked", "queued"} =>
           /\ req[c].kind = "cutover"
           /\ req[c].param \in verified[req[c].repair]
           Proven(r) ==
      ledger[CutoverKey(r)].state = "committed" =>
        /\ ledger[CutoverKey(r)].answer \in {"parked", "queued"}
        /\ ledger[CutoverKey(r)].param \in verified[r]
<1>0. Justified <=> (\A c \in Callers : Fits(c)) /\ (\A r \in Repairs : Proven(r))
  BY DEF Justified
<1>00. Justified' <=> (\A c \in Callers : Fits(c)') /\ (\A r \in Repairs : Proven(r)')
  BY DEF Justified
<1>1. CASE Crash
  BY <1>1 DEF Crash, Justified, repairVars
<1>2. CASE UNCHANGED <<pc, req, answer, ledger, verified, effects, failures>>
  BY <1>2 DEF Justified
<1>3. ASSUME NEW c \in Callers, (\E q \in Requests : Authorize(c, q)) \/ HandlerStep(c)
      PROVE  Justified'
  <2>1. ASSUME NEW d \in Callers \ {c} PROVE Fits(d)'
    <3>1. pc'[d] = pc[d] /\ req'[d] = req[d] /\ answer'[d] = answer[d]
      BY <1>3, OthersStand
    <3>2. pc[d] = "commit" => verified[req[d].repair] \subseteq verified'[req[d].repair]
      BY AtWork, KeyIsTyped, VerifiedGrows DEF Request
    <3>3. QED
      BY <1>0, <3>1, <3>2
  <2>2. Fits(c)'
    <3>1. CASE Execute(c)
      BY <3>1 DEF Execute, TypeOK
    <3>2. CASE Succeed(c)
      BY <1>0, <3>2 DEF Succeed, TypeOK
    <3>3. CASE PassCutover(c)
      BY <3>3 DEF PassCutover, TypeOK, repairVars
    <3>4. CASE Reject(c) \/ Fail(c)
      BY <3>4 DEF Reject, Fail, TypeOK
    <3>5. CASE pc'[c] \notin {"executing", "commit"}
      BY <3>5
    <3>6. QED
      BY <1>3, <3>1, <3>2, <3>3, <3>4, <3>5
      DEF HandlerStep, Authorize, Win, Refuse, Commit, CommitParked, CommitQueued, GiveBack,
          CommitFails, Reply, TypeOK
  <2>3. ASSUME NEW r \in Repairs PROVE Proven(r)'
    <3>1. verified[r] \subseteq verified'[r]
      BY VerifiedGrows
    <3>2. CASE ledger'[CutoverKey(r)] = ledger[CutoverKey(r)]
      BY <1>0, <3>1, <3>2
    <3>3. CASE ledger'[CutoverKey(r)] # ledger[CutoverKey(r)]
      <4>1. HandlerStep(c) /\ pc[c] # "idle" /\ KeyOf(c) = CutoverKey(r)
        <5>1. HandlerStep(c) /\ ledger' # ledger
          BY <1>3, <3>3 DEF Authorize
        <5>2. CutoverKey(r) \in ClaimKeys
          BY DEF CutoverKey, ClaimKeys, Kind
        <5>3. QED
          BY <3>3, <5>1, <5>2, EntryMoves
      <4>2. req[c].kind = "cutover" /\ req[c].repair = r
        BY <4>1, AtWork, KeyIsTyped DEF KeyOf
      <4>3. ledger'[CutoverKey(r)].state = "committed" =>
              /\ pc[c] = "commit" /\ (Commit(c) \/ CommitParked(c) \/ CommitQueued(c))
              /\ ledger'[CutoverKey(r)] = Committed(req[c].param, answer[c])
        <5>1. ledger' # ledger
          BY <3>3
        <5>2. Claimed(req[c].param).state = "claimed" /\ NoEntry.state = "absent"
          BY DEF Claimed, NoEntry
        <5>3. QED
          BY <4>1, <5>1, <5>2, EntryMoves
      <4>4. Commit(c) => answer[c] = "ok"
        BY DEF Commit
      <4>5. CommitParked(c) \/ CommitQueued(c) => answer[c] \in {"parked", "queued"}
        BY DEF CommitParked, CommitQueued
      <4>6. QED
        BY <1>0, <3>1, <4>2, <4>3, <4>4, <4>5 DEF Committed
    <3>4. QED
      BY <3>2, <3>3
  <2>4. QED
    BY <1>00, <2>1, <2>2, <2>3
<1>4. QED
  BY <1>1, <1>2, <1>3, RequestSteps

(* Every step keeps executions paid for. *)
LEMMA PaidForStep ==
  ASSUME TypeOK, Owned, PaidFor, [Next]_vars
  PROVE  PaidFor'
<1> DEFINE Settled(k) == effects[k] <= failures[k]
           Tidy(c) == pc[c] = "execute" \/ (pc[c] = "commit" /\ answer[c] = "failed")
<1>0. PaidFor <=> /\ \A k \in ClaimKeys : effects[k] <= failures[k] + 1
                  /\ \A k \in ClaimKeys : ledger[k].state = "absent" => Settled(k)
                  /\ \A c \in Callers : Tidy(c) => Settled(KeyOf(c))
  BY DEF PaidFor, CarriedOutOnce
<1>00. PaidFor' <=> /\ \A k \in ClaimKeys : effects'[k] <= failures'[k] + 1
                    /\ \A k \in ClaimKeys : ledger'[k].state = "absent" => Settled(k)'
                    /\ \A c \in Callers : Tidy(c)' => Settled(KeyOf(c))'
  BY DEF PaidFor, CarriedOutOnce
<1>1. CASE Crash
  BY <1>1 DEF Crash, PaidFor, CarriedOutOnce, effectVars
<1>2. CASE UNCHANGED <<pc, req, answer, ledger, verified, effects, failures>>
  BY <1>2 DEF PaidFor, CarriedOutOnce, KeyOf
<1>3. ASSUME NEW c \in Callers, (\E q \in Requests : Authorize(c, q)) \/ HandlerStep(c)
      PROVE  PaidFor'
  <2>1. \A k \in ClaimKeys : effects[k] \in Nat /\ failures[k] \in Nat
    BY DEF TypeOK
  <2>2. ASSUME NEW d \in Callers \ {c}, Tidy(d)'
        PROVE  Tidy(d) /\ KeyOf(d)' = KeyOf(d) /\ KeyOf(d) \in ClaimKeys
    BY <1>3, <2>2, OthersStand, AtWork DEF KeyOf
  <2>3. CASE UNCHANGED <<effects, failures>>
    <3>1. ASSUME NEW k \in ClaimKeys, ledger'[k].state = "absent" PROVE Settled(k)'
      <4>1. CASE ledger'[k] = ledger[k]
        BY <1>0, <2>3, <3>1, <4>1
      <4>2. CASE ledger'[k] # ledger[k]
        <5>1. HandlerStep(c)
          BY <1>3, <4>2 DEF Authorize
        <5>2. k = KeyOf(c) /\ pc[c] = "commit" /\ answer[c] = "failed"
          <6>1. ledger' # ledger
            BY <4>2
          <6>2. /\ Claimed(req[c].param).state = "claimed"
                /\ Committed(req[c].param, answer[c]).state = "committed"
            BY DEF Claimed, Committed
          <6>3. QED
            BY <3>1, <4>2, <5>1, <6>1, <6>2, EntryMoves
        <5>3. QED
          BY <1>0, <2>3, <5>2
      <4>3. QED
        BY <4>1, <4>2
    <3>2. ASSUME Tidy(c)' PROVE Settled(KeyOf(c))'
      <4>1. CASE Win(c)
        <5>1. ledger[KeyOf(c)].state = "absent" /\ KeyOf(c) \in ClaimKeys /\ KeyOf(c)' = KeyOf(c)
          BY <4>1, AtWork DEF Win, KeyOf, Claimable
        <5>2. QED
          BY <1>0, <2>3, <5>1
      <4>2. CASE Reject(c)
        <5>1. Tidy(c) /\ KeyOf(c)' = KeyOf(c)
          BY <4>2 DEF Reject, KeyOf
        <5>2. QED
          BY <1>0, <2>3, <5>1
      <4>3. ~ Fail(c)
        <5>1. Fail(c) => KeyOf(c) \in ClaimKeys /\ failures' = [failures EXCEPT ![KeyOf(c)] = @ + 1]
          BY AtWork DEF Fail, KeyOf
        <5>2. QED
          BY <2>1, <2>3, <5>1 DEF TypeOK
      <4>4. Win(c) \/ Reject(c)
        BY <1>3, <3>2, <4>3
        DEF HandlerStep, Authorize, Win, Refuse, Execute, Succeed, PassCutover, Commit, CommitParked,
            CommitQueued, GiveBack, CommitFails, Reply, TypeOK
      <4>5. QED
        BY <4>1, <4>2, <4>4
    <3>3. \A d \in Callers : Tidy(d)' => Settled(KeyOf(d))'
      BY <1>0, <2>2, <2>3, <3>2
    <3>4. QED
      BY <1>0, <1>00, <2>3, <3>1, <3>3
  <2>4. ASSUME Execute(c) \/ Fail(c)
        PROVE  /\ Holding(c) /\ KeyOf(c) \in ClaimKeys /\ KeyOf(c)' = KeyOf(c) /\ UNCHANGED ledger
               /\ ledger[KeyOf(c)].state = "claimed"
               /\ \A d \in Callers \ {c} : Tidy(d)' => KeyOf(d) # KeyOf(c)
    <3>1. Holding(c) /\ KeyOf(c)' = KeyOf(c) /\ UNCHANGED ledger /\ KeyOf(c) \in ClaimKeys
      BY <2>4, AtWork DEF Execute, Fail, Holding, KeyOf
    <3>2. ASSUME NEW d \in Callers \ {c}, Tidy(d)' PROVE KeyOf(d) # KeyOf(c)
      BY <2>2, <3>1, <3>2 DEF Owned, Holding
    <3>3. QED
      BY <3>1, <3>2, HeldIsClaimed
  <2>5. CASE Execute(c)
    <3>1. /\ effects' = [effects EXCEPT ![KeyOf(c)] = @ + 1] /\ failures' = failures
          /\ Tidy(c) /\ ~ Tidy(c)'
      BY <2>5 DEF Execute, KeyOf, TypeOK
    <3>2. \A k \in ClaimKeys \ {KeyOf(c)} : effects'[k] = effects[k]
      BY <3>1 DEF TypeOK
    <3>3. effects'[KeyOf(c)] = effects[KeyOf(c)] + 1
      BY <2>4, <2>5, <3>1 DEF TypeOK
    <3>4. \A k \in ClaimKeys : effects'[k] <= failures'[k] + 1
      BY <1>0, <2>1, <2>4, <2>5, <3>1, <3>2, <3>3
    <3>5. \A k \in ClaimKeys : ledger'[k].state = "absent" => Settled(k)'
      BY <1>0, <2>4, <2>5, <3>1, <3>2
    <3>6. \A d \in Callers : Tidy(d)' => Settled(KeyOf(d))'
      BY <1>0, <2>2, <2>4, <2>5, <3>1, <3>2
    <3>7. QED
      BY <1>00, <3>4, <3>5, <3>6
  <2>6. CASE Fail(c)
    <3>1. failures' = [failures EXCEPT ![KeyOf(c)] = @ + 1] /\ effects' = effects
      BY <2>6 DEF Fail, KeyOf
    <3>2. \A k \in ClaimKeys \ {KeyOf(c)} : failures'[k] = failures[k]
      BY <3>1 DEF TypeOK
    <3>3. failures'[KeyOf(c)] = failures[KeyOf(c)] + 1
      BY <2>4, <2>6, <3>1 DEF TypeOK
    <3>4. \A k \in ClaimKeys : effects'[k] <= failures'[k] + 1 /\ (Settled(k) => Settled(k)')
      BY <1>0, <2>1, <2>4, <2>6, <3>1, <3>2, <3>3
    <3>5. Settled(KeyOf(c))'
      BY <1>0, <2>1, <2>4, <2>6, <3>1, <3>3
    <3>6. \A k \in ClaimKeys : ledger'[k].state = "absent" => Settled(k)'
      BY <1>0, <2>4, <2>6, <3>4
    <3>7. \A d \in Callers : Tidy(d)' => Settled(KeyOf(d))'
      BY <1>0, <2>2, <3>4, <3>5
    <3>8. QED
      BY <1>00, <3>4, <3>6, <3>7
  <2>7. QED
    BY <1>3, <2>3, <2>5, <2>6
    DEF HandlerStep, Authorize, Win, Refuse, Reject, Succeed, PassCutover, Commit, CommitParked,
        CommitQueued, GiveBack, CommitFails, effectVars
<1>4. QED
  BY <1>1, <1>2, <1>3, RequestSteps

--------------------------------------------------------------------------------
(* The order of callbacks. *)

(* The steps that add to what is posted or in hand: they add rows that are in
   hand already, or rows with nothing queued before them. *)
LEMMA HandSteps ==
  ASSUME [Next]_vars, NEW i \in batch' \cup posted'
  PROVE  i \in batch \cup posted \/ i \in Due
BY DEF Next, vars, HandlerStep, RepairStep, PumpStep, Authorize, Win, Refuse, Reject, Execute,
       Succeed, Fail, PassCutover, Commit, CommitParked, CommitQueued, GiveBack, CommitFails,
       Start, FreezeKey, End, CancelMark, CancelActive, CancelRevoke, CancelAbandon,
       ReceiveRelease, TakeRelease, CloseRelease, ReadDue, Deliver, Stale, GiveUp, BackOff,
       MarkSent, Elapse, Crash, Current, NextRow, pumpVars

(* Every step keeps the rows in hand, and those posted, clear of earlier rows
   that are still queued. *)
LEMMA ClearedStep ==
  ASSUME TypeOK, Placed, Cleared, [Next]_vars
  PROVE  Cleared'
<1>1. ASSUME NEW i \in batch' \cup posted', NEW j \in Earlier(i)'
      PROVE  outbox'[j].status # "queued"
  <2>1. i \in DOMAIN outbox /\ \A l \in Earlier(i) : outbox[l].status # "queued"
    BY HandSteps DEF Cleared, Due, TypeOK
  <2>2. outbox \in Seq(Row) /\ DOMAIN outbox = 1..Len(outbox) /\ Len(outbox) \in Nat
    BY LenProperties DEF TypeOK
  <2>3. outbox' \in Seq(Row) /\ DOMAIN outbox' = 1..Len(outbox')
    BY OutboxStep, LenProperties
  <2>4. j \in DOMAIN outbox' /\ j < i /\ outbox'[j].repair = outbox'[i].repair
    BY DEF Earlier
  <2>5. j \in 1..Len(outbox)
    BY <2>1, <2>2, <2>3, <2>4
  <2>6. outbox[j].repair = outbox[i].repair
    BY <2>1, <2>2, <2>4, <2>5, OutboxStep DEF SameRow
  <2>7. j \in Earlier(i)
    BY <2>2, <2>4, <2>5, <2>6 DEF Earlier
  <2>8. QED
    BY <2>1, <2>5, <2>7, OutboxStep
<1>2. QED
  BY <1>1 DEF Cleared

--------------------------------------------------------------------------------
(* Cutovers, their announcement and their releases. *)

(* The rows that announce a cutover. *)
Told(r) == {i \in DOMAIN outbox : outbox[i].repair = r /\ outbox[i].phase = "pending_release"}

(* A cutover and what it left behind agree: the body of CutoverIsAnnounced. *)
Announced(r) ==
  LET cutover == ledger[CutoverKey(r)] IN
  /\ cutover.state = "committed" /\ cutover.answer = "parked" <=> Told(r) # {}
  /\ \A i \in Told(r) : outbox[i].param = cutover.param
  /\ cutover.state = "committed" /\ cutover.answer = "queued" <=> AutoJobsOf(r) # {}
  /\ \A m, n \in AutoJobsOf(r) : m = n

(* The invariant says this of every repair. *)
LEMMA AnnouncedDef == CutoverIsAnnounced <=> \A r \in Repairs : Announced(r)
BY DEF CutoverIsAnnounced, Announced, Told

(* Only a parked cutover adds an announcement, and no step takes one away. *)
LEMMA ToldStep ==
  ASSUME TypeOK, Placed, [Next]_vars, NEW r \in Repairs
  PROVE  /\ Told(r) \subseteq Told(r)'
         /\ \A i \in Told(r) : outbox'[i].param = outbox[i].param
         /\ (\E c \in Callers : CommitParked(c)) \/ Told(r)' = Told(r)
<1>1. outbox \in Seq(Row) /\ DOMAIN outbox = 1..Len(outbox) /\ Len(outbox) \in Nat
  BY LenProperties DEF TypeOK
<1>2. outbox' \in Seq(Row) /\ DOMAIN outbox' = 1..Len(outbox') /\ Len(outbox') \in Nat
  BY OutboxStep, LenProperties
<1>3. DOMAIN outbox \subseteq DOMAIN outbox'
  BY <1>1, <1>2, OutboxStep
<1>4. \A i \in DOMAIN outbox : SameRow(outbox[i], outbox'[i])
  BY <1>1, OutboxStep
<1>5. ASSUME NEW i \in Told(r)', ~ \E c \in Callers : CommitParked(c) PROVE i \in DOMAIN outbox
  <2>1. i \in 1..Len(outbox') /\ outbox'[i].phase = "pending_release"
    BY <1>2 DEF Told
  <2>2. ~ i > Len(outbox)
    BY <1>5, <2>1, OutboxStep
  <2>3. QED
    BY <1>1, <1>2, <2>1, <2>2
<1>6. Told(r) \subseteq Told(r)' /\ \A i \in Told(r) : outbox'[i].param = outbox[i].param
  BY <1>3, <1>4 DEF Told, SameRow
<1>7. ASSUME ~ \E c \in Callers : CommitParked(c) PROVE Told(r)' \subseteq Told(r)
  BY <1>4, <1>5, <1>7 DEF Told, SameRow
<1>8. QED
  BY <1>6, <1>7

(* Only a queued cutover adds a release of the broker's own. *)
LEMMA AutoJobsStep ==
  ASSUME TypeOK, Placed, [Next]_vars, NEW r \in Repairs, ~ \E c \in Callers : CommitQueued(c)
  PROVE  AutoJobsOf(r)' = AutoJobsOf(r)
<1>1. ASSUME NEW id \in V5Ids, NEW q \in Repairs, ReceiveRelease(id, q)
      PROVE  AutoJobsOf(r)' = AutoJobsOf(r)
  <2>1. \A m \in AutoIds : m \in ReleaseIds /\ jobs'[m] = jobs[m]
    BY <1>1, NameAssumption DEF ReceiveRelease, TypeOK, ReleaseIds
  <2>2. QED
    BY <2>1 DEF AutoJobsOf
<1>2. ASSUME NEW id \in ReleaseIds, TakeRelease(id) \/ CloseRelease(id)
      PROVE  AutoJobsOf(r)' = AutoJobsOf(r)
  <2>1. PICK s \in {"cancelled", "deploying", "closed"} : jobs' = [jobs EXCEPT ![id].status = s]
    BY <1>2 DEF TakeRelease, CloseRelease
  <2>2. jobs[id].status # "absent"
    BY <1>2 DEF TakeRelease, CloseRelease
  <2>3. \A m \in AutoIds : /\ jobs'[m].repair = jobs[m].repair
                           /\ jobs'[m].status = "absent" <=> jobs[m].status = "absent"
    BY <2>1, <2>2 DEF TypeOK, ReleaseIds, Job
  <2>4. QED
    BY <2>3 DEF AutoJobsOf
<1>3. CASE UNCHANGED jobs
  BY <1>3 DEF AutoJobsOf
<1>4. QED
  BY <1>1, <1>2, <1>3, JobsSteps

(* An entry of a cutover changes only in the hands of its handler: it is
   claimed or given back, and nothing is announced before or after; or it is
   committed by the step that announces it. *)
LEMMA CutoverEntry ==
  ASSUME TypeOK, Owned, Justified, [Next]_vars, NEW r \in Repairs,
         ledger'[CutoverKey(r)] # ledger[CutoverKey(r)]
  PROVE  \E c \in Callers :
           /\ HandlerStep(c) /\ req[c].kind = "cutover" /\ req[c].repair = r
           /\ ledger[CutoverKey(r)].state # "committed"
           /\ \/ ledger'[CutoverKey(r)].state # "committed" /\ ~ CommitParked(c) /\ ~ CommitQueued(c)
              \/ /\ CommitParked(c) \/ CommitQueued(c)
                 /\ ledger'[CutoverKey(r)] = Committed(req[c].param, answer[c])
<1>1. PICK c \in Callers : HandlerStep(c) /\ ledger' # ledger
  BY LedgerSteps DEF HandlerStep
<1>2. CutoverKey(r) \in ClaimKeys
  BY DEF CutoverKey, ClaimKeys, Kind
<1>3. pc[c] # "idle" /\ KeyOf(c) = CutoverKey(r)
  BY <1>1, <1>2, EntryMoves
<1>4. req[c].kind = "cutover" /\ req[c].repair = r
  BY <1>3, AtWork, KeyIsTyped DEF KeyOf
<1>5. ~ Commit(c)
  BY <1>4 DEF Commit, Justified
<1>6. Claimed(req[c].param).state = "claimed" /\ NoEntry.state = "absent"
  BY DEF Claimed, NoEntry
<1>7. Win(c) \/ answer[c] = "failed" => ~ CommitParked(c) /\ ~ CommitQueued(c)
  BY DEF Win, CommitParked, CommitQueued
<1>8. ledger[CutoverKey(r)].state # "committed"
  BY <1>1, <1>3, <1>6, EntryMoves
<1>9. QED
  BY <1>1, <1>3, <1>4, <1>5, <1>6, <1>7, <1>8, EntryMoves

(* A parked cutover is committed with one announcement, that of its commit,
   and changes no other repair's. *)
LEMMA ParkedStep ==
  ASSUME TypeOK, Owned, Justified, CutoverIsAnnounced, NEW c \in Callers, CommitParked(c),
         NEW q \in Repairs, q = req[c].repair
  PROVE  /\ \A r \in Repairs \ {q} : Told(r)' = Told(r)
         /\ \A r \in Repairs \ {q} : ledger'[CutoverKey(r)] = ledger[CutoverKey(r)]
         /\ Told(q)' # {}
         /\ \A i \in Told(q)' : outbox'[i].param = req[c].param
         /\ AutoJobsOf(q)' = {}
         /\ ledger'[CutoverKey(q)] = Committed(req[c].param, "parked")
<1> DEFINE cb == Callback(q, "pending_release", None, req[c].param)
<1>1. req[c] \in Request /\ pc[c] = "commit" /\ answer[c] = "parked" /\ req[c].kind = "cutover"
  BY AtWork, KeyIsTyped DEF CommitParked, Justified
<1>2. KeyOf(c) = CutoverKey(q) /\ req[c].param \in Params
  BY <1>1, AtWork, KeyIsTyped DEF KeyOf, Request
<1>3. ledger[CutoverKey(q)].state = "claimed" /\ ledger[CutoverKey(q)].param = req[c].param
  BY <1>1, <1>2, HeldIsClaimed DEF Holding
<1>4. Told(q) = {} /\ AutoJobsOf(q) = {}
  BY <1>2, <1>3, AnnouncedDef DEF Announced
<1>5. outbox \in Seq(Row) /\ DOMAIN outbox = 1..Len(outbox) /\ Len(outbox) \in Nat
  BY LenProperties DEF TypeOK
<1>6. \A i \in DOMAIN outbox : ~ Duplicate(outbox[i], cb)
  BY <1>4 DEF Told, Duplicate, Callback
<1>7. outbox' = Append(outbox, cb) /\ cb \in Row
  BY <1>1, <1>2, <1>6 DEF CommitParked, Enqueued, Callback, Row
<1> DEFINE new == Len(outbox) + 1
<1>8. /\ DOMAIN outbox' = DOMAIN outbox \cup {new} /\ new \notin DOMAIN outbox
      /\ outbox'[new] = cb /\ \A i \in DOMAIN outbox : outbox'[i] = outbox[i]
  BY <1>5, <1>7, AppendProperties
<1>9. cb.repair = q /\ cb.phase = "pending_release" /\ cb.param = req[c].param
  BY DEF Callback
<1> HIDE DEF cb, new
<1>10. \A r \in Repairs \ {q} : Told(r)' = Told(r)
  BY <1>8, <1>9 DEF Told
<1>11. Told(q)' = {new}
  BY <1>4, <1>8, <1>9 DEF Told
<1>12. AutoJobsOf(q)' = {}
  BY <1>4 DEF CommitParked, AutoJobsOf
<1>13. \A r \in Repairs : CutoverKey(r) \in ClaimKeys /\ (CutoverKey(r) = CutoverKey(q) => r = q)
  BY DEF CutoverKey, ClaimKeys, Kind
<1>14. ledger' = [ledger EXCEPT ![CutoverKey(q)] = Committed(req[c].param, "parked")]
  BY <1>2, <1>3 DEF CommitParked, Finalized, KeyOf
<1>15. QED
  BY <1>2, <1>8, <1>9, <1>10, <1>11, <1>12, <1>13, <1>14 DEF TypeOK

(* A queued cutover is committed with one release of its commit, and changes
   no other repair's. *)
LEMMA QueuedStep ==
  ASSUME TypeOK, Owned, Justified, CutoverIsAnnounced, NEW c \in Callers, CommitQueued(c),
         NEW q \in Repairs, q = req[c].repair
  PROVE  /\ \A r \in Repairs \ {q} : AutoJobsOf(r)' = AutoJobsOf(r)
         /\ \A r \in Repairs \ {q} : ledger'[CutoverKey(r)] = ledger[CutoverKey(r)]
         /\ AutoJobsOf(q)' # {}
         /\ \A m, n \in AutoJobsOf(q)' : m = n
         /\ Told(q)' = {}
         /\ ledger'[CutoverKey(q)] = Committed(req[c].param, "queued")
<1>1. req[c] \in Request /\ pc[c] = "commit" /\ answer[c] = "queued" /\ req[c].kind = "cutover"
  BY AtWork, KeyIsTyped DEF CommitQueued, Justified
<1>2. KeyOf(c) = CutoverKey(q) /\ req[c].param \in Params
  BY <1>1, AtWork, KeyIsTyped DEF KeyOf, Request
<1>3. ledger[CutoverKey(q)].state = "claimed" /\ ledger[CutoverKey(q)].param = req[c].param
  BY <1>1, <1>2, HeldIsClaimed DEF Holding
<1>4. Told(q) = {} /\ AutoJobsOf(q) = {}
  BY <1>2, <1>3, AnnouncedDef DEF Announced
<1>5. PICK id \in AutoIds :
        /\ jobs[id].status = "absent"
        /\ jobs' = [jobs EXCEPT ![id] = [status |-> "received", repair |-> q, param |-> req[c].param]]
  BY DEF CommitQueued
<1>6. /\ id \in ReleaseIds /\ jobs'[id].status = "received" /\ jobs'[id].repair = q
      /\ \A m \in ReleaseIds \ {id} : jobs'[m] = jobs[m]
  BY <1>5 DEF TypeOK, ReleaseIds
<1>7. \A r \in Repairs \ {q} : AutoJobsOf(r)' = AutoJobsOf(r)
  BY <1>5, <1>6 DEF AutoJobsOf, ReleaseIds
<1>8. AutoJobsOf(q)' = {id}
  BY <1>4, <1>6 DEF AutoJobsOf, ReleaseIds
<1>9. Told(q)' = {}
  BY <1>4 DEF CommitQueued, Told
<1>10. \A r \in Repairs : CutoverKey(r) \in ClaimKeys /\ (CutoverKey(r) = CutoverKey(q) => r = q)
  BY DEF CutoverKey, ClaimKeys, Kind
<1>11. ledger' = [ledger EXCEPT ![CutoverKey(q)] = Committed(req[c].param, "queued")]
  BY <1>2, <1>3 DEF CommitQueued, Finalized, KeyOf
<1>12. QED
  BY <1>2, <1>7, <1>8, <1>9, <1>10, <1>11 DEF TypeOK

(* Every step keeps cutovers and their announcements in agreement. *)
LEMMA AnnouncedStep ==
  ASSUME TypeOK, Placed, Owned, Justified, CutoverIsAnnounced, [Next]_vars
  PROVE  CutoverIsAnnounced'
<1> SUFFICES ASSUME NEW r \in Repairs PROVE Announced(r)'
  BY AnnouncedDef DEF CutoverIsAnnounced, Announced, Told
<1>0. Announced(r)
  BY AnnouncedDef
<1>1. CASE \E c \in Callers : CommitParked(c) /\ req[c].repair = r
  <2>1. PICK c \in Callers : CommitParked(c) /\ req[c].repair = r
    BY <1>1
  <2>2. /\ ledger'[CutoverKey(r)] = Committed(req[c].param, "parked")
        /\ Told(r)' # {} /\ \A i \in Told(r)' : outbox'[i].param = req[c].param
        /\ AutoJobsOf(r)' = {}
    BY <2>1, ParkedStep
  <2>3. /\ Committed(req[c].param, "parked").state = "committed"
        /\ Committed(req[c].param, "parked").param = req[c].param
        /\ Committed(req[c].param, "parked").answer = "parked"
    BY DEF Committed
  <2>4. QED
    BY <2>2, <2>3 DEF Announced
<1>2. CASE \E c \in Callers : CommitQueued(c) /\ req[c].repair = r
  <2>1. PICK c \in Callers : CommitQueued(c) /\ req[c].repair = r
    BY <1>2
  <2>2. /\ ledger'[CutoverKey(r)] = Committed(req[c].param, "queued")
        /\ AutoJobsOf(r)' # {} /\ \A m, n \in AutoJobsOf(r)' : m = n
        /\ Told(r)' = {}
    BY SMTT(30), <2>1, QueuedStep
  <2>3. /\ Committed(req[c].param, "queued").state = "committed"
        /\ Committed(req[c].param, "queued").answer = "queued"
    BY DEF Committed
  <2>4. QED
    BY <2>2, <2>3 DEF Announced
<1>3. CASE ~ \E c \in Callers : (CommitParked(c) \/ CommitQueued(c)) /\ req[c].repair = r
  <2>0. ASSUME NEW c \in Callers, CommitParked(c) \/ CommitQueued(c)
        PROVE  req[c].repair \in Repairs /\ req[c].repair # r
    BY <1>3, <2>0, AtWork, KeyIsTyped DEF CommitParked, CommitQueued, Request
  <2>1. Told(r)' = Told(r) /\ \A i \in Told(r) : outbox'[i].param = outbox[i].param
    BY <2>0, ToldStep, ParkedStep
  <2>2. AutoJobsOf(r)' = AutoJobsOf(r)
    BY <2>0, AutoJobsStep, QueuedStep
  <2>3. CASE ledger'[CutoverKey(r)] = ledger[CutoverKey(r)]
    BY <1>0, <2>1, <2>2, <2>3 DEF Announced
  <2>4. CASE ledger'[CutoverKey(r)] # ledger[CutoverKey(r)]
    BY <1>0, <1>3, <2>1, <2>2, <2>4, CutoverEntry DEF Announced
  <2>5. QED
    BY <2>3, <2>4
<1>4. QED
  BY <1>1, <1>2, <1>3

(* Every step keeps each release on the commit of its repair's cutover. *)
LEMMA ReleaseStep ==
  ASSUME TypeOK, Placed, Owned, Justified, ReleaseIsCutover, [Next]_vars
  PROVE  ReleaseIsCutover'
<1> DEFINE Cut(r, p) == /\ ledger[CutoverKey(r)].state = "committed"
                        /\ p = ledger[CutoverKey(r)].param
                        /\ p \in verified[r]
<1>0. ReleaseIsCutover <=> \A id \in ReleaseIds :
                             jobs[id].status # "absent" => Cut(jobs[id].repair, jobs[id].param)
  BY DEF ReleaseIsCutover
<1>1. ASSUME NEW r \in Repairs, NEW p, Cut(r, p) PROVE Cut(r, p)'
  <2>1. ledger'[CutoverKey(r)] = ledger[CutoverKey(r)]
    BY <1>1, CutoverEntry
  <2>2. QED
    BY <1>1, <2>1, VerifiedGrows
<1>2. ASSUME NEW id \in ReleaseIds, jobs'[id].status # "absent",
             NEW r, NEW p, r = jobs'[id].repair, p = jobs'[id].param
      PROVE  Cut(r, p)'
  <2>1. CASE /\ jobs[id].status # "absent"
             /\ jobs'[id].repair = jobs[id].repair /\ jobs'[id].param = jobs[id].param
    <3>1. r \in Repairs /\ Cut(r, p)
      BY <1>0, <1>2, <2>1 DEF Placed
    <3>2. QED
      BY <1>1, <3>1
  <2>2. ASSUME NEW c \in Callers, CommitQueued(c), jobs'[id] # jobs[id]
        PROVE  Cut(r, p)'
    <3>1. /\ req[c] \in Request /\ pc[c] = "commit" /\ answer[c] = "queued"
          /\ req[c].kind = "cutover" /\ req[c].param \in verified[req[c].repair]
      BY <2>2, AtWork, KeyIsTyped DEF CommitQueued, Justified
    <3>2. r = req[c].repair /\ p = req[c].param
      BY <1>2, <2>2 DEF CommitQueued, TypeOK, ReleaseIds
    <3>3. req[c].repair \in Repairs /\ KeyOf(c) = CutoverKey(req[c].repair)
          /\ CutoverKey(req[c].repair) \in ClaimKeys
      BY <3>1, AtWork, KeyIsTyped DEF KeyOf, Request
    <3>4. ledger[KeyOf(c)].state = "claimed" /\ ledger[KeyOf(c)].param = req[c].param
      BY <3>1, HeldIsClaimed DEF Holding
    <3>5. ledger' = [ledger EXCEPT ![CutoverKey(req[c].repair)] = Committed(req[c].param, "queued")]
      BY <2>2, <3>3, <3>4 DEF CommitQueued, Finalized, KeyOf
    <3>6. ledger'[CutoverKey(req[c].repair)] = Committed(req[c].param, "queued")
      BY <3>3, <3>5 DEF TypeOK
    <3>7. verified[req[c].repair] \subseteq verified'[req[c].repair]
      BY <3>3, VerifiedGrows
    <3>8. QED
      BY <3>1, <3>2, <3>6, <3>7 DEF Committed
  <2>3. ASSUME NEW v \in V5Ids, NEW q \in Repairs, ReceiveRelease(v, q), jobs'[id] # jobs[id]
        PROVE  Cut(r, p)'
    <3>1. r = q /\ p = ledger[CutoverKey(q)].param
      BY <1>2, <2>3 DEF ReceiveRelease, TypeOK, ReleaseIds
    <3>2. Cut(r, p)
      BY <2>3, <3>1 DEF ReceiveRelease, Justified
    <3>3. QED
      BY <1>1, <3>1, <3>2
  <2>4. ASSUME NEW m \in ReleaseIds, TakeRelease(m) \/ CloseRelease(m)
        PROVE  /\ jobs[id].status # "absent"
               /\ jobs'[id].repair = jobs[id].repair /\ jobs'[id].param = jobs[id].param
    <3>1. PICK s \in {"cancelled", "deploying", "closed"} : jobs' = [jobs EXCEPT ![m].status = s]
      BY <2>4 DEF TakeRelease, CloseRelease
    <3>2. jobs[m].status # "absent"
      BY <2>4 DEF TakeRelease, CloseRelease
    <3>3. QED
      BY <1>2, <3>1, <3>2 DEF TypeOK, Job
  <2>5. QED
    BY <1>2, <2>1, <2>2, <2>3, <2>4, JobsSteps
<1>3. QED
  BY <1>2 DEF ReleaseIsCutover

--------------------------------------------------------------------------------
(* The theorems. *)

(* Every step, and a stutter, keeps the inductive invariant. *)
LEMMA InvStep == IInv /\ [Next]_vars => IInv'
BY TypeStep, OwnedStep, JustifiedStep, PaidForStep, ClearedStep, AnnouncedStep, ReleaseStep
DEF IInv

(* The inductive invariant holds throughout. *)
THEOREM BrokerInvariance == Spec => []IInv
BY InvInit, InvStep, PTL DEF Spec

(* Every variable has its type. *)
THEOREM BrokerTypes == Spec => []TypeOK
BY BrokerInvariance, PTL DEF IInv

(* One connection at a time holds the claim of an action, and the ledger says
   so, for whatever requests race and wherever the gateway dies. *)
THEOREM ClaimsAreExclusive == Spec => []Owned
BY BrokerInvariance, PTL DEF IInv

(* Callbacks of a repair reach v5 in the order they were enqueued, whatever
   backs off, is given up, cancelled or lost in a crash. *)
THEOREM CallbacksInOrder == Spec => []OutboxInOrder
<1>1. IInv => OutboxInOrder
  BY DEF IInv, Cleared, OutboxInOrder
<1>2. QED
  BY <1>1, BrokerInvariance, PTL

(* A cutover is committed together with its announcement, or with its one
   release, or not at all. *)
THEOREM CutoversAnnounced == Spec => []CutoverIsAnnounced
BY BrokerInvariance, PTL DEF IInv

(* Every release deploys the verified commit of its repair's cutover. *)
THEOREM ReleasesAreCutovers == Spec => []ReleaseIsCutover
BY BrokerInvariance, PTL DEF IInv

(* No action is carried out again after a success, nor after an end that is
   not known. *)
THEOREM ActionsCarriedOutOnce == Spec => []CarriedOutOnce
<1>1. IInv => CarriedOutOnce
  BY DEF IInv, PaidFor
<1>2. QED
  BY <1>1, BrokerInvariance, PTL

(* What is committed for a key is what every later request of that key gets:
   no step changes or removes a committed entry. *)
CommittedStays ==
  [][\A k \in ClaimKeys : ledger[k].state = "committed" => ledger'[k] = ledger[k]]_vars

(* The ledger of the broker keeps its committed answers for good. *)
THEOREM LedgerIsFinal == Spec => CommittedStays
<1>1. ASSUME IInv, [Next]_vars, NEW k \in ClaimKeys, ledger[k].state = "committed"
      PROVE  ledger'[k] = ledger[k]
  <2>1. SUFFICES ASSUME ledger'[k] # ledger[k] PROVE FALSE
    OBVIOUS
  <2>2. PICK c \in Callers : HandlerStep(c) /\ ledger' # ledger
    BY <1>1, <2>1, LedgerSteps DEF HandlerStep
  <2>3. KeyOf(c) = k /\ (ledger[k].state = "absent" \/ ledger[k] = Claimed(req[c].param))
    BY <1>1, <2>1, <2>2, EntryMoves DEF IInv
  <2>4. QED
    BY <1>1, <2>3 DEF Claimed
<1>2. IInv /\ [Next]_vars =>
        [\A k \in ClaimKeys : ledger[k].state = "committed" => ledger'[k] = ledger[k]]_vars
  BY <1>1
<1>3. QED
  BY <1>2, BrokerInvariance, PTL DEF Spec, CommittedStays

================================================================================
