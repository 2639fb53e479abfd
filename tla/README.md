# A verification of the OpenClaude gateway

TLA+ modules that model the parts of the gateway where order, crashes and races
decide whether it is correct, the TLC runs that check them on small instances,
and proofs that TLAPS checks for every value of the constants. Everything is
translated from the code at the lines `PROJECT.json` ("map") names.

## 1. Inventory

The repository is a personal AI assistant: a Node gateway (`packages/gateway`)
that runs agent processes for chat channels and a web client, its storage
(`packages/storage`, SQLite), a browser client (`packages/web`), channel
adapters, and a *self-heal* subsystem in which a paid control plane ("v5", not in
this repository) sends incidents to the gateway, an agent repairs them, and the
approved repair is deployed to production by machine.

The part with the most to lose is self-heal: it deploys to production unattended.
It is also where the code is written as state machines over durable rows, so it
comes first.

| Component | State | Operations | What makes it correct |
| --- | --- | --- | --- |
| Release worker (`selfheal/releaseWorker.ts`, release half of `selfhealStore.ts`) | `selfheal_release_jobs`, `selfheal_release_fuse`, cleared epochs; in memory: the running tick, in-flight set | sweep, claim, spawn lane, read its events, time out, confirm death, recover, adjudicate, engage the fuse, close | a release is deployed at most once; the ledger tells the truth about production; an unknown outcome stops every later release until a human judged it |
| Release lane (`ops/selfheal-release-lane.sh`) | a process tree in a systemd scope, its stdout | checks, merge, deploy, proof, checkpoint, receipt | refusals come before any effect; verdicts come from the prover |
| Webhook receiver and cancel (`selfheal/receiver.ts`, `selfheal/cancel.ts`, `executionLedger.ts`) | `selfheal_jobs`, tombstones, `release_revoked`, per-repair mutex | receive, cancel by repair or by release, clear the fuse | a cancel that was answered holds; a request is taken once |
| Repair job worker (`selfheal/jobWorker.ts`) | `selfheal_jobs` leases, execution ledger, clones | claim, tier-1 actions, start the agent's turn, finalise | a turn is executed at most once per execution id; a lease has one owner |
| Broker (`selfheal/broker.ts`, `brokerActions.ts`) | broker action claims, cutovers, auto releases | authorise, claim, act, commit, cut over | an action is carried out once; a release deploys the commit that was verified and cut over, and v5 is told of it |
| Callback pump (`selfheal/callbackPump.ts`) | `selfheal_callback_outbox` | claim due, deliver, back off, abandon | v5 gets the callbacks of a repair in the order they were enqueued |
| Session manager (`sessionManager.ts`) | sessions, their runner, turn queue | submit, time out, retry, watch for late reports, destroy, evict | turns of a session run one after another, each ends once and by its own answer |
| Agent runners (`subprocessRunner.ts`, `codexRunner.ts`, `codexAppServerRunner.ts`, `claudeMessageParser.ts`) | child processes, pending requests | start, turn, interrupt, restart, parse | a turn ends exactly once |
| Frame durability (`outboundRing.ts`, the delivery chain, hello and resume in `server.ts`, the cursor in `websocket.js`) | per session: the chain, the last number, a ring, the transcript tape, the poison flag; per tab: cursor, socket | hand over, number, tape, store, send, evict, replay, reset | nothing is shown that is not on the tape; a tab processes frames once and in order and misses none without being told |
| Session bus (`redisSessionBus.ts`) | a counter, a list of recent frames and a channel per session | reserve a number, publish, replay, subscribe | one number names one frame; a gap is closed or told |
| Egress (`egressSubscription.ts`, `proxyEnv.ts`) | subscription nodes, the active proxy | refresh, probe, switch | |
| Cron (`cron.ts`) | jobs file, last-run file, the tick | merge built-in jobs, tick, run, record, clean up, add, remove, update | a job runs once a minute; what users asked for stays in the file; a reminder fires once |
| Sessions database (`sessionsDb.ts`, `pgClientSessionsBackend.ts`), memory, skills, vectors (`packages/storage`) | SQLite / Postgres tables | upsert with a version, list, read row and tape, search | a write that has not seen the last one is refused |
| Web client (`packages/web/public/modules`) | IndexedDB, websocket, message list | connect, resume, render, save, list, hydrate | shows what it claims to know; loses neither its user's message nor the answer that streams in |
| Channels (wechat, telegram, feishu, webchat), voice, terminals, OpenAI-compatible API | adapter connections | receive, send, retry | |
| CLI, plugin SDK, protocol types, MCP memory server, deploy scripts, evals | | | pure I/O, types or scripts |

How they interact. v5 calls the receiver over HTTP; the receiver writes rows. The
job worker and the release worker are timers in the gateway process that sweep
those rows; the release worker spawns the lane with systemd-run and reads its
stdout; the job worker submits turns to the session manager, whose agent calls
the broker over a Unix socket; both workers and the broker enqueue callbacks in
the outbox in the same transaction as the state they report, and the pump
delivers them to v5. Cancels from v5 take a per-repair mutex that the workers and
the broker take too. Rows survive a crash of the gateway; the mutex, the in-flight
sets, the timers and the pipes do not; the lane's scope does.

Hard behaviours: crash between two transactions; a lane that outlives the
process that reads it; a kill that has not killed yet; evidence arriving after a
decision; cancels racing claims; delayed webhooks for older epochs; retries of
what was already done; leases that expire under their owner. `PROJECT.json`
("hazards") lists them with the line where each bites.

## 2. Plan

In the order of what is lost when it goes wrong. "Promise" is the abstract
specification the detailed module is shown to implement.

| # | Modules | What | Promise | Bounds of the runs | Proofs |
| --- | --- | --- | --- | --- | --- |
| 1, done | `ReleaseWorker`, `MCReleaseWorker` | ledger, worker, lane, fuse and cancels in one module, because every hazard is in how they interleave | `AtMostOnceDeploy` | 2 releases, 2 crashes, 1 fault | `ReleaseWorker_proofs`: types, all safety properties, refinement |
| 2, done | `RepairJob`, `MCRepairJob` | dispatch, worker, Tier1 action, Tier2 turn through the execution ledger, cancel, shutdown | `RepairPromise` | 1 repair, 2 crashes, 1 fault | `RepairJob_proofs`: the same |
| 3, done | `FrameStream`, `MCFrameStream` | delivery chain, numbers, ring, tape, cursors, resume, on one process without Redis | | 2 tabs, 3 frames, 1 failure, 1 restart, 1 reset | `FrameStream_proofs`: types, `TapedFirst`, `InOrder`, `NoSilentGap` |
| 4, done | `FrameBus`, `MCFrameBus` | the same frames over Redis: reserved numbers, the replay list, frames of other processes, gaps | | 2 processes, 2 tabs, 5 events of any kind | none: its buffers are sorted and folded by recursive operators (section 12) |
| 5 and 6, done | `Broker`, `MCBroker` | claims, actions, commits, cutovers, releases, the outbox of callbacks and its pump, against cancels | | 1 repair, 3 requests, 1 crash, 1 fault | `Broker_proofs`: types and all four properties; exclusive claims, a final ledger |
| 7, done within 6 | `Broker` | a cancel of a repair against the release of the same repair | | the same | |
| 8, done | `TurnQueue`, `TurnSilence` and their `MC` modules | session lock, idle timeout and hard reset, retries, watch, process | | 2 messages, 1 task, 1 crash | `TurnQueue_proofs`: types and all four safety properties |
| 9, done | `ClientSync`, `MCClientSync` | saves, lists, hydration, live frames, in one tab among others | | 2 turns on pages of one, 2 reads, 1 upset | `ClientSync_proofs`: types and all three properties |
| 10, done | `Cron`, `MCCron` | merge, tick, records, edits over one file | | 2 jobs, 2 minutes, 2 edits, 1 crash, 1 fault | `Cron_proofs`: types and all three properties |
| 11, done | `CodexAppServer`, `MCCodexAppServer` | the queue, process, thread, turns and interrupts of a Codex agent | | 2 prompts, 3 processes, 3 upsets | `CodexAppServer_proofs`: types, `EndsForItsCause`, `OneProcess`, `OwnTurn` |
| later | `Egress` | probing and switching of proxy nodes | | | |

Liveness under fairness stays with TLC in every one of them.

## 3. The release worker

`ReleaseWorker.tla`. One step is one SQLite transaction, one probe or command of
the host, or one step of the lane.

| Variables | Code |
| --- | --- |
| `status`, `checkpoint`, `receipt`, `pushed`, `pushPending` | a row of `selfheal_release_jobs` (`checkpoint_json`, `receipt_json`, `canonical_pushed_at`, `failure_reason = 'canonical_push_pending'`) |
| `posted` | rows ever inserted in `selfheal_callback_outbox` for a release (unique per release and phase) |
| `fuse`, `cleared` | the single row of `selfheal_release_fuse` and the tombstones in `selfheal_release_fuse_cleared_epochs` |
| `revoked` | `selfheal_jobs.release_revoked` |
| `intake` | `receiveSelfhealRelease` between its read of the fuse and its insert |
| `wpc`, `wjob`, `wreceipt`, `wrevoked`, `wtry` | the one running `pumpOnce`: which await it is at, its job, the receipt it holds, what it read in the mutex, whether a throw lands in `runClaimed`'s catch |
| `lock` | `withRepairLock` |
| `lane`, `childUp` | the lane's shell and `deploy-v5.sh` in the scope `oc-selfheal-rel-...` |
| `effect` | what the deploy did to production: nothing, part, all |
| `pipe`, `attached` | the lane's stdout, and whether this process reads it |

The worker's program counter `wpc` goes `idle` (between two rows of a sweep) →
`locking` (before the mutex) → `locked` → `prepare` (claimed) → `streaming` →
`exited` or, after a timeout, `confirm` → `confirm_killed` → `settle` →
`adjudicate` → the fuse or the push → one of the `close_` points → `idle`.
`Recover` enters at `settle`. `Crash` loses everything above `lane` in the table
except the rows; `Restart` is `start()`.

Abstractions, and why they are sound for the properties:

- A receipt or checkpoint is its outcome and whether it binds to the job
  (`receiptValid`, `checkpointRecordBinds`): an unbound checkpoint and a verdict
  that does not bind are events that prove nothing. A refusal without a usable
  argument file carries no release id, so the worker takes it for unknown; the
  model emits `deploy_unknown` for it.
- The sweep reads its rows at the start of a tick; the model lets `idle` pick any
  row at any time, a superset. Each step re-reads what the code re-reads.
- A probe that returns `unknown` is the absence of `ScopeConfirmedDead` and of
  `Recover`; a signal kills the shell and may or may not have killed its child yet.
- The prover of the lane is assumed right when it gives a definite verdict:
  `LaneProve` emits `checkpoint` only over an applied effect and `deploy_failed`
  only over none. It may always give up (`deploy_unknown`).
- The write of a checkpoint that is still in flight when the worker settles is
  merged with the reading of its line; a failing write is `LoseCheckpoint`.
- `deploy_unknown` and a pending push both engage the fuse before they close.
- The kill switch `OC_SELFHEAL_RELEASE_DISABLED` and `stop()` are the worker
  taking no step. `retryCanonicalPush`, which a human triggers after the close,
  is not a step. One gateway process runs at a time (systemd unit).

### Runs

Two releases `a`, `b` are enough: every hazard is between one release and the
next (claim against claim, fuse of one against engage, clear or claim of the
other, scope of one against lane of the other). One crash reaches every point of
the worker, since every point can be the one at which it dies; one fault is one
failing transaction, push or host call anywhere, on top of the crash.

| Run | Instance | Shows |
| --- | --- | --- |
| `Release_safety` | two repairs, `b` local and with an undeployable plan, 2 crashes, 1 fault, spawn may fail, shell may die alone | truthful ledger, one verdict per release in ledger and outbox |
| `Release_failstop` | one repair, both fuse epochs clearable, 1 crash, 1 fault, spawn works, the shell dies only with its scope or its reader | jobs settle only over dead scopes and deploys never overlap, fuse, canonical, revocation; refines `AtMostOnceDeploy` |
| `Release_liveness` | `FairSpec`, 1 crash | claimed jobs are closed, received jobs are taken |

All runs set `CHECK_DEADLOCK FALSE`: when all releases are closed, nothing has to
happen any more.

Three behaviours of the code are modelled as they are although they look
unintended; none breaks at-most-once. Node may report `exit` before the last line
of stdout was read, so a receipt that the lane did write can be missed
(`LaneExit`); that costs a human's adjudication. If the lane's shell dies alone,
the worker takes `exit` for the end of the work while `deploy-v5.sh` lives on in
the scope; the overlap this permits is what `Release_failstop` excludes by its
constants and why `SettleOnlyDeadScope` and `OneScopeAtATime` are claimed there only.
A spawn that fails emits `error` and never `exit`, and the tick that awaits the
lane hangs until the gateway restarts (`SpawnError`, the point `hung`); liveness is
claimed for hosts on which systemd-run can be spawned. The refinement does not
depend on these constants: it is proved for all of them.

Fairness (`Fairness` in the module). The sweep is a timer that re-arms itself in a
`finally`, so the worker's enabled steps are weakly fair; `Recover`, `ReadFuse`
are disabled while the worker is busy with another job, and every sweep visits
every row, so they are strongly fair; the per-repair mutex is a chain of promises
(FIFO), so entering it is strongly fair; systemd restarts the gateway; every
command of the lane ends (`flock -w`, ssh and git time out). Nothing is assumed of
v5, of humans, of faults or of the lane's reader.

### What is proved

`ReleaseWorker_proofs.tla`, for any set of jobs, repairs, plans and origins and
any number of crashes and faults. The assumptions are `JobAssumption` and
`BoundAssumption` of the module.

`IInv` is inductive (`Invariance`). None of the properties is inductive alone:

- `Owned` ties the program counter to the row: at every point of work the
  worker's job is `deploying`. It needs that only the worker leaves `deploying`.
- `Started` adds to at-most-one-start that rows before `deploying` were never
  started and that `prepare` is reached only by a claim, never by a recovery.
- `Fused` adds that while a row is deploying, the fuse is free or its own: the
  claim saw no fuse, and only the deploying job's worker engages one. That is why
  one slot is enough for all unresolved releases.
- `Guarded` is the mutex: what the worker read inside it is still true.
- `Evidence` and `LaneShape` say that every message in a pipe, every durable
  checkpoint and receipt and the worker's copy are true of production *and cannot
  become false*, because the lane emits a verdict only after its deploy has ended.

From it: `TypeCorrect`, `DeployedAtMostOnce`, `LedgerTruthful`, `FuseHeld`,
`PushAccounted`, `ToldOnce`, `RevocationHolds` (an action property), and
`ImplementsPromise`, which maps the ledger to `AtMostOnceDeploy` step by step.

Two properties are false if the lane's shell may die on its own while the worker
reads it (above), so their theorems, and no others of the project, assume a value of
a constant: `~LeaderMayDie`. The shell may then still die with its scope or at a
write nobody reads, and spawns may fail or not: of the fail-stop constants of
`Release_failstop` only this one is needed. `Contained`, inductive with `IInv`
(`Containment`), says what the worker relies on:

- nothing runs for a job that is not `deploying`;
- at the points from which the worker can come to a close (`EmptyPoints`), nothing runs
  for its job. It comes to them with a job just claimed, whose lane was never
  started, by a probe that found the scope inactive, or by the exit of the lane;
- for the last, that a lane the worker streams is attached, so that no write kills
  it, and that `deploy-v5.sh` runs in it only with the shell waiting for it.

An empty scope is filled by `Spawn` alone (`EmptyStays`), which happens at a point
where the job's scope is known to be empty and to a job that is the only one
deploying. From it: `ScopesExclude` (`OneScopeAtATime`) and `SettlesDeadScopes`
(`SettleOnlyDeadScope`, an action property).

Only model-checked: the liveness properties (TLAPS here has no fairness or
`ENABLED` reasoning).

## 4. The repair job

`RepairJob.tla`. One step is one SQLite statement or transaction, one request to
v5, one SSH command, or one event of the agent's runner.

| Variables | Code |
| --- | --- |
| `status`, `lease`, `routing`, `revoked` | a row of `selfheal_jobs`: `status`, `lease_owner` and `lease_expires_at`, the frozen condition key, class and opcode, `release_revoked` |
| `claimed`, `receipt` | `tier1_claimed_at`, `tier1_receipt` of the same row |
| `callback` | rows of `selfheal_callback_outbox` by phase |
| `exec`, `queue` | the rows of `selfheal_executions` and `durable_turn_queue` of the repair's execution id |
| `pc`, `job`, `route`, `outcome`, `turnError` | the one running `processJob`: its await, its job, the routing it read back, the receipt it holds, how the turn it awaited surfaced |
| `lock`, `cpc` | `withRepairLock`, and how far `cancelLocked` of a repair has come |
| `session`, `live` | the session manager has the session; its runner executes the turn |
| `proc` | the gateway: up, draining, stopped, closing, down (the order of `shutdown` in `server.ts`) |
| `sent`, `starts` | history: opcodes that reached the host, turns started |
| `reported`, `told` | what v5 has been told: failed, terminated |

The worker's point `pc` follows `processJob` from top to bottom: `capability` →
`freeze` → `ack` → `dispatch`, then for a host action `tier1_lock` → ... →
`tier1_settle`, for an agent's turn `clone` → `session` → `turn_lock` → `turn_cas`
→ the ledger's `reopen`, `enqueue`, `claim_turn` → `submit` → `turn` → `finalize`,
with `mark_failed` and `report` for what goes wrong. `Crash` and the end of a
shutdown lose the process; `LeaseExpires` and `Claim` are how the next one takes over.

Abstractions:

- One gateway process runs at a time, as `executionLedger.ts` (lines 39-42)
  presumes of its in-process mutex.
- A routing is what the worker does with it: an opcode the host executes, one it
  refuses, or a turn. Whether this host refuses an opcode is fixed per routing.
- A claim takes any claimable repair, the code takes the oldest: a superset.
- A transmitted opcode may come back as completed, failed, rejected or unknown; the
  timeout and a broken SSH connection are `unknown`.
- After a crash `reopenExecutionForRedrive` runs a consumed turn again. That is
  the code's design: `starts` may exceed 1, and at-most-once is claimed of host
  actions only.
- Callbacks that the broker enqueues while a turn runs are part of `Broker`.

### Runs

| Run | Instance | Shows |
| --- | --- | --- |
| `Repair` | `FairSpec`, 1 repair with all three routings, 2 crashes or graceful restarts, 1 fault | receipts and callbacks agree, success means run, truthful reports, final terminations, fenced turns; every received repair ends; refines `RepairPromise` |

One repair is enough for TLC: repairs share only the worker, whose steps name their
repair, and the proofs cover any set of them. Two crashes are one that leaves a half
done repair and one that hits its redrive; the fault is one failing statement or
teardown. `CHECK_DEADLOCK FALSE`: when a repair has ended nothing has to happen.

The module shows three places where the code does not do what a comment says:

- A graceful shutdown fails the repair whose turn it kills. `stop()` releases the
  lease while `processJob` awaits the turn; the exit of the runner then surfaces as
  an error and `finalizeJob` records a failure, where the comment at
  `jobWorker.ts:255-258` leaves the job to the next process.
- A cancel that falls between the claim of the queued turn and the spawn of the
  runner finds nothing to interrupt, is answered `terminated`, and the turn starts
  afterwards (`cancel.ts:8-9` against `cancel.ts:162`). `FencedTurn` says what does
  hold: nothing is claimed once the cancel has found no running turn.
- A host that stands down because a deploy is active answers with a refusal that
  `hostAction.ts:199-201` says is retried on a later tick; `executeTier1` takes it
  for a terminal rejection (`jobWorker.ts:680-690`).

Fairness. The tick re-arms itself in a `finally` and an `await` of the worker
resolves, so its steps are weakly fair; the mutex is a FIFO chain of promises, so
entering it is strongly fair; claims are strongly fair, because every tick looks at
every row and a claim is disabled while another repair is worked on; a lease
expires; systemd restarts the gateway and a shutdown goes on. Of v5 it is assumed
that it answers now and then if it is asked again and again, and that it repeats a
cancel it was not confirmed. Of the agent it is assumed that its turn ends.

### What is proved

`RepairJob_proofs.tla`, for any set of repairs, any routings and any number of
crashes and faults, from `RepairAssumption` and `LimitAssumption`. `IInv` is
inductive (`RepairInvariance`); its parts:

- `Owned`: a job at the worker has not ended, whatever a cancel did to it, so a
  failure is reported only by the winner of the compare-and-set.
- `Guarded`: who is inside the per-repair mutex. Without it the pre-claim and the
  opcode could be separated by a cancel.
- `Routed`: the worker's copy is the frozen row, and every trace of work belongs to it.
- `Claimed`: the pre-claim precedes the opcode, which precedes the receipt; this is
  what makes a redrive answer `unknown` instead of transmitting again.
- `Ledgered`: a queued turn is accepted, a turn under way is running in the ledger,
  and one that is done was started.
- `Revoking`: a cancel that revokes works on a repair that has ended.

From it: `RepairTyped`, `Tier1IsAccounted`, `OneRouteOnly`, `SuccessWasRun`,
`ReportsTruthful`, `TerminationFinal`, `TurnsFenced` (an action property), and
`ImplementsRepairPromise`: with `fate` mapped from the status and `acted` from the
transmissions, each step is one step of `RepairPromise` or a stutter. Only
model-checked: `Settled`.

## 5. The frame stream

`FrameStream.tla`: one web chat session, its tabs, one gateway without Redis.

| Variables | Code |
| --- | --- |
| `chain` | `_sessionDeliveryChains`: deliveries of frames and commits of messages, one after another |
| `sending` | the operation of the chain that is between two of its awaits |
| `poisoned` | `_tapePoisoned` has the session |
| `lastSeq`, `ring` | the two maps of `OutboundRingBuffer` |
| `session`, `waiting`, `turn` | the session manager knows the session or can resume it; submitted turns; `_turnActiveSince` |
| `tape` | `client_session_tape`, in the order of its sequence |
| `conn`, `hello`, `wire` | the socket (open, or also in `clientsByPeer`), an unprocessed hello, what was sent to it |
| `cursor` | `_lastFrameSeq` of `websocket.js` |

Frames are named by the order in which they were handed to the chain, and `made`
gives the turn of each; the rest (`numbered`, `era`, `anchor`, `applied`) is history
for the properties.

Abstractions: a frame is its number and its name; the pruning by age and bytes is
an arbitrary pruning whenever the ring is read; a hello is processed in one step,
since without Redis no await separates the registration from the replay; the
idempotency of retried messages and workflow_progress frames, which the cursor
exempts, are left out; the wire loses messages only with its connection. A reset
leaves the running turn to `EndTurn`: it may still hand over its last frames, and it
ends before the next one starts, as `destroySession` awaits the runner's end.

### Runs

| Run | Instance | Shows |
| --- | --- | --- |
| `Frame_safety` | 2 tabs (symmetric), 3 frames, 1 message, 3 hellos, a ring of 1, 1 failed append, 1 restart, 1 reset | taped before shown, once and in order, no silent gap |

A ring of one entry makes every replay a question of its boundary; three frames are
one evicted, one kept and one under way; three hellos are a connect of each tab and a
reconnect of one. `CHECK_DEADLOCK FALSE`: with the bounds used up nothing is left to do.

What the properties do not claim: `InOrder` and `NoSilentGap` speak of a session that
was not reset; `NoSilentGap` speaks neither of a tab whose cursor comes from before a
restart and has been overtaken by the new numbers, nor of a tab that sent a message
before it was resumed. Both can miss frames of the live stream until they read the
tape. A frame that is under way when `resume_failed` is sent counts as told.

Two behaviours the module has because the code has them:

- `/clear` starts the numbers again at 1 (`outboundRing.ts:195-198` drops `lastSeq`
  although its comment keeps it; `server.ts:5713`), while the tab keeps its cursor:
  the frames of the next turn are dropped as already processed (`websocket.js:1083`)
  until the numbers have passed it. After a restart the same cursor may be taken for
  one of the new numbering.
- A message that waits in the delivery chain behind a failed append is committed when
  its turn has ended, although last frames of that turn are still behind it in the
  chain: it ends the poisoning (`server.ts:6955-6960`), and they are taped behind a hole.

### What is proved

`FrameStream_proofs.tla`, for any number of tabs, frames, turns, hellos, failed appends,
restarts and resets and a ring of any size, from `StreamAssumption` alone. `IInv` is
inductive (`FrameInvariance`). It has a part that always holds:

- `Chained` orders the deliveries that wait and has no number given out that is above a frame
  that waits, which is what bounds the numbers by the frames (`FrameTypes`);
- `Paid` counts: a turn was committed before it started and sent before it was committed;
- `Known`: a frame in the ring, on a wire or processed is one that was made and numbered;
- `Wired`: only a registered tab has a wire, and a hello that is not answered has the cursor that
  the tab still has, unless the tab is registered already;
- `Taped`: everything in the ring, on a wire or processed is on the tape if it is durable, and so is
  a frame between its append and its sending. `TapedFirst` follows (`FramesTapedFirst`).

The other part, `Unreset`, holds until somebody resets the session:

- `Rising`: frames and numbers rise together, the frame in hand has the last number, and the ring is
  the upper end of the numbered frames, in their order and without holes (`Latest`);
- `ReadBy(t)`: a tab has processed nothing later than a frame ahead of its cursor, and reading what
  is on its wire keeps it so; a `resume_failed` never moves the cursor behind frames that stand
  before it. `InOrder` follows (`FramesInOrder`);
- `AdmittedTo(t)`: after an admission of a gap, everything above its `to` follows in order;
- `AnchoredAt(t)`: a tab whose cursor is of the current numbering has got what is below it, or was
  told, and up to the first admission its wire brings the rest in order. This is the heart of
  `NoSilentGap` (`GapsAreTold`): a cursor is a promise about everything below it, kept by a wire on
  which nothing is skipped.

`Replay` sends what `After` picks from the ring; that it picks every frame above the cursor, each
once and in order, is proved for rings of any length by induction on their length (`Induction`,
`AfterExists`, `AfterPicks`). The library's induction theorems take an operator, which the provers
cannot instantiate; the induction here is on a *set* of numbers with its least element
(`Least`), which they can.

## 6. The broker and the outbox

`Broker.tla`: what an agent may ask of the host and how v5 learns of it. The life of
a repair is that of `RepairJob`, a deploy that of `ReleaseWorker`; both are reduced to
what the broker, the intake and the pump see.

| Variables | Code |
| --- | --- |
| `status`, `key`, `revoked` | the row of `selfheal_jobs`, its frozen condition key by class, `release_revoked` |
| `verified` | commits with a signed verification |
| `ledger` | `broker_actions`, one row per claim key; the key leaves out the parameters of what a repair may do once |
| `outbox` | `selfheal_callback_outbox` in the order of its ids, with its status and whether it is due |
| `jobs` | `selfheal_release_jobs` |
| `pc`, `req`, `answer`, `autoDeploy` | the handler of each connection, and `OC_SELFHEAL_AUTO_DEPLOY_TIER2` |
| `cpc` | a cancel between the revocation and the abandonment of the callbacks |
| `ppc`, `batch` | the pump and the rows it has read and not yet sent |
| `posted`, `effects`, `failures`, `terminated` | history: what reached v5, what was carried out, what was answered as failed, which cancels were answered |

A request goes `Authorize` → `Win` (or `Refuse`, `Reject`) → `Execute` → `Succeed` or
`Fail` → one of the commits, which writes ledger, callback and release job in one
transaction, or fails (`CommitFails`). The pump reads the oldest due row of each
repair, sends the rows one after the other, refreshes a capability once (`Stale`),
marks, backs off or abandons.

`Broker_safety` (1 repair, a verification, cutovers of two commits and a restart asked on two
connections, one v5 release id and one of the broker's own, 3 calls, 1 crash, 1 fault)
shows that callbacks arrive in order, that a cutover and what announces or deploys it
come together, that a release deploys the commit that was cut over and verified, and
that an action is carried out again only after a recorded failure. Two requests
racing for one claim key is the interleaving that matters and needs two connections;
the third call is the retry after the crash or the failed commit.

One promise the code does not keep: `cancel.ts:50-53` says of a cancel that is answered
`terminated` that the repair can hold "no further execution and no future deploy". But only
the cancel of a repair that has already ended revokes its release (`cancel.ts:103-130`,
`CancelRevoke`); one that is received or running becomes `cancelled` with `release_revoked` left
false (`cancel.ts:135-180`, `CancelActive`), and the intake (`receiver.ts:443`) and the release
worker (`releaseWorker.ts:543`) look at `release_revoked` alone. A cutover that was committed
before the cancel is then still deployed. The model has this behaviour, and no property claims
the contrary.

Seen on the way, and modelled as it is: in the automatic mode `broker.ts:150-152` deploys
drills as well; `report done` is posted directly and so bypasses the order promised at
`selfhealStore.ts:1552-1557` (it is outside the model, `OutboxInOrder` speaks of the outbox).

### What is proved

`Broker_proofs.tla`, for any repairs, requests, connections, releases, crashes and faults, from the
module's assumptions. `IInv` is inductive (`BrokerInvariance`):

- `Owned`: a handler that has won its claim and not answered yet has its own parameters in the
  ledger, and is the only handler of that key. That is what a unique key is worth, and everything
  else rests on it (`ClaimsAreExclusive`);
- `Justified`: what is parked, queued or committed under the cutover key is a verified commit;
- `Placed`: a release job that was asked for has a repair;
- `PaidFor`: no execution is outstanding at a key that can be claimed, that has been claimed and not
  begun, or that is about to be given back; `CarriedOutOnce` alone is not inductive, since it says
  nothing of the state from which the next execution starts;
- `Cleared`: before a callback that was posted, or that the pump has in hand, no earlier one of its
  repair is queued; a pump that has read its rows cannot be overtaken by a new one.

From it: `BrokerTypes`, `CallbacksInOrder`, `CutoversAnnounced`, `ReleasesAreCutovers`,
`ActionsCarriedOutOnce`, and `LedgerIsFinal`, an action property: no step changes or removes a
committed entry.

Left out: what a verification, an ancestry check and a classification compute (guards),
the context of a request, the socket and its rate limits, the direct report of `done`.

## 7. The turns of a chat session

`TurnQueue.tla`: `submit()` and its lock, the turn with its retries and its timer, the idle timeout, the
continuation watch, the claude process, `destroySession` and `shutdownAll`.

| Variables | Code |
| --- | --- |
| `life` | the session is in the manager's map, being destroyed, gone; the gateway refuses, closes |
| `pump`, `handler` | the permanent listener on the runner and whose parser it feeds |
| `watch`, `watchId`, `turns` | the armed continuation watch, the id of its next answer, the count of turns |
| `pc`, `turn`, `tries`, `muted`, `flush` | per message: where `submit()` is, where the promise of its turn is, retries, the shut event gate, the deferred exit handler |
| `proc`, `up`, `prompts`, `task`, `starting`, `waits` | `SubprocessRunner`: `this.proc`, the state of each process, prompts it has to answer, a background task that will report, a prompt that waits for `start()`, whose end each `shutdown()` awaits |
| `ends`, `answered`, `rows`, `lost` | history: final and error events, what ended each turn, rows stored by turn id, answers refused because their id was taken |
| `outlasted` | a timer gave up on something that was still going on |
| `silent` (`TurnSilence`) | whether `lastActivityAt` is longer ago than the threshold |

The lock is held from `Enter` to `Return`; the turn is a promise of its own and may
outlive it, which is the whole difficulty: the idle timeout lets the next message in
while the old turn, its process and its deferred exit handler are still there.

`Turns` (2 messages, 3 processes, 1 background task, 1 change of the model, 1 crash
of a process, and a retry or a process that outlives its SIGKILL): a message ends once, by its own answer, one turn at a time talks to the
runner, and an answer is stored unless its id was taken by a fragment. Two messages are
one that goes wrong and one that follows it; three processes are the first, its
replacement by a reset and one more by the retry. A retry and an outlived SIGKILL are bounded together
(`MaxUpsets`): after the latter the properties claim little. `Turns_liveness` (2 processes, no retry,
one process that outlives its SIGKILL): every message that was accepted ends, unless a turn before it
is kept going for ever. It is checked on `TurnSilence.tla`, which adds the clock of the watchdog to
the steps of `TurnQueue`: `silent` says that nothing has come for longer than the threshold
(`sessionManager.ts:66-108`, `1207-1224`), any output of a process sets it back (`Chunk`;
`subprocessRunner.ts:486`, `576`), and `IdleTimeout` needs it. The fairness is that timers fire, the
watchdog's when it finds silence again and again (strong fairness: what `silent` says is just
what the timer looks for), and that awaits inside the gateway return. The process need not answer, nor
ever fall silent, and the watch ends by its limit; but `QueueDrains` has the condition `Quietens`, that a
turn does not go on for ever without such a silence. The code has no limit on the length of a turn: a
process that goes on putting out messages without a result holds the queue for ever; without the condition
TLC finds a turn that no silence ends. A turn whose process puts out nothing but stderr or parts of lines is ended after half
an hour by its own timer (`TurnTimeout`), on which `QueueDrains` does not rely.

`OwnAnswer`, `OneTurn`, `AnswersKept` and the first half of `EndsOnce` are claimed while
`outlasted` is false: when a timer gives up on something that goes on, the code does not
hold them. The model reaches all of these:

- after an idle timeout the retry of the old turn runs beside the next message, against
  the comment at `sessionManager.ts:1248`;
- a process that outlives its SIGKILL clears `this.proc` of its successor when it exits;
- the turn's own timer (`TurnTimeout`, `sessionManager.ts:1555-1577`) interrupts a turn and keeps its process, which may
  still answer when it has the next prompt;
- a refresh of credentials has no timeout, so a turn that was given up may be retried
  when it returns;
- the watch ends by its backstop while a background task is still to report.

And without any of them: a crashed turn stores its fragment under the id of the next
turn, so the next whole answer is refused as `already_exists` (that is the exception
`AnswersKept` names); `destroySession` leaves queued messages that start a process nobody
owns (`sessionManager.ts:962-965`).

### What is proved

`TurnQueue_proofs.tla`, for any number of submits, processes, retries, background tasks, changes of the
model and crashes, from the module's assumptions. `IInv` (`TurnInvariance`) has what
holds always, `Lined`, `Informed` and `Counted`, and what holds while nothing outlasted its timer:

- `Seated`: a turn goes on only under the lock of its submit and has the pump to itself; one whose
  client was told is not tried again;
- `OneMachine`: the only process that runs is the runner's own, and while a start or a deferred exit
  is pending there is none;
- `Stopping`: whoever waits for a process to stop waits for that of his own turn, and after the wait
  the turn is over or its deferred end is due;
- `Asked`: at most one prompt is to be answered in all processes, that of the turn that goes on;
- `Tasks` and `Watching`: a background task has a watch or its process is being stopped, and neither
  a watch nor a task exists beside a turn that goes on. This is why the report of a task cannot be
  taken for an answer;
- `Numbered`, `Own` and `Kept`: whole answers have ids that were counted, so the next id is free
  unless a fragment has it.

`Lined`, the order in which the lock is passed on, and `Seated` together say that one submit at a time
is engaged. From it: `TurnTypes`, `MessagesEndOnce`, `AnswersAreOwn`, `TurnsAreSerial`,
`WholeAnswersAreKept`. `Counted` is what shows that the model has an id for every answer. Only
model-checked: `QueueDrains`.

Left out: sessions that are not web chat, goals and conversation modes, the codex runners (the
app-server's is section 11),
warm-up and eviction.

## 8. Frames over Redis

`FrameBus.tla` is the transport of `FrameStream` when several gateway processes share a
session through Redis; poisoning and resets stay in `FrameStream`, the tape is shared.

| Variables | Code |
| --- | --- |
| `counter`, `list` | the keys of the session in Redis: the number given last, recent frames |
| `last`, `ring` | `OutboundRingBuffer` of each process |
| `pending`, `timer` | frames that came before their predecessors, the gap timer |
| `sending`, `outbox`, `inbox` | a frame between its number and its delivery, frames being published, frames on the channel |
| `at`, `asking`, `cursor` | the process a tab is registered with, the resume that waits for Redis, `_lastFrameSeq` |
| `seen`, `issued`, `taped`, `excused`, `harm` | history: what each tab has, what was kept from it by a known cause, what has happened to the numbers |
| `events` | the bound |

`Bus`: 2 processes and 2 tabs (symmetric), rings and list of 2, one frame may wait for a gap,
and any five events: a frame, a connection of a tab, a message the channel loses, a
refused publish, a call that times out, a restart, the expiry of the keys. One common bound
lets the run spend all five on frames or on any mix of frames and faults; three frames already
overflow each buffer, and what needs most is a tab that is passed over by the resume of
another (two connections, two frames) or a number given again after an overflow (four
frames, one expiry). Six events (26 million states, a quarter of an hour) hold as well. The run shows that a
tab misses nothing without being told outside the causes below, that rings stay in
order, and that no number is given twice unless the counter has expired and some process
missed frames. Per tab, `excused` has exactly the frames that these keep from it:

- a hello registers the socket before the replay has been read, so a live frame moves the
  cursor past what the replay brings (`server.ts:6702`);
- a process sends a frame of its own without knowing of the predecessors, which are on the
  channel, lost or were never published (`server.ts:7752`);
- two processes number frames concurrently and the lower number is sent late;
- the resume of another tab of the same process stores what Redis has (`server.ts:6710`):
  the channel brings these frames afterwards, and they are dropped as old (`server.ts:679`)
  for all tabs of the process;
- a resume from a ring with a hole, left by frames the process has not heard of
  (`server.ts:6743-6768`, `outboundRing.ts:158-171`);
- the branch that trusts Redis although the ring has missed (`server.ts:6769-6774`).

A publish that fails is swallowed (`redisSessionBus.ts:171-176`), and an overflow of `pending`
empties it without telling the tabs (`server.ts:687`); neither needs an excuse, because
the next frame in turn is missing and the gap timer tells. They are what makes an expiry
harmful: a process that has missed frames counts on from its own last number, and gives numbers
out again. `NumbersInOrder` says that nothing less does.

Once a call has not been answered within 50 ms the process counts for itself while the `INCR`
still happens; nothing is claimed from then on, and the model goes no further.

Left out: `workflow_progress` frames, which the cursor exempts; counter and list expire
together; pruning by age except at a hello; the cache of session lists.

## 9. The scheduler

`Cron.tla`: the tick of `cron.ts` and the requests of the API and of agents, all of which
read one YAML file, await, and write it whole.

| Variables | Code |
| --- | --- |
| `file`, `saved` | `cron.yaml` with `disabledDefaults`, `last-run.json` |
| `proc`, `builtIn`, `now`, `due` | the process, `DEFAULT_JOBS` of its release, the minute, the timer |
| `pc`, `base`, `req` | the tick and each request: where it is, the file as it has read it, what it asks |
| `held`, `todo`, `cur`, `mem`, `minute` | the tick: its jobs, those due, the one that runs, its copy of the last runs, its minute |
| `wanted`, `fired`, `allowed`, `runs`, `forgotten`, `lost` | history: acknowledged edits, runs, and the three excuses below |

`Cron`: a built-in job that may come with a later release and a reminder, one request that
overlaps a tick or the next request, 2 edits, 2 minutes, one end of the process and one
failing read or write of either file. One job of each kind is enough, since jobs share only the
files; a later release is what tells a deleted built-in job from one that is new. The run shows that a
job runs once a minute unless the record of a run was lost with the process, by a tick that threw, or by
a write or a read of `last-run.json` that failed (`forgotten`); that the file says what users asked for unless a writer had not read
what another wrote (`lost`); and that a reminder fires once per time it was set (`allowed`).

What the excuses stand for is in the code: `runJob` saves the job as it was when the tick
began, over edits made during a turn of minutes; `addJob`, `removeJob`, `updateJob` and the
cleanup overwrite each other; `runJob` says that it never throws while `saveCronFile` can,
which ends the tick with nothing recorded; `saveLastRun` runs in a `finally` and may throw, which loses
the records of the whole tick, and `loadLastRun` returns no records at all for a file that it cannot
read or parse, so that a tick started again within the minute runs its jobs once more; a jobs file
that cannot be read counts as empty, and the next write then deletes all jobs and records the built-in ones as disabled; a reminder
that its user has paused is deleted by the cleanup as if it had fired. Jobs that come due while a
long tick runs are missed without notice.

### What is proved

`Cron_proofs.tla`, for any jobs, callers, minutes, edits, crashes and failing reads and writes of both files, from
`CronAssumption` and `NameAssumption`. `IInv` is inductive (`CronInvariance`):

- `Stationed` says what each program counter implies of the copy its process holds: a file that was
  read and merged has its tombstones, one that could not be read has no jobs, the job that runs is
  no longer to be run;
- `Accounted`: for every minute that can still be run (`Floor`), a run is at hand, recorded in the
  tick's copy, or forgotten; a record of the copy is the file's, is of this tick's minute, or is missing
  because the file could not be read. A failing read (`LoadLastRun`) or write (`SaveLastRun`) and the end
  of the process (`Exit`) move a run from recorded to forgotten, and nothing else does;
- `Credited`: a reminder that is on in the file, that the tick read as on, or that is armed, may fire
  once more than it has; one that fired and is not switched off yet may not. The credit is held in one of
  three places (`MayFire`), and a lost write moves it, which is `allowed`;
- `Traced`: a built-in job that the file neither has nor counts as deleted is one the user has not
  touched. Without it a merge could bring back a job that a user deleted, which is
  what `EditsStick` denies.

From it: `CronTypes`, `JobsRunOncePerMinute`, `UserEditsStick`, `RemindersFireOnce`.

Schedules are not evaluated (a tick finds any job due), delivery is one outcome, and the task
store behind `task.created` is not modelled.

## 10. The browser's copy

`ClientSync.tla`: one session in one tab, the server's row and tape, and the other tabs as the
most general environment. Tabs meet only at the server, and what a tab shows is its own, so
one tab against everything others may do covers any number of them.

| Variables | Code |
| --- | --- |
| `row`, `tape` | the row of `client_sessions` with `updated_at` as a version, `client_session_tape` |
| `onWire`, `due` | messages and frames on their way |
| `sess` | `state.sessions`: synced version, tape number, what is shown, `_dirty`, `_needsFetch`, a broken stream, the answer that streams, the turn in flight; `pages` are `_tapeFrames`, `folded` the turns before `_tapeBefore` (`_tapeHasMore`) |
| `saving`, `old`, `put` | the scheduled save, a save of an object that a hydration replaced, the PUT |
| `hyd`, `older`, `list` | a hydration between its two reads and its adoption, an older page, the session list |
| `sent`, `overruled` | history |

A hydration reads the last turns of the tape only (`timeline?turns=5`, `sync.js:666`);
`LoadOlderTape` and `MergeOlder` are the two halves of `loadOlderTape`, the read of the page and
what is done with it, with anything in between. `PageTurns` is 5 in the code; nothing but the
number of turns on a page depends on it, and no property on its value.

`Sync`: an earlier answer and two turns, each sent by the tab or by others, pages of one turn, one write of
the row by others, 2 reads, one upset (an edit, a failing request or a
broken connection); of the two answers one may come in two pieces (`MaxParts`), the other whole. With `PageTurns = 1` the three turns fill three pages, so a hydration leaves
turns to older pages and an older page leaves some to the next. Two reads are a list and the
hydration it starts, two lists that overtake each other, or a hydration and an older page. It shows that
of the tape up to the number it compares with the list a tab which does not say it is incomplete
has all turns but those it offers to load; that a message its user sent stays in view, until its turn is
on the tape and in one of those; and that while an answer streams nothing is taken away by an older read.

`overruled` is the exception the code makes: when the server's row wins a conflict, the tab adopts
the row's messages of before the tape and drops the rest, its own last message included, until
the next list brings them back.

The tail check of a hydration (`_serverSnapshotLosesLocalTail`) is skipped for a session on the tape
(`sync.js:702`). So an answer that begins and ends between `ReadTape` and `Adopt`, or whose end arrives then, may
leave the view with the adoption: the tab does not know a number that would say so, and the next list
brings it back. `ShowsWhatItKnows` allows this, since it speaks of what the tab claims, and
`LiveViewGrows` speaks of answers that still stream; no property forbids it.

Seen on the way: a session that is `_dirty` and `_needsFetch` is wedged until a reload, since
saves are refused and the hydration returns (`sync.js:571-574`, `590-596`,
`websocket.js:1208-1217`);
the answer to a PUT
clears the `_dirty` of an edit made meanwhile; versions are milliseconds compared with `>`, so
two writes in one millisecond overwrite each other.

### What is proved

`ClientSync_proofs.tla`, for any turns and messages, pages of any size, and any number of reads, writes and upsets, from the
module's assumptions (`LegacyAssumption`: the messages from before the tape are not in it). `IInv` is
inductive (`SyncInvariance`):

- `Covering`: the tab shows, offers to load, or was told to drop, all of the tape up to its number; or it has never
  read the session, says so, *and has nothing of it under way to the server*. The last conjunct
  is the strengthening: the answer to a PUT clears the flag, so a tab that is incomplete must not
  have a PUT out;
- `PageCovers`: the page of a hydration, which is read after the number, has with the turns it leaves out the tape
  up to it, and every message the tab has read (`Read`), so that no adoption forgets one;
- `Begun`, `PagesOnTape`, `OlderCovers`: a turn begins on the tape with its message, the pages and the turns
  offered are of the tape, and an older page has every frame, up to the tab's number, of the turns that
  its merge takes from the offer. Without them a merge could end an offer that it does not fill;
- `OwnMessagesStay`.

From it: `SyncTypes`, `TabsShowWhatTheyKnow`, `SentMessagesStay`, and the action property
`LiveViewsGrow`.

Left out: IndexedDB and reloads, the creation and deletion of sessions (a PUT to a deleted row
is answered as applied; deletions pending in memory are forgotten by a reload), the tail check
of sessions that have no tape, the claim of a turn by an observer, the limit of ten conflicts,
the offline queue, the Redis cache of bodies. Titles are left out: an edit is only
something to save. The row and the tape's number are read in one step, the page of the tape after
them.

## 11. The Codex runner

`CodexAppServer.tla`: `codexAppServerRunner.ts`, one runner with its long-lived `codex app-server`
process, and that process as far as its lines show it.

| Variables | Code |
| --- | --- |
| `queue`, `cur`, `pc` | `queue`, `processing` and the await at which `runTurn` is |
| `threadId`, `proc`, `initialized`, `attached` | the fields of those names |
| `attach`, `warm`, `held`, `control` | `attachPromise` and where in `ensureThreadAttached` it is, `warmup` and the session's lock it holds, a goal control |
| `answer` | the entries of `pending`, by who waits, and what they were settled with |
| `active`, `completer`, `interrupting`, `reason`, `items` | `activeTurnId`, `currentTurnCompleter`, `pendingInterrupt`, `turnTerminationReason`, `inflightItemHandlers` |
| `alive`, `run`, `waiting`, `out`, `threads`, `spoken` | Codex: its processes, the turn each runs and those it has queued, what is in the pipe, threads made, turns that have put out something |
| `ends`, `ran`, `heard`, `stopped`, `noticed`, `raced`, `overlap`, `down` | history |

A prompt goes `Submit` → `Take` → the attach (`Launch`, `Initialized`, `SendThread`, then
`ThreadReady`, `ThreadGone` or `FoundOrphan`) → `SendTurn` → `Started` → `Settled` → `Close`, or
`Rebuild` and `Rebuilt`, or from anywhere `FailTurn`. The order of things in Node is kept: a
chunk's lines are read one after the other (`ReadStep`), what they make ready runs as a
continuation, possibly between two lines of different chunks, and nothing else happens while a
continuation is ready (`Quiet`). That is what makes early adoption (`codexAppServerRunner.ts:1507-1529`),
the buffered ends of an interrupt (`1218-1237`) and its second request to another turn
(`1275-1291`) necessary, and `Output`, `TurnEnded` and `Retarget` have them.

Codex is what the runner can observe of it: it answers a request or refuses it, starts a turn or
queues it, puts out, ends, goes on with a goal by itself, complains of a lost rollout, dies with
its last lines in the pipe. A process that was told to stop does nothing more but may have put
out something before.

`Codex`: a runner with an old thread, 2 prompts, 3 processes, 3 upsets (a warm-up, a control, a
Stop, a lost rollout, a refusal, an orphaned or a goal's turn, a missing rollout, a process that
dies, a shutdown). The second prompt is the one that could get what belongs to the first; three
processes are the one that is dying, the one that is told, and the current one; three upsets are
a cause, what races it and what follows. It shows that

- a prompt gets the output and the end of its own turn (`OwnTurn`), unless Codex began a goal's
  turn between two turns, whose first line is adopted (`1519-1521`);
- a prompt is told what ended it, and a thread whose history was lost is not used again
  (`EndsForItsCause`): a Stop that comes before the notice of the loss is a Stop, one after it is
  a rebuild;
- whoever waits, waits for the current process, no other runs unless told to stop, and a runner
  that was shut down keeps none (`OneProcess`), with two exceptions that the code has.

The exceptions are necessary: without any one of them TLC finds a counterexample.

- A shutdown during a launch does not keep it from spawning (`down` is not set then), so a runner that
  was shut down may have a process.
- `overlap`: `ensureSpawned` looks at `this.proc` before it awaits the launch overrides and not
  after (`942-963`, `1046`), and a warm-up does not go through `attachPromise`; a goal control,
  which takes no session lock, can launch beside it. The first process is then neither used nor
  stopped, and its `initialize` is answered to nobody.
- The rebuild (`2008-2030`) sends `thread/start` also when the process has gone while the last
  items were handled (`2133-2135`): `writeRaw` drops the line, nothing ever settles the request,
  and the queue stands still until the next `shutdown()` or the end of a later process.

Seen on the way: a process that goes while `turn/start` is not answered rejects a promise that
nobody handles yet (`2111-2119`), which the command line takes for fatal
(`cli/src/commands/gateway.ts:74`); the SIGKILL after three seconds looks at `killed`, which the
SIGTERM has set, and is never sent (`868-881`); the comment "caller will await" (`944`) is not what happens: a
thread is asked for before `initialize` is answered.

What is proved (`CodexAppServer_proofs`), for any number of prompts, processes and upsets. The
first invariant, `IInv`, has three layers.

- Where the runner stands (`Attaching`, `Calling`, `Turning`, `Interrupting`): which of its awaits can be
  pending together. An attached thread has a process and no attach under way; the promise of a turn's end
  is open only in an attached thread; an interrupt has a process; a resumed turn that is being interrupted
  holds the attach exactly as long as the interrupt is pending.
- Who is answered (`Came`, `Asked`, `Numbered`): whoever has an answer has it from the process that there is,
  whoever waits without one is the rebuild; each line of the process is for somebody who waits for this
  process, and no two are for the same; the turn that `turn/start` tells is that of the current prompt. From it: what
  `Answered` reads is never an answer to somebody else.
- What things are used for (`Lined`, `Threaded`, `Caused`, `Alone`): prompts are taken and closed in order; an
  id that `thread/start` told or will tell is one no turn has run on; the thread of a prompt that lost its history is
  not the current one and no later prompt's; one launch at a time, unless `overlap`.

From it: `RunnerTypes`, `PromptsKnowTheirCause` (`EndsForItsCause`) and `OneProcessServes` (`OneProcess`).
`EndsForItsCause` by itself is not inductive: between the notice and the new thread the prompt is not closed yet,
which `Lost` adds, and that the new thread is new is a matter of the lines that nobody has read (`Threaded`), whose
reader is known by `Asked`.

`OwnTurn` (`PromptsHaveTheirOwnTurn`) needs to know where the turns of a process and all its lines stand, which the
second invariant `OwnInv` adds to `IInv`.

- For every step, `Held` and `Lively`: a turn is active, or an interrupt pending, only in an attached thread or after
  a rebuild that failed (then the next thread is new); and a process that is no longer up runs nothing.
- For the steps before `raced`, `Own`: the process runs no other prompt's turn and has no line of one (`Mine`), of
  this prompt's only while its end is awaited; a goal's turn is one that `thread/resume` found, and no answer lets
  the attach succeed before its last line is read (`Goals`); the end of a turn is its last line (`EndsLast`); so an
  interrupt is never told that another turn runs (`Agreed`), and what is active, heard of and passed on is the
  prompt's own (`Named`). None of the five is inductive without the others.
- Every step but a launch moves the lines of the process in one way (`Moved`, `MovesStep`): those that stay keep
  their place before the others, and those that are new come last and are of the turn that runs or answer a request
  that was made in this step (`Wrote`). The five parts are proved from that and not action by action.

`Agreed` says that, in the model, `Retarget` never happens as long as no goal's turn begins by itself: the second `turn/interrupt`
(`1275-1291`) is for that case alone.

Left out: launch overrides and their directory, what items, plans and tools look like, approvals,
token counts; a turn that `failed` counts as one that ended; whether a goal control succeeds.

## 12. What all runs and proofs have in common

Every module states `TypeOK` (`TurnSilence` adds one flag to that of `TurnQueue`). It is proved for all modules but `FrameBus`; there it
holds on the instance of the run and can be added to the INVARIANTS of its cfg. Every run sets `CHECK_DEADLOCK FALSE`: the
bounds end the behaviours, and a system at rest with nothing asked of it is right. The liveness runs
are those of `FairSpec`: `Release_liveness`, `Repair` and `Turns_liveness`.

Each proof module has the same layout: the conjuncts of `IInv`, lemmas about the operators of the model, one
lemma per conjunct with a step per action that can disturb it, and the theorems. The
theorems assume no more of the constants than the module's own assumptions, which TLC evaluates in its run
(but `~LeaderMayDie` in three of `ReleaseWorker`, section 3); the bounds of the runs are constants like
others and may have any value.

What stays with TLC:

- liveness: `ClaimedIsClosed`, `ReceivedIsTaken`, `Settled`, `QueueDrains`. The proof system has
  no fairness and no `ENABLED`;
- `FrameBus` (`NumbersInOrder` and its `NoSilentGap`): the rings are merged by `SetToSortSeq`, filtered by
  `SelectSeq` and flushed by a fold, all of which are recursive; what they return for every input is not within reach of the provers. `FrameStream` has
  one such operator, `After`, written as a recursive function for this reason, and its lemmas show what it takes.

## 13. What is not modelled

Every component is listed in `PROJECT.json` with its reason. Later: `Egress`. Out of scope: wire
formats, prompts, rendering, the adapters of chat channels, voice, terminals, the CLI, types and
scripts, which are I/O or hold no state that several actors share. v5, the agent's model, systemd
and git are the environment: they appear as nondeterministic choices.
