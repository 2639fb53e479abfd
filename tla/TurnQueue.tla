------------------------------- MODULE TurnQueue -------------------------------
(***************************************************************************)
(* The turns of one web chat session: the lock that submit() takes          *)
(* (sessionManager.ts), the turn it runs with its retries, the idle         *)
(* timeout, the continuation watch that outlives a turn, and the claude     *)
(* process that answers (subprocessRunner.ts), against destroySession and   *)
(* shutdownAll.                                                             *)
(*                                                                          *)
(* One step is what the gateway does between two awaits, or one event of    *)
(* the process.  A submit holds the lock from Enter to Return; the turn it  *)
(* started is a promise of its own and may outlive the lock.                *)
(***************************************************************************)
EXTENDS Naturals, Sequences, FiniteSets

CONSTANTS
  MaxSubmits,  \* submits, numbered in the order of their calls
  Procs,       \* names of processes; a dead one's may be used again
  Watch,       \* the continuation watch, as a reader of messages
  Task,        \* a background task, as what a result answers
  None,        \* no reader, no process
  MaxTries,    \* retries of a turn that ended without an answer
  MaxTasks,    \* bound: background tasks launched
  MaxRecycles, \* bound: changes of the model or the effort
  MaxCrashes,  \* bound: processes that exit on their own
  MaxLate,     \* bound: processes that outlive their SIGKILL
  MaxUpsets    \* bound: those and the turns that are retried, together

ASSUME NameAssumption ==
  /\ {Watch, Task, None} \cap (Nat \cup Procs) = {}
  /\ Cardinality({Watch, Task, None}) = 3
ASSUME BoundAssumption ==
  {MaxSubmits, MaxTries, MaxTasks, MaxRecycles, MaxCrashes, MaxLate, MaxUpsets} \subseteq Nat

Submits == 1..MaxSubmits
TurnIds == 1..(MaxSubmits + MaxTasks + 1)

VARIABLES
  (* the session *)
  life,      \* whether it is being destroyed, or the gateway shut down
  pump,      \* the permanent listener on the runner's messages is installed
  handler,   \* whose parser it feeds
  watch,     \* a continuation watch is armed
  watchId,   \* the id its next answer gets
  turns,     \* answers counted so far
  (* the submits *)
  pc, turn,  \* where submit() is; where its runOneTurnWithRetry is
  tries,     \* retries used
  muted,     \* submits whose event gate suppresses
  flush,     \* turns whose deferred exit handler is pending
  (* the runner *)
  proc,      \* its current process
  up,        \* what each process is doing
  prompts,   \* prompts each has to answer
  task,      \* whether a background task of it will report
  starting,  \* whose prompt waits for start()
  waits,     \* the process whose end each shutdown() awaits
  (* what clients and the store have got *)
  ends,      \* final and error events by submit
  answered,  \* what the result that ended the turn was an answer to
  rows,      \* server-authored messages by turn id
  lost,      \* ids of whole answers refused because the id was taken
  outlasted, \* a timer gave up on something that was still going on
  launches, recycles, crashes, lates

sessionVars == <<life, pump, handler, watch, watchId, turns>>
submitVars  == <<pc, turn, tries, muted, flush>>
runnerVars  == <<proc, up, prompts, task, starting, waits>>
seenVars    == <<ends, answered, rows, lost>>
bounds      == <<launches, recycles, crashes, lates>>
vars == <<sessionVars, submitVars, runnerVars, seenVars, outlasted, bounds>>

(* The session's own shutdown(), that of destroySession or shutdownAll. *)
Owner == 0

(* Every variable has its type. *)
TypeOK ==
  /\ life \in {"open", "destroying", "gone", "refusing", "closing", "closed"}
  /\ pump \in BOOLEAN
  /\ handler \in Submits \cup {Watch, None}
  /\ watch \in BOOLEAN
  /\ watchId \in TurnIds \cup {None}
  /\ turns \in Nat
  /\ pc \in [Submits -> {"new", "waiting", "gate", "recycle", "turn", "reset", "drain", "back"}]
  /\ turn \in [Submits -> {"none", "start", "live", "refresh", "restart", "over"}]
  /\ tries \in [Submits -> 0..MaxTries]
  /\ muted \subseteq Submits
  /\ flush \subseteq Submits
  /\ proc \in Procs \cup {None}
  /\ up \in [Procs -> {"none", "up", "stopping", "late", "out"}]
  /\ prompts \in [Procs -> Seq(Submits)]
  /\ task \in [Procs -> BOOLEAN]
  /\ starting \in Submits \cup {None}
  /\ waits \in [Submits \cup {Owner} -> Procs \cup {None}]
  /\ ends \in [Submits -> Nat]
  /\ answered \in [Submits -> Submits \cup {Task, None}]
  /\ rows \in [TurnIds -> {"none", "partial", "whole"}]
  /\ lost \subseteq TurnIds
  /\ outlasted \in BOOLEAN
  /\ launches \in 0..MaxTasks
  /\ recycles \in 0..MaxRecycles
  /\ crashes \in 0..MaxCrashes
  /\ lates \in 0..MaxLate

Init ==
  /\ life = "open" /\ pump = FALSE /\ handler = None
  /\ watch = FALSE /\ watchId = None /\ turns = 0
  /\ pc = [s \in Submits |-> "new"]
  /\ turn = [s \in Submits |-> "none"]
  /\ tries = [s \in Submits |-> 0]
  /\ muted = {} /\ flush = {}
  /\ proc = None
  /\ up = [p \in Procs |-> "none"]
  /\ prompts = [p \in Procs |-> <<>>]
  /\ task = [p \in Procs |-> FALSE]
  /\ starting = None
  /\ waits = [w \in Submits \cup {Owner} |-> None]
  /\ ends = [s \in Submits |-> 0]
  /\ answered = [s \in Submits |-> None]
  /\ rows = [n \in TurnIds |-> "none"]
  /\ lost = {} /\ outlasted = FALSE
  /\ launches = 0 /\ recycles = 0 /\ crashes = 0 /\ lates = 0

------------------------------------------------------------------------------
(* What the steps have in common.                                           *)

(* The turn's parser is not finalized and its listeners are attached. *)
Listening(s) == turn[s] \in {"start", "live"}

(* Slip: an event reaches the client although its gate is closed. *)
ToldSlip(s) == [ends EXCEPT ![s] = @ + 1]
(* The client is told how its message ended, unless the event gate is shut. *)
Told(s) == IF s \in muted THEN ends ELSE [ends EXCEPT ![s] = @ + 1]

(* An id is stored once; whatever comes second under it is refused. *)
Store(n, kind) ==
  /\ rows' = IF rows[n] = "none" THEN [rows EXCEPT ![n] = kind] ELSE rows
  /\ lost' = IF rows[n] # "none" /\ kind = "whole" THEN lost \cup {n} ELSE lost

(* shutdown(): stdin is closed and the caller waits for the exit, or 3 s. *)
Stop(w) ==
  /\ up' = IF proc = None THEN up ELSE [up EXCEPT ![proc] = "stopping"]
  /\ waits' = [waits EXCEPT ![w] = proc]
Stopped(w) == waits[w] # None => up[waits[w]] # "stopping"
StopReturns(w) == Stopped(w) /\ waits' = [waits EXCEPT ![w] = None]

EndWatch == watch' = FALSE /\ watchId' = None

(* _runOneTurn: the pump is pointed at this turn, its listeners are attached,
   and the prompt is written; without a process one is started first, and a
   process that is being stopped takes no prompt. *)
RunTurn(s) ==
  /\ pump' = TRUE
  /\ handler' = s
  /\ CASE proc = None /\ starting = None ->
            /\ turn' = [turn EXCEPT ![s] = "start"]
            /\ starting' = s
            /\ UNCHANGED <<prompts, ends>>
       [] proc # None /\ up[proc] = "up" ->
            /\ turn' = [turn EXCEPT ![s] = "live"]
            /\ prompts' = [prompts EXCEPT ![proc] = Append(@, s)]
            /\ UNCHANGED <<starting, ends>>
       [] OTHER ->
            /\ turn' = [turn EXCEPT ![s] = "over"]
            /\ ends' = Told(s)
            /\ UNCHANGED <<starting, prompts>>

------------------------------------------------------------------------------
(* submit().                                                                *)

Submit(s) ==
  /\ life \in {"open", "destroying"}
  /\ pc[s] = "new"
  /\ \A t \in Submits : t < s => pc[t] # "new"
  /\ pc' = [pc EXCEPT ![s] = "waiting"]
  /\ UNCHANGED <<sessionVars, turn, tries, muted, flush, runnerVars, seenVars, outlasted,
                 bounds>>

(* The submit before it has released the lock.  Once the gateway is shutting
   down, one that waited is retired without a turn. *)
Enter(s) ==
  /\ pc[s] = "waiting"
  /\ \A t \in Submits : t < s => pc[t] = "back"
  /\ pc' = [pc EXCEPT ![s] = IF life \in {"refusing", "closing"} THEN "back" ELSE "gate"]
  /\ UNCHANGED <<sessionVars, turn, tries, muted, flush, runnerVars, seenVars, outlasted,
                 bounds>>

(* Slip: the new turn does not wait for the continuation. *)
WatchDoneSlip == TRUE
WatchDone == ~ watch

(* Slip: the wait has no limit of its own. *)
DrainLimitSlip(s) == pc[s] = "gate" /\ FALSE /\ UNCHANGED vars

(* The watch was kept alive past the drain limit: it is ended by force. *)
DrainLimit(s) ==
  /\ pc[s] = "gate"
  /\ watch
  /\ EndWatch
  /\ outlasted' = (outlasted \/ \E p \in Procs : task[p])
  /\ UNCHANGED <<life, pump, handler, turns, submitVars, runnerVars, seenVars, bounds>>

(* The model or the effort differs: the process is recycled. *)
Recycle(s) ==
  /\ recycles < MaxRecycles
  /\ pc[s] = "gate"
  /\ WatchDone
  /\ proc # None
  /\ Stop(s)
  /\ pc' = [pc EXCEPT ![s] = "recycle"]
  /\ recycles' = recycles + 1
  /\ UNCHANGED <<sessionVars, turn, tries, muted, flush, proc, prompts, task, starting,
                 seenVars, outlasted, launches, crashes, lates>>

Begin(s) ==
  /\ \/ pc[s] = "gate" /\ WatchDone /\ UNCHANGED waits
     \/ pc[s] = "recycle" /\ StopReturns(s)
  /\ RunTurn(s)
  /\ pc' = [pc EXCEPT ![s] = "turn"]
  /\ UNCHANGED <<life, watch, watchId, turns, tries, muted, flush, proc, up, task, answered,
                 rows, lost, outlasted, bounds>>

(* The lock is released when the turn's promise settles. *)
Return(s) ==
  /\ pc[s] = "turn"
  /\ turn[s] = "over"
  /\ pc' = [pc EXCEPT ![s] = "back"]
  /\ UNCHANGED <<sessionVars, turn, tries, muted, flush, runnerVars, seenVars, outlasted,
                 bounds>>

(* Slip: the process is asked to stop the turn and kept. *)
HardResetSlip(s) == UNCHANGED <<up, waits>>
(* The runner of a turn that fell silent is shut down. *)
HardReset(s) == Stop(s)

(* The liveness watchdog: the client is told, the gate is closed, the turn
   is interrupted. *)
IdleTimeout(s) ==
  /\ pc[s] = "turn"
  /\ turn[s] \in {"start", "live", "refresh"}
  /\ ends' = [ends EXCEPT ![s] = @ + 1]
  /\ muted' = muted \cup {s}
  /\ HardReset(s)
  /\ pc' = [pc EXCEPT ![s] = "reset"]
  /\ outlasted' = (outlasted \/ turn[s] # "live")
  /\ UNCHANGED <<sessionVars, turn, tries, flush, proc, prompts, task, starting, answered,
                 rows, lost, bounds>>

ResetDone(s) ==
  /\ pc[s] = "reset"
  /\ StopReturns(s)
  /\ pc' = [pc EXCEPT ![s] = "drain"]
  /\ UNCHANGED <<sessionVars, turn, tries, muted, flush, proc, up, prompts, task, starting,
                 seenVars, outlasted, bounds>>

(* The old turn has settled, or two seconds have passed: longer than the
   deferral of the exit handler. *)
DrainEnd(s) ==
  /\ pc[s] = "drain"
  /\ turn[s] = "over" \/ s \notin flush
  /\ pc' = [pc EXCEPT ![s] = "back"]
  /\ UNCHANGED <<sessionVars, turn, tries, muted, flush, runnerVars, seenVars, outlasted,
                 bounds>>

------------------------------------------------------------------------------
(* The turn: start, result, retry, exit.                                    *)

Free(p) == up[p] = "none" /\ \A w \in DOMAIN waits : waits[w] # p

SpawnOk(s) ==
  /\ starting = s
  /\ \E p \in Procs : Free(p)
  /\ LET p == CHOOSE p \in Procs : Free(p)
     IN
       /\ proc' = p
       /\ up' = [up EXCEPT ![p] = "up"]
       /\ prompts' = [prompts EXCEPT ![p] = <<s>>]
       /\ task' = [task EXCEPT ![p] = FALSE]
  /\ starting' = None
  /\ turn' = [turn EXCEPT ![s] = IF @ = "start" THEN "live" ELSE @]
  /\ UNCHANGED <<sessionVars, pc, tries, muted, flush, waits, seenVars, outlasted, bounds>>

(* No binary, crash-looping, or the spawn throws. *)
SpawnFails(s) ==
  /\ starting = s
  /\ starting' = None
  /\ turn' = [turn EXCEPT ![s] = "over"]
  /\ ends' = Told(s)
  /\ UNCHANGED <<sessionVars, pc, tries, muted, flush, proc, up, prompts, task, waits,
                 answered, rows, lost, outlasted, bounds>>

(* A process puts out a result, of its oldest prompt or of a background task,
   and may have launched a background task meanwhile. *)
Emit(p, q, launch) ==
  /\ up[p] \in {"up", "stopping", "out"}
  /\ launch => launches < MaxTasks /\ up[p] = "up"
  /\ launches' = IF launch THEN launches + 1 ELSE launches
  /\ \/ /\ prompts[p] # <<>>
        /\ q = Head(prompts[p])
        /\ prompts' = [prompts EXCEPT ![p] = Tail(@)]
        /\ task' = [task EXCEPT ![p] = @ \/ launch]
     \/ /\ task[p]
        /\ q = Task
        /\ task' = [task EXCEPT ![p] = launch]
        /\ UNCHANGED prompts

(* Slip: the id of the report is that of the turn before it. *)
ArmSlip(launch) ==
  IF launch /\ ~ watch
  THEN /\ watch' = TRUE
       /\ watchId' = turns + 1
       /\ handler' = Watch
  ELSE UNCHANGED <<watch, watchId, handler>>
(* A turn that launched a background task leaves a watch for its report. *)
Arm(launch) ==
  IF launch /\ ~ watch
  THEN /\ watch' = TRUE
       /\ watchId' = turns + 2
       /\ handler' = Watch
  ELSE UNCHANGED <<watch, watchId, handler>>

(* The turn the pump feeds ends with it: it is counted, told and stored. *)
TurnAnswered(p, q, launch, s) ==
  /\ Emit(p, q, launch)
  /\ pump /\ handler = s
  /\ Listening(s)
  /\ turns' = turns + 1
  /\ Store(turns + 1, "whole")
  /\ ends' = Told(s)
  /\ answered' = [answered EXCEPT ![s] = q]
  /\ turn' = [turn EXCEPT ![s] = "over"]
  /\ flush' = flush \ {s}
  /\ Arm(launch)
  /\ UNCHANGED <<life, pump, pc, tries, muted, proc, up, starting, waits, outlasted, recycles,
                 crashes, lates>>

(* A failure of authentication, or a result without any output: the counters
   are rolled back and the turn is to be tried again. *)
TurnRejected(p, q, s) ==
  /\ Emit(p, q, FALSE)
  /\ pump /\ handler = s
  /\ Listening(s)
  /\ turn' = [turn EXCEPT ![s] = "refresh"]
  /\ flush' = flush \ {s}
  /\ outlasted' = (outlasted \/ s \in muted)
  /\ UNCHANGED <<sessionVars, pc, tries, muted, proc, up, starting, waits, seenVars,
                 recycles, crashes, lates>>

(* The watch takes it for the continuation: stored under the id it was armed
   with, or rolled back as empty. *)
WatchAnswered(p, q, launch) ==
  /\ Emit(p, q, launch)
  /\ pump /\ handler = Watch
  /\ watch
  /\ \/ /\ turns' = turns + 1
        /\ Store(watchId, "whole")
        /\ IF launch THEN watch' = TRUE /\ watchId' = turns + 2 ELSE EndWatch
     \/ ~ launch /\ EndWatch /\ UNCHANGED <<turns, rows, lost>>
  /\ UNCHANGED <<life, pump, handler, submitVars, proc, up, starting, waits, ends, answered,
                 outlasted, recycles, crashes, lates>>

(* Nobody listens: the pump is off, or its parser is finalized. *)
Unheard(p, q) ==
  /\ Emit(p, q, FALSE)
  /\ pump => /\ handler = Watch => ~ watch
             /\ handler \in Submits => ~ Listening(handler)
  /\ UNCHANGED <<sessionVars, submitVars, proc, up, starting, waits, seenVars, outlasted,
                 recycles, crashes, lates>>

(* The credentials are refreshed and the process is restarted... *)
Restart(s) ==
  /\ turn[s] = "refresh"
  /\ turn' = [turn EXCEPT ![s] = "restart"]
  /\ pc[s] \in {"turn", "back"}
  /\ Stop(s)
  /\ UNCHANGED <<sessionVars, pc, tries, muted, flush, proc, prompts, task, starting, seenVars,
                 outlasted, bounds>>

TriesLeft(s) == tries[s] < MaxTries
Retried == {s \in Submits : tries[s] > 0}

(* ... and the turn runs again, whether or not its submit still waits. *)
Retry(s) ==
  /\ turn[s] = "restart"
  /\ TriesLeft(s) /\ lates + Cardinality(Retried \cup {s}) <= MaxUpsets
  /\ StopReturns(s)
  /\ tries' = [tries EXCEPT ![s] = @ + 1]
  /\ RunTurn(s)
  /\ UNCHANGED <<life, watch, watchId, turns, pc, muted, flush, proc, up, task, answered, rows,
                 lost, outlasted, bounds>>

GiveUp(s) ==
  /\ turn[s] = "restart"
  /\ ~ TriesLeft(s)
  /\ StopReturns(s)
  /\ turn' = [turn EXCEPT ![s] = "over"]
  /\ ends' = Told(s)
  /\ UNCHANGED <<sessionVars, pc, tries, muted, flush, proc, up, prompts, task, starting,
                 answered, rows, lost, outlasted, bounds>>

(* The turn has a timer of its own, which messages put off but other output does
   not: the turn is interrupted and ends, and its process is kept. *)
TurnTimeout(s) ==
  /\ Listening(s)
  /\ turn' = [turn EXCEPT ![s] = "over"]
  /\ flush' = flush \ {s}
  /\ ends' = Told(s)
  /\ outlasted' = TRUE
  /\ UNCHANGED <<sessionVars, pc, tries, muted, runnerVars, answered, rows, lost, bounds>>

(* The deferred exit handler: what was on stdout has been read.  A turn that
   did not end meanwhile ends now, and its partial answer is stored under the
   id that its answer would have had. *)
FlushExit(s) ==
  /\ s \in flush
  /\ \A p \in Procs : up[p] # "out"
  /\ flush' = flush \ {s}
  /\ turn' = [turn EXCEPT ![s] = "over"]
  /\ ends' = Told(s)
  /\ \/ Store(turns + 1, "partial")
     \/ UNCHANGED <<rows, lost>>
  /\ UNCHANGED <<sessionVars, pc, tries, muted, runnerVars, answered, outlasted, bounds>>

------------------------------------------------------------------------------
(* The process.                                                             *)

(* The exit event, of whichever process: the runner forgets its current one,
   the turns that listen defer their end, the watch ends at once.  A result
   may still be on its way from stdout. *)
Exit(p) ==
  /\ up' = [up EXCEPT ![p] = IF prompts[p] = <<>> THEN "none" ELSE "out"]
  /\ proc' = None
  /\ task' = [task EXCEPT ![p] = FALSE]
  /\ flush' = flush \cup {s \in Submits : Listening(s)}
  /\ IF watch
     THEN /\ EndWatch
          /\ \/ Store(watchId, "partial")
             \/ UNCHANGED <<rows, lost>>
     ELSE UNCHANGED <<watch, watchId, rows, lost>>
  /\ UNCHANGED <<life, pump, handler, turns, pc, turn, tries, muted, prompts, starting, waits,
                 ends, answered, launches, recycles>>

CrashProc(p) ==
  /\ up[p] = "up"
  /\ crashes < MaxCrashes
  /\ crashes' = crashes + 1
  /\ Exit(p)
  /\ UNCHANGED <<outlasted, lates>>

(* A process that is shut down exits by itself or is killed. *)
StopExit(p) ==
  /\ up[p] = "stopping"
  /\ Exit(p)
  /\ UNCHANGED <<outlasted, crashes, lates>>

(* It is killed, and shutdown() returns, but it has not exited yet. *)
Outlive(p) ==
  /\ up[p] = "stopping"
  /\ lates < MaxLate /\ lates + Cardinality(Retried) < MaxUpsets
  /\ lates' = lates + 1
  /\ up' = [up EXCEPT ![p] = "late"]
  /\ proc' = None
  /\ outlasted' = TRUE
  /\ UNCHANGED <<sessionVars, submitVars, prompts, task, starting, waits, seenVars, launches,
                 recycles, crashes>>

LateExit(p) ==
  /\ up[p] = "late"
  /\ Exit(p)
  /\ UNCHANGED <<outlasted, crashes, lates>>

(* Nothing more comes from its stdout. *)
Drained(p) ==
  /\ up[p] = "out"
  /\ up' = [up EXCEPT ![p] = "none"]
  /\ prompts' = [prompts EXCEPT ![p] = <<>>]
  /\ UNCHANGED <<sessionVars, submitVars, proc, task, starting, waits, seenVars, outlasted,
                 bounds>>

(* The watch has seen nothing for its backstop. *)
Backstop ==
  /\ watch
  /\ EndWatch
  /\ outlasted' = (outlasted \/ \E p \in Procs : task[p])
  /\ UNCHANGED <<life, pump, handler, turns, submitVars, runnerVars, seenVars, bounds>>

------------------------------------------------------------------------------
(* The end of the session, and of the gateway.                              *)

(* The watch ends, the pump is taken off, the runner is shut down; the lock
   is not taken. *)
TearDown(next) ==
  /\ life' = next
  /\ EndWatch
  /\ pump' = FALSE
  /\ handler' = None
  /\ Stop(Owner)
  /\ UNCHANGED <<turns, submitVars, proc, prompts, task, starting, seenVars, outlasted, bounds>>

DestroySession == life = "open" /\ TearDown("destroying")

Destroyed ==
  /\ life = "destroying"
  /\ StopReturns(Owner)
  /\ life' = "gone"
  /\ UNCHANGED <<pump, handler, watch, watchId, turns, submitVars, proc, up, prompts, task,
                 starting, seenVars, outlasted, bounds>>

BeginShutdown ==
  /\ life = "open"
  /\ life' = "refusing"
  /\ UNCHANGED <<pump, handler, watch, watchId, turns, submitVars, runnerVars, seenVars,
                 outlasted, bounds>>

ShutdownAll == life = "refusing" /\ TearDown("closing")

(* Every submit that was queued has released the lock. *)
Closed ==
  /\ life = "closing"
  /\ StopReturns(Owner)
  /\ \A s \in Submits : pc[s] \in {"new", "back"}
  /\ life' = "closed"
  /\ UNCHANGED <<pump, handler, watch, watchId, turns, submitVars, proc, up, prompts, task,
                 starting, seenVars, outlasted, bounds>>

SubmitStep(s) ==
  \/ Enter(s) \/ DrainLimit(s) \/ Recycle(s) \/ Begin(s) \/ Return(s)
  \/ ResetDone(s) \/ DrainEnd(s)

TurnStep(s) ==
  \/ SpawnOk(s) \/ SpawnFails(s) \/ Restart(s) \/ Retry(s) \/ GiveUp(s)
  \/ TurnTimeout(s) \/ FlushExit(s)

Results(p) ==
  \E q \in Submits \cup {Task} :
    \/ \E launch \in BOOLEAN :
         \/ \E s \in Submits : TurnAnswered(p, q, launch, s)
         \/ WatchAnswered(p, q, launch)
    \/ \E s \in Submits : TurnRejected(p, q, s)
    \/ Unheard(p, q)

Ending(p) == StopExit(p) \/ Outlive(p) \/ LateExit(p) \/ Drained(p)

LifeStep == DestroySession \/ Destroyed \/ BeginShutdown \/ ShutdownAll \/ Closed

Next ==
  \/ \E s \in Submits : Submit(s) \/ SubmitStep(s) \/ IdleTimeout(s) \/ TurnStep(s)
  \/ \E p \in Procs : Results(p) \/ CrashProc(p) \/ Ending(p)
  \/ Backstop
  \/ LifeStep

Spec == Init /\ [][Next]_vars

------------------------------------------------------------------------------
(* Properties.                                                              *)

(* A message ends once: its client gets one final or one error, and has got
   it when submit() returns. *)
EndsOnce ==
  \A s \in Submits :
    /\ ~ outlasted => ends[s] <= 1
    /\ pc[s] = "back" /\ turn[s] # "none" => ends[s] >= 1

(* A turn is ended by the answer to its own prompt, not by that of a turn
   that was given up, of a retry, or of a background task, as long as nothing
   outlasted the timer that waited for it. *)
OwnAnswer == ~ outlasted => \A s \in Submits : answered[s] \in {s, None}

(* One turn at a time talks to the runner, and no process is given a prompt
   while it has one to answer. *)
OneTurn ==
  ~ outlasted =>
    /\ \A s, t \in Submits : Listening(s) /\ Listening(t) => s = t
    /\ \A p \in Procs : Len(prompts[p]) <= 1

(* The whole answer of a turn is stored, unless its id is that of the
   fragment which an interrupted turn left. *)
AnswersKept == ~ outlasted => \A n \in lost : rows[n] = "partial"

================================================================================
