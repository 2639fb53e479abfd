---------------------------- MODULE CodexAppServer ----------------------------
(***************************************************************************)
(* The runner of a Codex agent (codexAppServerRunner.ts): its queue of       *)
(* prompts, the long-lived app-server process it talks to over JSON-RPC,     *)
(* the thread it attaches to, the turn it runs and the interrupts it         *)
(* reconciles, against warm-ups, goal controls, Stops, lost rollouts,        *)
(* processes that end, and shutdown().                                       *)
(*                                                                          *)
(* One step is the reading of one line, the run of one continuation, or one  *)
(* event.  Lines of one chunk are read before the continuations they make    *)
(* ready; everything else waits until none is ready.                         *)
(***************************************************************************)
EXTENDS Naturals, Sequences, FiniteSets

CONSTANTS
  MaxPrompts, \* prompts, numbered in the order of their submit()
  Procs,      \* names of processes; one that is gone may be used again
  Goal,       \* a turn that Codex runs of its own accord, for a goal
  None,       \* no thread, turn or process
  Resumed,    \* whether the runner is made with the id of an old thread
  MaxUpsets   \* bound: calls and events from outside, besides submits

ASSUME NameAssumption ==
  /\ Goal # None
  /\ {Goal, None} \cap (Nat \cup Procs) = {}
ASSUME BoundAssumption == MaxPrompts \in Nat /\ MaxUpsets \in Nat /\ Resumed \in BOOLEAN

Prompts == 1..MaxPrompts
(* The turn that answers a prompt has the prompt's number. *)
Turns   == Prompts \cup {Goal}
(* Who sends requests; each has at most one that is not answered. *)
Waiters == {"warm", "attach", "turn", "interrupt", "control"}

VARIABLES
  (* the runner *)
  queue, cur, pc,  \* prompts that wait; the last one taken; where runTurn is
  threadId,
  proc,
  initialized, attached,
  attach,          \* where attachPromise is
  warm, held,      \* where warmup is; it holds the session's lock
  control,         \* where a goal control is
  answer,          \* by waiter: the request that is out, or its outcome
  active,          \* activeTurnId
  completer,       \* currentTurnCompleter, and how its promise was settled
  interrupting,    \* pendingInterrupt
  reason,          \* turnTerminationReason
  items,           \* a handler of a completed item is in flight
  (* Codex *)
  alive,           \* each process: up, told to stop, dead but not reported
  run, waiting,    \* the turn it runs, and those it has queued
  out,             \* lines it has put out and nobody has read
  threads,         \* threads made so far
  spoken,          \* turns that have put out something
  (* what has been seen *)
  ends,            \* how each prompt was closed, and by the end of which turn
  ran,             \* the thread its turn was started on
  heard,           \* whose output was passed on while which prompt was current
  stopped, noticed,\* prompts stopped by the user; whose rollout was missed
  raced,           \* a goal's turn began in an attached thread
  overlap,         \* two launches were being prepared at once
  down,            \* shut down, but not during a launch, and asked for nothing since
  upsets

callVars   == <<warm, held, control>>
turnVars   == <<queue, cur, pc>>
threadVars == <<threadId, initialized, attached>>
eventVars  == <<active, completer, interrupting, reason, items>>
codexVars  == <<alive, run, waiting, out, threads, spoken>>
seenVars   == <<ends, ran, heard, stopped, noticed, raced, overlap, down>>
vars == <<callVars, turnVars, threadVars, proc, attach, answer, eventVars, codexVars, seenVars,
          upsets>>

Nothing == [is |-> "none", id |-> None]
Failure == [is |-> "failed", id |-> None]
NoInterrupt == [target |-> None, mode |-> "public", again |-> FALSE, over |-> FALSE, kept |-> {}]

(* Every variable has its type. *)
TypeOK ==
  /\ queue \in Seq(Prompts)
  /\ cur \in 0..MaxPrompts
  /\ pc \in {"idle", "attach", "send", "starting", "running", "close", "rebuild", "fail"}
  /\ threadId \in Nat \cup {None}
  /\ proc \in Procs \cup {None}
  /\ {initialized, attached, held, items, raced, overlap, down} \subseteq BOOLEAN
  /\ attach \in {"idle", "launch", "init", "spawned", "start", "resume", "orphan"}
  /\ warm \in {"idle", "launch", "init"}
  /\ control \in {"idle", "attach", "send", "sent"}
  /\ \A w \in Waiters :
       answer[w].is \in {"none", "sent", "failed", "ok", "orphan", "gone", "mismatch", "refused"}
  /\ active \in Turns \cup {None}
  /\ completer.is \in {"none", "open", "failed", "completed", "interrupted"}
  /\ completer.id \in Turns \cup {None}
  /\ interrupting.target \in Turns \cup {None}
  /\ reason \in {"none", "user", "system", "rollout"}
  /\ alive \in [Procs -> {"none", "up", "told", "dead"}]
  /\ run \in [Procs -> Turns \cup {None}]
  /\ waiting \in [Procs -> Seq(Turns)]
  /\ threads \in Nat
  /\ spoken \subseteq Turns
  /\ heard \subseteq Prompts \X Turns
  /\ stopped \subseteq Prompts /\ noticed \subseteq Prompts
  /\ upsets \in 0..MaxUpsets

Init ==
  /\ queue = <<>> /\ cur = 0 /\ pc = "idle"
  /\ threads = IF Resumed THEN 1 ELSE 0
  /\ threadId = IF Resumed THEN 1 ELSE None
  /\ proc = None /\ initialized = FALSE /\ attached = FALSE
  /\ attach = "idle" /\ warm = "idle" /\ held = FALSE /\ control = "idle"
  /\ answer = [w \in Waiters |-> Nothing]
  /\ active = None /\ completer = Nothing /\ interrupting = NoInterrupt
  /\ reason = "none" /\ items = FALSE
  /\ alive = [p \in Procs |-> "none"]
  /\ run = [p \in Procs |-> None]
  /\ waiting = [p \in Procs |-> <<>>]
  /\ out = [p \in Procs |-> <<>>]
  /\ spoken = {}
  /\ ends = [s \in Prompts |-> [how |-> "none", by |-> None]]
  /\ ran = [s \in Prompts |-> None]
  /\ heard = {} /\ stopped = {} /\ noticed = {}
  /\ raced = FALSE /\ overlap = FALSE /\ down = FALSE
  /\ upsets = 0

------------------------------------------------------------------------------
Got(w, what) == answer[w].is = what

(* A continuation can run. *)
Ready ==
  \/ pc = "idle" /\ queue # <<>>
  \/ pc = "send" \/ control = "send" \/ attach = "spawned"
  \/ pc = "running" /\ completer.is # "open"
  \/ pc \in {"close", "fail"} /\ ~ items
  \/ \E w \in Waiters : answer[w].is \notin {"none", "sent"}
  \/ interrupting.over /\ Got("interrupt", "none")
Quiet == ~ Ready

------------------------------------------------------------------------------
(* Requests, and what Codex makes of them.                                  *)

Upset == upsets < MaxUpsets /\ upsets' = upsets + 1

(* A request to a process that is not there, or no longer reads, is never
   answered. *)
Send(w) == answer' = [answer EXCEPT ![w] = [is |-> "sent", id |-> proc]]
Served  == proc # None /\ alive[proc] = "up"
Line(to, is, id) == [to |-> to, is |-> is, id |-> id]
Say(p, lines) == out' = [out EXCEPT ![p] = @ \o lines]

Unserved == ~ Served /\ UNCHANGED <<codexVars, raced, upsets>>

(* Codex refuses a request for a reason of its own. *)
Refuse(w) ==
  /\ Served
  /\ Upset
  /\ Say(proc, <<Line(w, "refused", None)>>)
  /\ UNCHANGED <<alive, run, waiting, threads, spoken, raced>>

(* thread/start: a new thread. *)
StartThread(w) ==
  /\ Send(w)
  /\ \/ Unserved
     \/ Refuse(w)
     \/ /\ Served
        /\ threads' = threads + 1
        /\ Say(proc, <<Line(w, "ok", threads + 1)>>)
        /\ UNCHANGED <<alive, run, waiting, spoken, raced, upsets>>

(* thread/resume: the thread, perhaps with a goal's turn that goes on in it,
   or its rollout is not there. *)
ResumeThread ==
  /\ Send("attach")
  /\ \/ Unserved
     \/ Refuse("attach")
     \/ /\ Served
        /\ Say(proc, <<Line("attach", "ok", threadId)>>)
        /\ UNCHANGED <<alive, run, waiting, threads, spoken, raced, upsets>>
     \/ /\ Served
        /\ Upset
        /\ Say(proc, <<Line("attach", "gone", None)>>)
        /\ UNCHANGED <<alive, run, waiting, threads, spoken, raced>>
     \/ /\ Served
        /\ Upset
        /\ run' = [run EXCEPT ![proc] = Goal]
        /\ Say(proc, <<Line("attach", "orphan", Goal)>>)
        /\ UNCHANGED <<alive, waiting, threads, spoken, raced>>

(* turn/start: the turn begins, or waits for the one that runs. *)
StartTurn ==
  /\ Send("turn")
  /\ \/ Unserved
     \/ Refuse("turn")
     \/ /\ Served
        /\ IF run[proc] = None
           THEN run' = [run EXCEPT ![proc] = cur] /\ UNCHANGED waiting
           ELSE waiting' = [waiting EXCEPT ![proc] = Append(@, cur)] /\ UNCHANGED run
        /\ Say(proc, <<Line("turn", "ok", cur)>>)
        /\ UNCHANGED <<alive, threads, spoken, raced, upsets>>

(* The turn that runs in p is over. *)
TurnOver(p) ==
  IF waiting[p] = <<>>
  THEN run' = [run EXCEPT ![p] = None] /\ UNCHANGED waiting
  ELSE /\ run' = [run EXCEPT ![p] = Head(waiting[p])]
       /\ waiting' = [waiting EXCEPT ![p] = Tail(@)]

(* turn/interrupt: the answer and the end of the turn come in either order;
   of a turn that does not run, Codex tells which one does. *)
AskInterrupt(t, answers) ==
  /\ answer' = [answers EXCEPT !["interrupt"] = [is |-> "sent", id |-> proc]]
  /\ UNCHANGED <<alive, threads, spoken, raced>>
  /\ IF ~ Served THEN UNCHANGED <<run, waiting, out>>
     ELSE IF run[proc] = t
     THEN LET yes  == Line("interrupt", "ok", None)
              over == Line("thread", "interrupted", t)
          IN  /\ Say(proc, <<yes, over>>) \/ Say(proc, <<over, yes>>)
              /\ TurnOver(proc)
     ELSE /\ Say(proc, <<IF run[proc] = None
                         THEN Line("interrupt", "refused", None)
                         ELSE Line("interrupt", "mismatch", run[proc])>>)
          /\ UNCHANGED <<run, waiting>>

(* A turn puts something out; what one of a process that was told to stop does
   is left out, but not what it has put out already. *)
Speak(p) ==
  /\ alive[p] = "up" /\ run[p] # None
  /\ run[p] \notin spoken
  /\ Quiet
  /\ spoken' = spoken \cup {run[p]}
  /\ Say(p, <<Line("thread", "output", run[p])>>)
  /\ UNCHANGED <<callVars, turnVars, threadVars, proc, attach, answer, eventVars, alive, run,
                 waiting, threads, seenVars, upsets>>

(* It ends by itself; that it failed makes no difference here. *)
Finish(p) ==
  /\ alive[p] = "up" /\ run[p] # None
  /\ Quiet
  /\ TurnOver(p)
  /\ Say(p, <<Line("thread", "completed", run[p])>>)
  /\ UNCHANGED <<callVars, turnVars, threadVars, proc, attach, answer, eventVars, alive, threads,
                 spoken, seenVars, upsets>>

(* Codex goes on with a goal between two turns. *)
GoalTurn(p) ==
  /\ alive[p] = "up" /\ p = proc /\ attached
  /\ run[p] = None
  /\ ~ raced
  /\ Quiet
  /\ Upset
  /\ raced' = TRUE
  /\ run' = [run EXCEPT ![p] = Goal]
  /\ UNCHANGED <<callVars, turnVars, threadVars, proc, attach, answer, eventVars, alive, waiting,
                 out, threads, spoken, ends, ran, heard, stopped, noticed, overlap, down>>

------------------------------------------------------------------------------
(* The process and its thread.                                              *)

(* ensureThreadAttached: the caller joins the attach that is going on, or
   starts one; without a process one has to be launched first. *)
EnsureAttached ==
  attach' = IF attached \/ attach # "idle" THEN attach
            ELSE IF proc # None THEN "spawned" ELSE "launch"

(* What joined goes on, or fails, with it. *)
AttachEnds(ok) ==
  /\ attach' = "idle"
  /\ attached' = ok
  /\ pc' = IF pc # "attach" THEN pc ELSE IF ok THEN "send" ELSE "fail"
  /\ control' = IF control # "attach" THEN control ELSE IF ok THEN "send" ELSE "idle"

(* The overrides are built, or could not be: the process is spawned either
   way, and asked to initialize. *)
Launch(w) ==
  /\ \/ w = "attach" /\ attach = "launch" /\ attach' = "init" /\ UNCHANGED warm
     \/ w = "warm" /\ warm = "launch" /\ warm' = "init" /\ UNCHANGED attach
  /\ Quiet
  /\ \E p \in Procs : alive[p] = "none"
  /\ LET p == CHOOSE p \in Procs : alive[p] = "none"
     IN  /\ proc' = p
         /\ alive' = [alive EXCEPT ![p] = "up"]
         /\ run' = [run EXCEPT ![p] = None]
         /\ waiting' = [waiting EXCEPT ![p] = <<>>]
         /\ out' = [out EXCEPT ![p] = <<Line(w, "ok", None)>>]
         /\ answer' = [answer EXCEPT ![w] = [is |-> "sent", id |-> p]]
  /\ UNCHANGED <<held, control, turnVars, threadVars, eventVars, threads, spoken, seenVars,
                 upsets>>

(* The identity to run it as is not configured: the spawn is refused. *)
LaunchFails(w) ==
  /\ Quiet
  /\ Upset
  /\ \/ w = "attach" /\ attach = "launch" /\ AttachEnds(FALSE) /\ UNCHANGED <<warm, held>>
     \/ /\ w = "warm" /\ warm = "launch"
        /\ warm' = "idle" /\ held' = FALSE
        /\ UNCHANGED <<attach, attached, pc, control>>
  /\ UNCHANGED <<queue, cur, threadId, proc, initialized, answer, eventVars, codexVars, seenVars>>

Taken(w) == answer' = [answer EXCEPT ![w] = Nothing]

Initialized ==
  /\ attach = "init" /\ Got("attach", "ok")
  /\ Taken("attach")
  /\ initialized' = TRUE
  /\ attach' = "spawned"
  /\ UNCHANGED <<callVars, turnVars, threadId, attached, proc, eventVars, codexVars, seenVars,
                 upsets>>

(* attachThreadOnce. *)
SendThread ==
  /\ attach = "spawned"
  /\ IF threadId = None
     THEN attach' = "start" /\ StartThread("attach")
     ELSE attach' = "resume" /\ ResumeThread
  /\ UNCHANGED <<callVars, turnVars, threadVars, proc, eventVars, ends, ran, heard, stopped,
                 noticed, overlap, down>>

ThreadReady ==
  /\ attach \in {"start", "resume"} /\ Got("attach", "ok")
  /\ Taken("attach")
  /\ threadId' = IF attach = "start" THEN answer["attach"].id ELSE threadId
  /\ AttachEnds(TRUE)
  /\ UNCHANGED <<warm, held, queue, cur, proc, initialized, eventVars, codexVars, seenVars,
                 upsets>>

(* The rollout of the old thread is gone: a new thread. *)
ThreadGone ==
  /\ attach = "resume" /\ Got("attach", "gone")
  /\ Taken("attach")
  /\ threadId' = None
  /\ attach' = "spawned"
  /\ UNCHANGED <<callVars, turnVars, initialized, attached, proc, eventVars, codexVars, seenVars,
                 upsets>>

AttachFails ==
  /\ attach # "idle" /\ (Got("attach", "refused") \/ Got("attach", "failed"))
  /\ Taken("attach")
  /\ AttachEnds(FALSE)
  /\ UNCHANGED <<warm, held, queue, cur, threadId, proc, initialized, eventVars, codexVars,
                 seenVars, upsets>>

------------------------------------------------------------------------------
(* Interrupts.                                                              *)

(* One at a time: whoever comes second waits for the first. *)
Interrupt(t, mode, answers) ==
  IF interrupting = NoInterrupt
  THEN /\ interrupting' = [NoInterrupt EXCEPT !.target = t, !.mode = mode]
       /\ AskInterrupt(t, answers)
  ELSE /\ answer' = answers
       /\ UNCHANGED <<interrupting, alive, run, waiting, out, threads, spoken, raced>>

(* A resumed thread still runs a turn: it is interrupted before the next. *)
FoundOrphan ==
  /\ attach = "resume" /\ Got("attach", "orphan")
  /\ attach' = "orphan"
  /\ Interrupt(answer["attach"].id, "orphan", [answer EXCEPT !["attach"] = Nothing])
  /\ UNCHANGED <<callVars, turnVars, threadVars, proc, active, completer, reason, items, ends,
                 ran, heard, stopped, noticed, overlap, down, upsets>>

(* The turn that runs is over, as far as the runner knows which one it is:
   with an interrupt pending, only the end of its target is; that of another
   turn is kept until the answer tells the target. *)
Closes(t, how, act) ==
  completer' = IF act \notin {None, t} \/ completer.is # "open" THEN completer
               ELSE [is |-> how, id |-> t]

TurnEnded(t, how) ==
  IF interrupting.target \notin {None, t}
  THEN /\ interrupting' = [interrupting EXCEPT !.kept = @ \cup {[id |-> t, how |-> how]}]
       /\ UNCHANGED completer
  ELSE /\ interrupting' = [interrupting EXCEPT !.over = interrupting.target = t]
       /\ Closes(t, how, active)

(* Codex has taken the interrupt: its end is awaited. *)
InterruptTaken ==
  /\ Got("interrupt", "ok")
  /\ Taken("interrupt")
  /\ UNCHANGED <<callVars, turnVars, threadVars, proc, attach, eventVars, codexVars, seenVars,
                 upsets>>

(* Another turn runs: it is the one to stop, unless its end has come already. *)
Mismatched == Got("interrupt", "mismatch") /\ ~ interrupting.again

Retarget ==
  /\ Mismatched
  /\ LET t     == answer["interrupt"].id
         acts  == IF interrupting.mode = "public" THEN t ELSE active
         early == {e \in interrupting.kept : e.id = t}
         next  == [interrupting EXCEPT !.target = t, !.again = TRUE, !.kept = @ \ early]
     IN  /\ active' = acts
         /\ IF early # {}
            THEN /\ interrupting' = [next EXCEPT !.over = TRUE]
                 /\ \E e \in early : Closes(t, e.how, acts)
                 /\ Taken("interrupt")
                 /\ UNCHANGED <<alive, run, waiting, out, threads, spoken, raced>>
            ELSE /\ interrupting' = next
                 /\ UNCHANGED completer
                 /\ AskInterrupt(t, answer)
  /\ UNCHANGED <<callVars, turnVars, threadVars, proc, attach, reason, items, ends, ran, heard,
                 stopped, noticed, overlap, down, upsets>>

InterruptEnds(ok) ==
  /\ interrupting' = NoInterrupt
  /\ IF attach = "orphan" THEN AttachEnds(ok) ELSE UNCHANGED <<attach, attached, pc, control>>
  /\ UNCHANGED <<warm, held, queue, cur, threadId, initialized, proc, active, completer, reason,
                 items, codexVars, seenVars, upsets>>

InterruptOver ==
  /\ interrupting.over /\ Got("interrupt", "none")
  /\ InterruptEnds(TRUE)
  /\ UNCHANGED answer

InterruptFails ==
  /\ Got("interrupt", "refused") \/ (Got("interrupt", "mismatch") /\ ~ Mismatched)
  /\ Taken("interrupt")
  /\ InterruptEnds(FALSE)

------------------------------------------------------------------------------
(* runTurn.                                                                 *)

(* Slip: the cause of the last turn's end is kept. *)
ForgetSlip == UNCHANGED reason
Forget == reason' = "none"

Take ==
  /\ pc = "idle" /\ queue # <<>>
  /\ cur' = Head(queue)
  /\ queue' = Tail(queue)
  /\ Forget
  /\ pc' = IF attached THEN "send" ELSE "attach"
  /\ EnsureAttached
  /\ overlap' = (overlap \/ (attach' = "launch" /\ warm = "launch"))
  /\ UNCHANGED <<callVars, threadVars, proc, answer, active, completer, interrupting, items,
                 codexVars, ends, ran, heard, stopped, noticed, raced, down, upsets>>

SendTurn ==
  /\ pc = "send"
  /\ pc' = "starting"
  /\ completer' = [is |-> "open", id |-> None]
  /\ ran' = [ran EXCEPT ![cur] = threadId]
  /\ StartTurn
  /\ UNCHANGED <<callVars, queue, cur, threadVars, proc, attach, active, interrupting, reason,
                 items, ends, heard, stopped, noticed, overlap, down>>

Started ==
  /\ pc = "starting" /\ Got("turn", "ok")
  /\ Taken("turn")
  /\ active' = answer["turn"].id
  /\ pc' = "running"
  /\ UNCHANGED <<callVars, queue, cur, threadVars, proc, attach, completer, interrupting, reason,
                 items, codexVars, seenVars, upsets>>

StartFails ==
  /\ pc = "starting" /\ (Got("turn", "refused") \/ Got("turn", "failed"))
  /\ Taken("turn")
  /\ pc' = "fail"
  /\ UNCHANGED <<callVars, queue, cur, threadVars, proc, attach, eventVars, codexVars, seenVars,
                 upsets>>

Settled ==
  /\ pc = "running" /\ completer.is # "open"
  /\ pc' = IF completer.is = "failed" THEN "fail" ELSE "close"
  /\ UNCHANGED <<callVars, queue, cur, threadVars, proc, attach, answer, eventVars, codexVars,
                 seenVars, upsets>>

(* The one closing result; the handlers of items have been awaited. *)
End(how) ==
  /\ ends' = [ends EXCEPT ![cur] = [how |-> how, by |-> completer.id]]
  /\ pc' = "idle"
  /\ completer' = Nothing
  /\ active' = None

RolloutBroken == completer.is = "interrupted" /\ reason = "rollout"

Close ==
  /\ pc = "close" /\ ~ items
  /\ ~ RolloutBroken
  /\ End(IF completer.is = "interrupted" /\ reason = "user" THEN "user" ELSE completer.is)
  /\ UNCHANGED <<callVars, queue, cur, threadVars, proc, attach, answer, interrupting, reason,
                 items, codexVars, ran, heard, stopped, noticed, raced, overlap, down, upsets>>

(* rebuildThreadAfterRolloutLoss: the dead thread is dropped first. *)
Rebuild ==
  /\ pc = "close" /\ ~ items
  /\ RolloutBroken
  /\ pc' = "rebuild"
  /\ active' = None
  /\ threadId' = None
  /\ StartThread("turn")
  /\ UNCHANGED <<callVars, queue, cur, initialized, attached, proc, attach, completer,
                 interrupting, reason, items, ends, ran, heard, stopped, noticed, overlap, down>>

Rebuilt ==
  /\ pc = "rebuild" /\ answer["turn"].is \in {"ok", "refused", "failed"}
  /\ Taken("turn")
  /\ threadId' = IF Got("turn", "ok") THEN answer["turn"].id ELSE threadId
  /\ attached' = (attached /\ Got("turn", "ok"))
  /\ End("rollout")
  /\ UNCHANGED <<callVars, queue, cur, initialized, proc, attach, interrupting, reason, items,
                 codexVars, ran, heard, stopped, noticed, raced, overlap, down, upsets>>

FailTurn ==
  /\ pc = "fail" /\ ~ items
  /\ completer' = Nothing
  /\ active' = None
  /\ ends' = [ends EXCEPT ![cur] = [how |-> "error", by |-> None]]
  /\ pc' = "idle"
  /\ UNCHANGED <<callVars, queue, cur, threadVars, proc, attach, answer, interrupting, reason,
                 items, codexVars, ran, heard, stopped, noticed, raced, overlap, down, upsets>>

------------------------------------------------------------------------------
(* Lines.                                                                   *)

(* Slip: a line is read from whichever process it comes. *)
ReadsSlip(p) == TRUE
Reads(p) == proc = p

First(p) == Head(out[p])

Read(p) ==
  /\ out[p] # <<>>
  /\ out' = [out EXCEPT ![p] = Tail(@)]
  /\ UNCHANGED <<alive, run, waiting, threads, spoken, raced, upsets>>

(* What an old process still had to say. *)
Ignore(p) ==
  /\ ~ Reads(p) /\ Read(p)
  /\ UNCHANGED <<callVars, turnVars, threadVars, proc, attach, answer, eventVars, ends, ran,
                 heard, stopped, noticed, overlap, down>>

Answered(p) ==
  /\ Reads(p) /\ Read(p)
  /\ First(p).to \in Waiters
  /\ answer' = IF ~ Got(First(p).to, "sent") THEN answer
               ELSE [answer EXCEPT ![First(p).to] = [is |-> First(p).is, id |-> First(p).id]]
  /\ UNCHANGED <<callVars, turnVars, threadVars, proc, attach, eventVars, ends, ran, heard,
                 stopped, noticed, overlap, down>>

(* The output of a turn: of the active one, or of the first that is heard of
   while turn/start is not answered. *)
Output(p) ==
  /\ Reads(p) /\ Read(p)
  /\ First(p).is = "output"
  /\ IF active = First(p).id \/ (active = None /\ completer.is = "open")
     THEN /\ active' = First(p).id
          /\ heard' = heard \cup {<<cur, First(p).id>>}
          /\ items' \in {items, TRUE}
     ELSE UNCHANGED <<active, heard, items>>
  /\ UNCHANGED <<callVars, turnVars, threadVars, proc, attach, answer, completer, interrupting,
                 reason, ends, ran, stopped, noticed, overlap, down>>

Ended(p) ==
  /\ Reads(p) /\ Read(p)
  /\ First(p).to = "thread" /\ First(p).is # "output"
  /\ TurnEnded(First(p).id, First(p).is)
  /\ UNCHANGED <<callVars, turnVars, threadVars, proc, attach, answer, active, reason, items,
                 ends, ran, heard, stopped, noticed, overlap, down>>

------------------------------------------------------------------------------
(* Calls and events.                                                        *)

ItemsDone ==
  /\ items /\ items' = FALSE
  /\ Quiet
  /\ UNCHANGED <<callVars, turnVars, threadVars, proc, attach, answer, active, completer,
                 interrupting, reason, codexVars, seenVars, upsets>>

(* A warm-up has the session's lock: no turn of it begins meanwhile. *)
Submit(s) ==
  /\ ~ held
  /\ ends[s].how = "none"
  /\ \A t \in Prompts : t < s => ends[t].how # "none"
  /\ Quiet
  /\ ends' = [ends EXCEPT ![s].how = "open"]
  /\ queue' = Append(queue, s)
  /\ down' = FALSE
  /\ UNCHANGED <<callVars, cur, pc, threadVars, proc, attach, answer, eventVars, codexVars, ran,
                 heard, stopped, noticed, raced, overlap, upsets>>

Warmup ==
  /\ Upset
  /\ pc = "idle" /\ proc = None /\ warm = "idle" /\ ~ held
  /\ Quiet
  /\ warm' = "launch"
  /\ held' = TRUE
  /\ overlap' = (overlap \/ attach = "launch")
  /\ down' = FALSE
  /\ UNCHANGED <<control, turnVars, threadVars, proc, attach, answer, eventVars, codexVars, ends,
                 ran, heard, stopped, noticed, raced>>

WarmedUp ==
  /\ warm = "init" /\ answer["warm"].is \in {"ok", "failed"}
  /\ Taken("warm")
  /\ initialized' = (initialized \/ Got("warm", "ok"))
  /\ warm' = "idle" /\ held' = FALSE
  /\ UNCHANGED <<control, turnVars, threadId, attached, proc, attach, eventVars, codexVars,
                 seenVars, upsets>>

(* getGoal, setGoal, clearGoal: they do not take the session's lock. *)
Control ==
  /\ Upset
  /\ control = "idle"
  /\ Quiet
  /\ control' = IF attached THEN "send" ELSE "attach"
  /\ EnsureAttached
  /\ overlap' = (overlap \/ (attach' = "launch" /\ warm = "launch"))
  /\ down' = FALSE
  /\ UNCHANGED <<warm, held, turnVars, threadVars, proc, answer, eventVars, codexVars, ends, ran,
                 heard, stopped, noticed, raced>>

SendControl ==
  /\ control = "send"
  /\ control' = "sent"
  /\ Send("control")
  /\ out' = IF Served THEN [out EXCEPT ![proc] = Append(@, Line("control", "ok", None))] ELSE out
  /\ UNCHANGED <<warm, held, turnVars, threadVars, proc, attach, eventVars, alive, run, waiting,
                 threads, spoken, seenVars, upsets>>

Controlled ==
  /\ control = "sent" /\ ~ Got("control", "sent")
  /\ Taken("control")
  /\ control' = "idle"
  /\ UNCHANGED <<warm, held, turnVars, threadVars, proc, attach, eventVars, codexVars, seenVars,
                 upsets>>

(* interrupt(): the first cause is kept. *)
Stop(source) ==
  /\ Upset
  /\ proc # None /\ threadId # None /\ active # None
  /\ Quiet
  /\ reason' = IF reason = "none" THEN source ELSE reason
  /\ stopped' = IF source = "user" THEN stopped \cup {cur} ELSE stopped
  /\ Interrupt(active, "public", answer)
  /\ UNCHANGED <<callVars, turnVars, threadVars, proc, attach, active, completer, items, ends,
                 ran, heard, noticed, overlap, down>>

(* Codex complains on stderr that the rollout cannot be recorded. *)
RolloutMissed ==
  /\ Upset
  /\ proc # None /\ active # None /\ reason = "none"
  /\ Quiet
  /\ reason' = "rollout"
  /\ noticed' = noticed \cup {cur}
  /\ Interrupt(active, "public", answer)
  /\ UNCHANGED <<callVars, turnVars, threadVars, proc, attach, active, completer, items, ends,
                 ran, heard, stopped, overlap, down>>

(* Slip: only the turn is told, not who waits for an answer. *)
FailedSlip(w) == answer[w]
Failed(w) == IF Got(w, "sent") THEN Failure ELSE answer[w]

(* Without the process whoever waits for it is told. *)
LoseProcess ==
  /\ proc' = None
  /\ initialized' = FALSE /\ attached' = FALSE
  /\ answer' = [w \in Waiters |->
                  IF w = "interrupt" THEN Nothing
                  ELSE IF w = "attach" /\ attach = "orphan" THEN Failure
                  ELSE Failed(w)]
  /\ completer' = IF completer.is = "open" THEN Failure ELSE completer
  /\ interrupting' = NoInterrupt
  /\ active' = None
  /\ UNCHANGED <<threadId, reason, items>>

ShutDown ==
  /\ Upset
  /\ Quiet
  /\ LoseProcess
  /\ alive' = IF proc = None THEN alive ELSE [alive EXCEPT ![proc] = "told"]
  /\ queue' = <<>>
  /\ ends' = [s \in Prompts |-> IF \E i \in DOMAIN queue : queue[i] = s
                                THEN [how |-> "dropped", by |-> None] ELSE ends[s]]
  /\ down' = (attach # "launch" /\ warm # "launch")
  /\ UNCHANGED <<warm, control, cur, pc, attach, run, waiting, out, threads, spoken, ran, heard,
                 stopped, noticed, raced, overlap>>

(* A warm-up that takes too long shuts the runner down. *)
WarmTimeout == held /\ held' = FALSE /\ ShutDown

Shutdown == ShutDown /\ UNCHANGED held

(* A process ends: what it had put out may be cut short. *)
Die(p) ==
  /\ \/ alive[p] = "up" /\ Upset
     \/ alive[p] = "told" /\ UNCHANGED upsets
  /\ Quiet
  /\ alive' = [alive EXCEPT ![p] = "dead"]
  /\ run' = [run EXCEPT ![p] = None]
  /\ waiting' = [waiting EXCEPT ![p] = <<>>]
  /\ \E n \in 0..Len(out[p]) : out' = [out EXCEPT ![p] = SubSeq(@, 1, n)]
  /\ UNCHANGED <<callVars, turnVars, threadVars, proc, attach, answer, eventVars, threads, spoken,
                 seenVars>>

(* The close event; that of an old process does nothing. *)
Closed(p) ==
  /\ alive[p] = "dead" /\ out[p] = <<>>
  /\ Quiet
  /\ alive' = [alive EXCEPT ![p] = "none"]
  /\ IF proc = p THEN LoseProcess ELSE UNCHANGED <<threadVars, proc, answer, eventVars>>
  /\ UNCHANGED <<callVars, turnVars, attach, run, waiting, out, threads, spoken, seenVars, upsets>>

ReadStep(p) == Ignore(p) \/ Answered(p) \/ Output(p) \/ Ended(p)

Continuation ==
  \/ Initialized \/ SendThread \/ ThreadReady \/ ThreadGone \/ AttachFails
  \/ FoundOrphan \/ InterruptTaken \/ Retarget \/ InterruptOver \/ InterruptFails
  \/ Take \/ SendTurn \/ Started \/ StartFails \/ Settled \/ Close \/ Rebuild \/ Rebuilt
  \/ FailTurn \/ WarmedUp \/ SendControl \/ Controlled

Event ==
  \/ \E s \in Prompts : Submit(s)
  \/ \E w \in {"attach", "warm"} : Launch(w) \/ LaunchFails(w)
  \/ Warmup \/ WarmTimeout \/ Control \/ RolloutMissed \/ Shutdown \/ ItemsDone
  \/ \E source \in {"user", "system"} : Stop(source)
  \/ \E p \in Procs : Speak(p) \/ Finish(p) \/ GoalTurn(p) \/ Die(p) \/ Closed(p)

Next ==
  \/ \E p \in Procs : ReadStep(p)
  \/ Continuation
  \/ Event

Spec == Init /\ [][Next]_vars

------------------------------------------------------------------------------
(* Properties.                                                              *)

(* What a prompt gets is that of its own turn, and its own turn ends it: not
   an old process, a turn that was given up, or the turn that a resumed thread
   still ran.  Only a goal's turn that Codex begins between two turns can be
   taken for it. *)
OwnTurn ==
  ~ raced =>
    /\ \A h \in heard : h[1] = h[2]
    /\ \A s \in Prompts : ends[s].by \in {s, None}

(* A prompt is told the cause that ended it: a Stop is the user's of this very
   prompt, a lost history was reported while it ran, and the thread whose
   history was lost is never used again. *)
EndsForItsCause ==
  \A s \in Prompts :
    /\ ends[s].how = "user" => s \in stopped
    /\ ends[s].how = "rollout" =>
         /\ s \in noticed
         /\ \A t \in Prompts : t > s /\ ran[t] # None => ran[t] # ran[s]

(* Whoever waits, waits for the current process, which answers or is reported
   to have ended; no other runs unless it was told to stop; and a runner that
   was shut down has none until it is asked for something.  Known exceptions:
   two launches at once; the rebuild of a thread whose process has gone while
   the last items were handled; and a shutdown during a launch, which does not
   keep it from spawning, so that down is not set then. *)
OneProcess ==
  /\ ~ overlap =>
       /\ \A w \in Waiters :
            Got(w, "sent") => \/ proc # None /\ answer[w].id = proc
                              \/ w = "turn" /\ pc = "rebuild" /\ answer[w].id = None
       /\ completer.is = "open" \/ interrupting # NoInterrupt => proc # None
       /\ attach = "orphan" /\ Quiet => interrupting # NoInterrupt
       /\ \A p \in Procs : alive[p] = "up" => p = proc
  /\ down => proc = None /\ queue = <<>>

================================================================================
