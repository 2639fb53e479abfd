---------------------------- MODULE TurnQueue_proofs ----------------------------
(* What the run of TurnQueue shows for two messages and three processes, for  *)
(* any number of submits, processes, retries, background tasks, changes of    *)
(* the model, crashes and processes that outlive their SIGKILL.               *)
EXTENDS TurnQueue, FiniteSetTheorems, TLAPS

--------------------------------------------------------------------------------
(* The inductive invariant. *)

Engaged(s) == turn[s] \notin {"none", "over"}

(* Submits take the lock in the order of their calls. *)
Lined == \A s, t \in Submits : s < t /\ pc[t] \notin {"new", "waiting"} => pc[s] = "back"

(* Whoever has lost his turn, or his patience with it, has been told. *)
Informed ==
  \A s \in Submits :
    /\ turn[s] = "over" \/ s \in muted => ends[s] >= 1
    /\ pc[s] \in {"reset", "drain"} => s \in muted
    /\ pc[s] \in {"new", "waiting", "gate", "recycle"} => turn[s] = "none"
    /\ pc[s] = "back" /\ turn[s] # "none" => ends[s] >= 1
    /\ starting = s \/ s \in flush => turn[s] # "none"

(* An answer is counted for each turn that is over, or for a task. *)
Over == {s \in Submits : turn[s] = "over"}
Counted ==
  /\ watch => watchId \in TurnIds
  /\ turns + (IF watch THEN 1 ELSE 0) <= Cardinality(Over) + launches

(* As long as nothing outlasts its timer: a turn goes on only under the lock of
   its submit and has the pump; one whose client was told is not tried again. *)
Seated ==
  \A s \in Submits :
    /\ Engaged(s) => pc[s] \in {"turn", "reset", "drain"} /\ handler \in {s, None}
    /\ pc[s] \in {"reset", "drain"} \/ s \in muted => turn[s] \in {"live", "over"}
    /\ pc[s] = "turn" => s \notin muted
    /\ starting = s <=> turn[s] = "start"
    /\ s \in flush => turn[s] = "live"
    /\ ends[s] <= 1
    /\ turn[s] # "over" /\ s \notin muted => ends[s] = 0

(* The only process that runs is the runner's own. *)
OneMachine ==
  /\ \A p \in Procs : up[p] # "late" /\ (up[p] \in {"up", "stopping"} <=> p = proc)
  /\ starting # None \/ flush # {} => proc = None

(* Whoever waits for a process to stop, waits for that of his turn; after the
   wait the turn is over, or its deferred end is due. *)
Stopping ==
  \A s \in Submits :
    /\ turn[s] = "live" => s \in flush \/ proc # None
    /\ pc[s] = "reset" /\ turn[s] = "live" /\ s \notin flush =>
         proc # None /\ waits[s] = proc /\ up[proc] = "stopping"
    /\ pc[s] = "drain" => turn[s] = "over" \/ s \in flush
    /\ pc[s] = "recycle" =>
         waits[s] # None /\ (proc # None => proc = waits[s] /\ up[proc] = "stopping")

(* At most one prompt is to be answered: that of the turn that goes on. *)
Asked ==
  /\ \A p \in Procs : prompts[p] # <<>> =>
       /\ up[p] # "none"
       /\ \E s \in Submits : prompts[p] = <<s>> /\ turn[s] = "live"
  /\ \A p, q \in Procs : prompts[p] # <<>> /\ prompts[q] # <<>> => p = q

(* A background task is that of the runner's process; its report has a watch, or
   the process is being stopped; no turn goes on meanwhile. *)
Tasks ==
  \A p \in Procs : task[p] =>
    /\ p = proc /\ (watch \/ up[p] = "stopping")
    /\ \A s \in Submits : ~ Engaged(s)

(* The watch has the next id, and no turn goes on beside it. *)
Watching ==
  watch =>
    /\ watchId = turns + 1
    /\ \A s \in Submits : ~ Engaged(s) /\ pc[s] # "recycle"

(* Whole answers have ids that were counted. *)
Numbered == \A n \in TurnIds : rows[n] = "whole" => n <= turns

Own == \A s \in Submits : answered[s] \in {s, None}
Kept == \A n \in lost : rows[n] = "partial"

Lasting == Lined /\ Informed /\ Counted
Clean == /\ Seated /\ OneMachine /\ Stopping /\ Asked /\ Tasks /\ Watching
         /\ Numbered /\ Own /\ Kept

IInv == TypeOK /\ Lasting /\ (~ outlasted => Clean)

--------------------------------------------------------------------------------
(* Names and types. *)

PCs     == {"new", "waiting", "gate", "recycle", "turn", "reset", "drain", "back"}
States  == {"none", "start", "live", "refresh", "restart", "over"}
Ups     == {"none", "up", "stopping", "late", "out"}

(* The names are distinct, and none is a submit or a process. *)
LEMMA Names ==
  /\ Watch # None /\ Task # None /\ Watch # Task
  /\ {Watch, Task, None} \cap (Submits \cup Procs) = {}
  /\ Submits \subseteq Nat /\ Owner \notin Submits
<1>1. MaxSubmits \in Nat
  BY BoundAssumption
<1>2. Submits \subseteq Nat /\ Owner \notin Submits
  BY <1>1 DEF Submits, Owner
<1>3. ASSUME NEW x, NEW y PROVE IsFiniteSet({x, y}) /\ Cardinality({x, y}) \in {1, 2}
  <2>1. IsFiniteSet({x}) /\ Cardinality({x}) = 1
    BY FS_Singleton
  <2>2. {x, y} = {x} \cup {y}
    OBVIOUS
  <2>3. /\ IsFiniteSet({x} \cup {y})
        /\ Cardinality({x} \cup {y}) = IF y \in {x} THEN Cardinality({x}) ELSE Cardinality({x}) + 1
    BY <2>1, FS_AddElement
  <2>4. QED
    BY <2>1, <2>2, <2>3
<1>4. Watch # None /\ Task # None /\ Watch # Task
  <2>1. Watch = Task => {Watch, Task, None} = {Task, None}
    OBVIOUS
  <2>2. Watch = None \/ Task = None => {Watch, Task, None} = {Watch, Task}
    OBVIOUS
  <2>3. QED
    BY <1>3, <2>1, <2>2, NameAssumption
<1>5. QED
  BY <1>2, <1>4, NameAssumption

(* The types of the variables, by name. *)
LEMMA Types ==
  ASSUME TypeOK
  PROVE  /\ pump \in BOOLEAN /\ watch \in BOOLEAN /\ handler \in Submits \cup {Watch, None}
         /\ watchId \in TurnIds \cup {None} /\ turns \in Nat
         /\ pc \in [Submits -> PCs] /\ turn \in [Submits -> States]
         /\ tries \in [Submits -> 0..MaxTries]
         /\ muted \subseteq Submits /\ flush \subseteq Submits
         /\ proc \in Procs \cup {None} /\ up \in [Procs -> Ups]
         /\ prompts \in [Procs -> Seq(Submits)] /\ task \in [Procs -> BOOLEAN]
         /\ starting \in Submits \cup {None}
         /\ waits \in [Submits \cup {Owner} -> Procs \cup {None}]
         /\ ends \in [Submits -> Nat]
         /\ answered \in [Submits -> Submits \cup {Task, None}]
         /\ rows \in [TurnIds -> {"none", "partial", "whole"}] /\ lost \subseteq TurnIds
BY DEF TypeOK, PCs, States, Ups

(* One submit at a time is between taking and releasing the lock, *)
LEMMA Alone ==
  ASSUME Lined, NEW s \in Submits, NEW t \in Submits,
         pc[s] \notin {"new", "waiting", "back"}, pc[t] \notin {"new", "waiting", "back"}
  PROVE  s = t
<1>1. s \in Nat /\ t \in Nat
  BY Names
<1>2. ~ (s < t) /\ ~ (t < s)
  BY DEF Lined
<1>3. QED
  BY <1>1, <1>2

(* and one turn goes on, if nothing outlasts its timer. *)
LEMMA OneEngaged ==
  ASSUME Lined, Seated, NEW s \in Submits, NEW t \in Submits, Engaged(s), Engaged(t)
  PROVE  s = t
<1>1. pc[s] \notin {"new", "waiting", "back"} /\ pc[t] \notin {"new", "waiting", "back"}
  BY DEF Seated
<1>2. QED
  BY <1>1, Alone

(* A submit at the gate, in a recycle or about to try again has nothing out: no
   prompt, no start, no exit to be dealt with, and no other turn goes on. *)
LEMMA Unasked ==
  ASSUME TypeOK, Lined, Clean, NEW s \in Submits, turn[s] # "live",
         \A t \in Submits : Engaged(t) => t = s
  PROVE  /\ \A p \in Procs : prompts[p] = <<>>
         /\ flush = {}
         /\ turn[s] # "start" => starting = None
<1>1. \A t \in Submits : turn[t] # "live"
  BY DEF Engaged
<1>2. \A p \in Procs : prompts[p] = <<>>
  BY <1>1 DEF Clean, Asked
<1>3. flush = {}
  BY <1>1, Types DEF Clean, Seated
<1>4. ASSUME turn[s] # "start" PROVE starting = None
  <2>1. \A t \in Submits : turn[t] # "start"
    BY <1>4 DEF Engaged
  <2>2. QED
    BY <2>1, Types DEF Clean, Seated
<1>5. QED
  BY <1>2, <1>3, <1>4

(* A result is the only one that is due: that of the turn that goes on, or of a
   background task when none does. *)
LEMMA Emitted ==
  ASSUME TypeOK, Lined, Clean, NEW p \in Procs, NEW q \in Submits \cup {Task},
         NEW launch \in BOOLEAN, Emit(p, q, launch)
  PROVE  /\ launch => p = proc /\ launches < MaxTasks /\ launches' = launches + 1
         /\ ~ launch => launches' = launches
         /\ \A r \in Procs : task'[r] => r = p /\ launch
         /\ \A r \in Procs : prompts'[r] = <<>>
         /\ \/ q \in Submits /\ turn[q] = "live"
            \/ q = Task /\ \A s \in Submits : ~ Engaged(s)
<1>1. prompts \in [Procs -> Seq(Submits)] /\ task \in [Procs -> BOOLEAN]
  BY Types
<1>2. launch => p = proc /\ launches < MaxTasks /\ launches' = launches + 1
  BY DEF Emit, Clean, OneMachine
<1>3. ~ launch => launches' = launches
  BY DEF Emit
<1>4. CASE /\ prompts[p] # <<>>
           /\ q = Head(prompts[p])
           /\ prompts' = [prompts EXCEPT ![p] = Tail(@)]
           /\ task' = [task EXCEPT ![p] = @ \/ launch]
  <2>1. PICK s \in Submits : prompts[p] = <<s>> /\ turn[s] = "live"
    BY <1>4 DEF Clean, Asked
  <2>2. q = s /\ Tail(prompts[p]) = <<>>
    BY <1>4, <2>1
  <2>3. \A r \in Procs : r # p => prompts[r] = <<>>
    BY <1>4 DEF Clean, Asked
  <2>4. \A r \in Procs : prompts'[r] = <<>>
    BY <1>1, <1>4, <2>2, <2>3
  <2>5. \A r \in Procs : ~ task[r]
    BY <2>1 DEF Clean, Tasks, Engaged
  <2>6. \A r \in Procs : task'[r] => r = p /\ launch
    BY <1>1, <1>4, <2>5
  <2>7. QED
    BY <1>2, <1>3, <2>1, <2>2, <2>4, <2>6
<1>5. CASE /\ task[p]
           /\ q = Task
           /\ task' = [task EXCEPT ![p] = launch]
           /\ UNCHANGED prompts
  <2>1. \A s \in Submits : ~ Engaged(s)
    BY <1>5 DEF Clean, Tasks
  <2>2. \A r \in Procs : prompts[r] = <<>>
    BY <2>1 DEF Clean, Asked, Engaged
  <2>3. \A r \in Procs : task[r] => r = p
    BY <1>5 DEF Clean, Tasks
  <2>4. \A r \in Procs : task'[r] => r = p /\ launch
    BY <1>1, <1>5, <2>3
  <2>5. QED
    BY <1>2, <1>3, <1>5, <2>1, <2>2, <2>4
<1>6. QED
  BY <1>4, <1>5 DEF Emit

(* shutdown() closes the current process, and only that. *)
LEMMA Stops ==
  ASSUME TypeOK, NEW w \in Submits \cup {Owner}, Stop(w)
  PROVE  /\ up' \in [Procs -> Ups] /\ waits' \in [Submits \cup {Owner} -> Procs \cup {None}]
         /\ \A p \in Procs : up'[p] = IF p = proc THEN "stopping" ELSE up[p]
         /\ \A v \in Submits \cup {Owner} : waits'[v] = IF v = w THEN proc ELSE waits[v]
<1>1. /\ up \in [Procs -> Ups] /\ proc \in Procs \cup {None} /\ None \notin Procs
      /\ waits \in [Submits \cup {Owner} -> Procs \cup {None}]
  BY Types, Names
<1>2. CASE proc = None
  BY <1>1, <1>2 DEF Stop
<1>3. CASE proc # None
  BY <1>1, <1>3 DEF Stop, Ups
<1>4. QED
  BY <1>2, <1>3

(* The event gate lets through what it has not suppressed. *)
LEMMA Tell ==
  ASSUME TypeOK, NEW s \in Submits, ends' = Told(s)
  PROVE  /\ ends' \in [Submits -> Nat]
         /\ \A t \in Submits : t # s => ends'[t] = ends[t]
         /\ ends'[s] = IF s \in muted THEN ends[s] ELSE ends[s] + 1
BY Types DEF Told

--------------------------------------------------------------------------------
(* What a step of a submit or of its turn keeps. *)

(* A turn that runs, for the first time or again, is the only one, and its prompt
   the only one of a process that has nothing else to do. *)
LEMMA Ran ==
  ASSUME TypeOK, Lined, Clean, NEW s \in Submits, RunTurn(s),
         turn[s] \in {"none", "restart"}, \A t \in Submits : Engaged(t) => t = s,
         s \notin muted, ~ watch, \A p \in Procs : task[p] => up[p] = "stopping",
         pc' = [pc EXCEPT ![s] = "turn"], \A t \in Submits : t # s => waits'[t] = waits[t],
         UNCHANGED <<watch, turns, muted, flush, proc, up, task, answered, rows, lost>>
  PROVE  Clean'
<1>1. /\ pc \in [Submits -> PCs] /\ turn \in [Submits -> States] /\ None \notin Procs
      /\ prompts \in [Procs -> Seq(Submits)] /\ ends \in [Submits -> Nat]
      /\ flush \subseteq Submits /\ proc \in Procs \cup {None} /\ s # None
  BY Types, Names
<1>2. (\A p \in Procs : prompts[p] = <<>>) /\ flush = {} /\ starting = None
  BY Unasked
<1>3. pc'[s] = "turn" /\ \A t \in Submits : t # s => pc'[t] = pc[t]
  BY <1>1
<1>4. handler' = s
  BY DEF RunTurn
<1>5. ends[s] = 0
  BY DEF Clean, Seated
<1>6. /\ turn'[s] \in {"start", "live", "over"} /\ \A t \in Submits : t # s => turn'[t] = turn[t]
      /\ turn'[s] = "start" => starting' = s /\ proc = None
      /\ turn'[s] # "start" => starting' = None
      /\ turn'[s] = "live" => proc \in Procs /\ up[proc] = "up"
      /\ \A p \in Procs : prompts'[p] = IF turn'[s] = "live" /\ p = proc THEN <<s>> ELSE <<>>
      /\ ends'[s] = IF turn'[s] = "over" THEN 1 ELSE 0
      /\ \A t \in Submits : t # s => ends'[t] = ends[t]
  <2>1. CASE /\ proc = None /\ starting = None
             /\ turn' = [turn EXCEPT ![s] = "start"] /\ starting' = s /\ UNCHANGED <<prompts, ends>>
    BY <1>1, <1>2, <1>5, <2>1
  <2>2. CASE /\ proc # None /\ up[proc] = "up"
             /\ turn' = [turn EXCEPT ![s] = "live"]
             /\ prompts' = [prompts EXCEPT ![proc] = Append(@, s)]
             /\ UNCHANGED <<starting, ends>>
    <3>0. proc \in Procs /\ prompts[proc] = <<>> /\ Append(<<>>, s) = <<s>>
      BY <1>1, <1>2, <2>2
    <3>1. proc \in Procs /\ Append(prompts[proc], s) = <<s>>
      BY <3>0
    <3>2. \A p \in Procs : prompts'[p] = IF p = proc THEN <<s>> ELSE <<>>
      BY <1>1, <1>2, <2>2, <3>1
    <3>3. QED
      BY <1>1, <1>2, <1>5, <2>2, <3>1, <3>2
  <2>3. CASE /\ turn' = [turn EXCEPT ![s] = "over"] /\ ends' = Told(s)
             /\ UNCHANGED <<starting, prompts>>
    <3>1. ends'[s] = 1 /\ \A t \in Submits : t # s => ends'[t] = ends[t]
      BY <1>5, <2>3, Tell
    <3>2. QED
      BY <1>1, <1>2, <2>3, <3>1
  <2>4. QED
    BY <2>1, <2>2, <2>3 DEF RunTurn
<1>7. \A t \in Submits : Engaged(t)' => t = s
  BY <1>6 DEF Engaged
<1>8. Seated'
  <2>1. \A t \in Submits : starting' = t <=> turn'[t] = "start"
    BY <1>6, <1>7, Names DEF Engaged
  <2>2. QED
    BY <1>2, <1>3, <1>4, <1>5, <1>6, <1>7, <2>1 DEF Clean, Seated
<1>9. OneMachine'
  BY <1>1, <1>2, <1>6 DEF Clean, OneMachine
<1>10. Stopping'
  BY <1>1, <1>2, <1>3, <1>6 DEF Clean, Stopping
<1>11. Asked'
  <2>1. \A p \in Procs : prompts'[p] # <<>> =>
           p = proc /\ prompts'[p] = <<s>> /\ turn'[s] = "live" /\ up'[p] # "none"
    BY <1>6
  <2>2. QED
    BY <2>1 DEF Asked
<1>12. Tasks'
  <2>1. ASSUME NEW p \in Procs, task[p]
        PROVE  p = proc /\ up[p] = "stopping" /\ turn'[s] = "over"
    BY <1>1, <1>6, <2>1 DEF Clean, Tasks
  <2>2. QED
    BY <1>7, <2>1 DEF Tasks, Engaged
<1>13. Watching' /\ Numbered' /\ Own' /\ Kept'
  BY DEF Clean, Watching, Numbered, Own, Kept
<1>14. QED
  BY <1>8, <1>9, <1>10, <1>11, <1>12, <1>13 DEF Clean

(* A message begins when nothing of an earlier one, and no background task, can
   still be heard. *)
LEMMA BeginClean ==
  ASSUME TypeOK, Lasting, Clean, NEW s \in Submits, Begin(s)
  PROVE  Clean'
<1>1. /\ waits \in [Submits \cup {Owner} -> Procs \cup {None}] /\ None \notin Procs
      /\ proc \in Procs \cup {None}
  BY Types, Names
<1>2. /\ pc[s] \in {"gate", "recycle"} /\ RunTurn(s) /\ pc' = [pc EXCEPT ![s] = "turn"]
      /\ UNCHANGED <<watch, turns, muted, flush, proc, up, task, answered, rows, lost>>
  BY DEF Begin
<1>3. turn[s] = "none"
  BY <1>2 DEF Lasting, Informed
<1>4. ASSUME NEW t \in Submits, Engaged(t) PROVE t = s
  <2>1. pc[t] \notin {"new", "waiting", "back"}
    BY <1>4 DEF Clean, Seated
  <2>2. QED
    BY <1>2, <2>1, Alone DEF Lasting
<1>5. s \notin muted
  BY <1>3 DEF Clean, Seated
<1>6. ~ watch
  BY <1>2 DEF Begin, WatchDone, Clean, Watching
<1>7. \A t \in Submits : t # s => waits'[t] = waits[t]
  BY <1>1 DEF Begin, StopReturns
<1>8. ASSUME NEW p \in Procs, task[p] PROVE up[p] = "stopping"
  BY <1>6, <1>8 DEF Clean, Tasks
<1>9. QED
  BY <1>2, <1>3, <1>4, <1>5, <1>6, <1>7, <1>8, Ran DEF Lasting

(* So does a turn that is tried again. *)
LEMMA RetryClean ==
  ASSUME TypeOK, Lasting, Clean, NEW s \in Submits, Retry(s)
  PROVE  Clean'
<1>1. waits \in [Submits \cup {Owner} -> Procs \cup {None}] /\ pc \in [Submits -> PCs]
  BY Types
<1>2. /\ turn[s] = "restart" /\ RunTurn(s)
      /\ UNCHANGED <<pc, watch, turns, muted, flush, proc, up, task, answered, rows, lost>>
  BY DEF Retry
<1>3. Engaged(s)
  BY <1>2 DEF Engaged
<1>4. pc[s] = "turn" /\ s \notin muted
  BY <1>2, <1>3 DEF Clean, Seated
<1>5. \A t \in Submits : Engaged(t) => t = s
  BY <1>3, OneEngaged DEF Lasting, Clean
<1>6. ~ watch /\ \A p \in Procs : ~ task[p]
  BY <1>3 DEF Clean, Watching, Tasks
<1>7. \A t \in Submits : t # s => waits'[t] = waits[t]
  BY <1>1 DEF Retry, StopReturns
<1>8. pc' = [pc EXCEPT ![s] = "turn"]
  BY <1>1, <1>2, <1>4
<1>9. QED
  BY <1>2, <1>4, <1>5, <1>6, <1>7, <1>8, Ran DEF Lasting

(* A submit whose turn does not go on waits, comes to the gate or returns. *)
LEMMA Moved ==
  ASSUME TypeOK, Clean, NEW s \in Submits, NEW x \in {"waiting", "gate", "back"},
         pc' = [pc EXCEPT ![s] = x], ~ Engaged(s),
         UNCHANGED <<handler, watch, watchId, turns, turn, muted, flush, proc, up, prompts, task,
                     starting, waits, ends, answered, rows, lost>>
  PROVE  Clean'
<1>1. pc'[s] = x /\ \A t \in Submits : t # s => pc'[t] = pc[t]
  BY Types
<1>2. Seated'
  BY <1>1 DEF Clean, Seated, Engaged
<1>3. Stopping'
  BY <1>1 DEF Clean, Stopping
<1>4. Watching'
  BY <1>1 DEF Clean, Watching, Engaged
<1>5. OneMachine' /\ Asked' /\ Tasks' /\ Numbered' /\ Own' /\ Kept'
  BY DEF Clean, OneMachine, Asked, Tasks, Engaged, Numbered, Own, Kept
<1>6. QED
  BY <1>2, <1>3, <1>4, <1>5 DEF Clean

(* The lock is taken and given back by submits whose turns do not go on. *)
LEMMA LockClean ==
  ASSUME TypeOK, Lasting, Clean, NEW s \in Submits,
         Submit(s) \/ Enter(s) \/ Return(s) \/ DrainEnd(s)
  PROVE  Clean'
<1>1. CASE Submit(s)
  BY <1>1, Moved DEF Submit, Lasting, Informed, Engaged, sessionVars, runnerVars, seenVars
<1>2. CASE Enter(s)
  <2>1. PICK x \in {"gate", "back"} : pc' = [pc EXCEPT ![s] = x]
    BY <1>2 DEF Enter
  <2>2. QED
    BY <1>2, <2>1, Moved DEF Enter, Lasting, Informed, Engaged, sessionVars, runnerVars, seenVars
<1>3. CASE Return(s)
  BY <1>3, Moved DEF Return, Engaged, sessionVars, runnerVars, seenVars
<1>4. CASE DrainEnd(s)
  <2>1. turn[s] = "over"
    BY <1>4 DEF DrainEnd, Clean, Stopping
  <2>2. QED
    BY <1>4, <2>1, Moved DEF DrainEnd, Engaged, sessionVars, runnerVars, seenVars
<1>5. QED
  BY <1>1, <1>2, <1>3, <1>4

(* While a turn goes on, no other submit is between taking and releasing the
   lock. *)
LEMMA OthersOut ==
  ASSUME Lined, Seated, NEW s \in Submits, Engaged(s)
  PROVE  /\ pc[s] \in {"turn", "reset", "drain"}
         /\ \A t \in Submits : t # s => ~ Engaged(t) /\ pc[t] \in {"new", "waiting", "back"}
<1>1. pc[s] \in {"turn", "reset", "drain"}
  BY DEF Seated
<1>2. ASSUME NEW t \in Submits, t # s PROVE pc[t] \in {"new", "waiting", "back"}
  BY <1>1, <1>2, Alone
<1>3. QED
  BY <1>1, <1>2, OneEngaged

(* A change of the model stops the process that nobody talks to. *)
LEMMA RecycleClean ==
  ASSUME TypeOK, Lasting, Clean, NEW s \in Submits, Recycle(s)
  PROVE  Clean'
<1>1. /\ proc \in Procs /\ pc[s] = "gate" /\ ~ watch /\ Stop(s)
      /\ pc' = [pc EXCEPT ![s] = "recycle"]
      /\ UNCHANGED <<handler, watch, watchId, turns, turn, muted, flush, proc, prompts, task,
                     starting, ends, answered, rows, lost>>
  BY Types DEF Recycle, WatchDone, sessionVars, seenVars
<1>2. pc'[s] = "recycle" /\ \A t \in Submits : t # s => pc'[t] = pc[t]
  BY <1>1, Types
<1>3. /\ \A p \in Procs : up'[p] = IF p = proc THEN "stopping" ELSE up[p]
      /\ waits'[s] = proc /\ \A t \in Submits : t # s => waits'[t] = waits[t]
  BY <1>1, Stops
<1>4. turn[s] = "none"
  BY <1>1 DEF Lasting, Informed
<1>5. Seated'
  BY <1>1, <1>2, <1>4 DEF Clean, Seated, Engaged
<1>6. OneMachine'
  BY <1>1, <1>3 DEF Clean, OneMachine
<1>7. Stopping'
  BY <1>1, <1>2, <1>3, <1>4, Names DEF Clean, Stopping
<1>8. Asked'
  BY <1>1, <1>3 DEF Clean, Asked
<1>9. Tasks'
  BY <1>1, <1>3 DEF Clean, Tasks, Engaged
<1>10. Watching' /\ Numbered' /\ Own' /\ Kept'
  BY <1>1 DEF Clean, Watching, Numbered, Own, Kept
<1>11. QED
  BY <1>5, <1>6, <1>7, <1>8, <1>9, <1>10 DEF Clean

(* The idle timeout tells the client, shuts the gate and waits for the process of
   the turn to stop. *)
LEMMA IdleClean ==
  ASSUME TypeOK, Lasting, Clean, NEW s \in Submits, IdleTimeout(s), ~ outlasted'
  PROVE  Clean'
<1>1. /\ turn[s] = "live" /\ pc[s] = "turn" /\ Stop(s)
      /\ ends' = [ends EXCEPT ![s] = @ + 1] /\ muted' = muted \cup {s}
      /\ pc' = [pc EXCEPT ![s] = "reset"]
      /\ UNCHANGED <<handler, watch, watchId, turns, turn, flush, proc, prompts, task, starting,
                     answered, rows, lost>>
  BY DEF IdleTimeout, HardReset, sessionVars
<1>2. /\ pc'[s] = "reset" /\ \A t \in Submits : t # s => pc'[t] = pc[t]
      /\ ends'[s] = ends[s] + 1 /\ \A t \in Submits : t # s => ends'[t] = ends[t]
  BY <1>1, Types
<1>3. /\ \A p \in Procs : up'[p] = IF p = proc THEN "stopping" ELSE up[p]
      /\ waits'[s] = proc /\ \A t \in Submits : t # s => waits'[t] = waits[t]
  BY <1>1, Stops
<1>4. Engaged(s) /\ proc \in Procs \cup {None}
  BY <1>1, Types DEF Engaged
<1>5. \A t \in Submits : t # s => ~ Engaged(t) /\ pc[t] \in {"new", "waiting", "back"}
  BY <1>4, OthersOut DEF Lasting, Clean
<1>6. Seated'
  BY <1>1, <1>2 DEF Clean, Seated, Engaged
<1>7. OneMachine'
  BY <1>1, <1>3 DEF Clean, OneMachine
<1>8. Stopping'
  <2>1. s \in flush \/ proc \in Procs
    BY <1>1, <1>4 DEF Clean, Stopping
  <2>2. \A t \in Submits : t # s => turn[t] # "live"
    BY <1>5 DEF Engaged
  <2>3. QED
    BY <1>1, <1>2, <1>3, <1>5, <2>1, <2>2 DEF Clean, Stopping
<1>9. Asked'
  BY <1>1, <1>3 DEF Clean, Asked
<1>10. Tasks' /\ Watching' /\ Numbered' /\ Own' /\ Kept'
  BY <1>1, <1>4 DEF Clean, Tasks, Watching, Numbered, Own, Kept
<1>11. QED
  BY <1>6, <1>7, <1>8, <1>9, <1>10 DEF Clean

(* When the process has stopped, the deferred end of the turn is due. *)
LEMMA ResetClean ==
  ASSUME TypeOK, Lasting, Clean, NEW s \in Submits, ResetDone(s)
  PROVE  Clean'
<1>1. /\ pc[s] = "reset" /\ Stopped(s) /\ waits' = [waits EXCEPT ![s] = None]
      /\ pc' = [pc EXCEPT ![s] = "drain"]
      /\ UNCHANGED <<handler, watch, watchId, turns, turn, muted, flush, proc, up, prompts, task,
                     starting, ends, answered, rows, lost>>
  BY DEF ResetDone, StopReturns, sessionVars, seenVars
<1>2. /\ pc'[s] = "drain" /\ \A t \in Submits : t # s => pc'[t] = pc[t]
      /\ \A t \in Submits : t # s => waits'[t] = waits[t]
  BY <1>1, Types
<1>3. turn[s] = "over" \/ s \in flush
  BY <1>1 DEF Stopped, Clean, Seated, Stopping
<1>4. Seated'
  BY <1>1, <1>2 DEF Clean, Seated, Engaged
<1>5. Stopping'
  BY <1>1, <1>2, <1>3 DEF Clean, Stopping
<1>6. Watching'
  BY <1>1, <1>2 DEF Clean, Watching, Engaged
<1>7. OneMachine' /\ Asked' /\ Tasks' /\ Numbered' /\ Own' /\ Kept'
  BY <1>1 DEF Clean, OneMachine, Asked, Tasks, Engaged, Numbered, Own, Kept
<1>8. QED
  BY <1>4, <1>5, <1>6, <1>7 DEF Clean

(* A watch that is ended by force, or by its backstop, had no report to wait for. *)
LEMMA WatchGoneClean ==
  ASSUME TypeOK, Clean, ~ outlasted', Backstop \/ \E s \in Submits : DrainLimit(s)
  PROVE  Clean'
<1>1. /\ ~ watch' /\ \A p \in Procs : ~ task[p]
      /\ UNCHANGED <<handler, turns, pc, turn, muted, flush, proc, up, prompts, task,
                     starting, waits, ends, answered, rows, lost>>
  BY DEF Backstop, DrainLimit, EndWatch, submitVars, runnerVars, seenVars
<1>2. Seated' /\ OneMachine' /\ Stopping' /\ Asked'
  BY <1>1 DEF Clean, Seated, OneMachine, Stopping, Asked, Engaged
<1>3. Tasks' /\ Watching' /\ Numbered' /\ Own' /\ Kept'
  BY <1>1 DEF Clean, Tasks, Watching, Numbered, Own, Kept
<1>4. QED
  BY <1>2, <1>3 DEF Clean

--------------------------------------------------------------------------------
(* What the start and the end of a turn keep. *)

(* A process is spawned when none runs, and has one prompt. *)
LEMMA SpawnClean ==
  ASSUME TypeOK, Lasting, Clean, NEW s \in Submits, SpawnOk(s)
  PROVE  Clean'
<1> DEFINE p == CHOOSE r \in Procs : Free(r)
<1>1. /\ p \in Procs /\ up[p] = "none" /\ starting = s
      /\ proc' = p /\ up' = [up EXCEPT ![p] = "up"] /\ prompts' = [prompts EXCEPT ![p] = <<s>>]
      /\ task' = [task EXCEPT ![p] = FALSE] /\ starting' = None
      /\ turn' = [turn EXCEPT ![s] = IF @ = "start" THEN "live" ELSE @]
      /\ UNCHANGED <<handler, watch, watchId, turns, pc, muted, flush, waits, ends, answered, rows,
                     lost>>
  BY DEF SpawnOk, Free, sessionVars, seenVars
<1> HIDE DEF p
<1>2. turn[s] = "start" /\ proc = None /\ s # None
  BY <1>1, Names DEF Clean, Seated, OneMachine
<1>3. Engaged(s)
  BY <1>2 DEF Engaged
<1>4. \A t \in Submits : t # s => ~ Engaged(t) /\ pc[t] \in {"new", "waiting", "back"}
  BY <1>3, OthersOut DEF Lasting, Clean
<1>5. (\A r \in Procs : prompts[r] = <<>>) /\ flush = {}
  BY <1>2, <1>4, Unasked DEF Lasting
<1>6. turn'[s] = "live" /\ \A t \in Submits : t # s => turn'[t] = turn[t]
  BY <1>1, <1>2, Types
<1>7. /\ \A r \in Procs : up'[r] = IF r = p THEN "up" ELSE up[r]
      /\ \A r \in Procs : prompts'[r] = IF r = p THEN <<s>> ELSE <<>>
      /\ \A r \in Procs : ~ task'[r]
  BY <1>1, <1>3, <1>5, Types DEF Clean, Tasks
<1>8. Seated'
  <2>1. pc[s] = "turn" /\ s \notin muted
    BY <1>2, <1>3 DEF Clean, Seated
  <2>2. \A t \in Submits : Engaged(t)' => t = s
    BY <1>4, <1>6 DEF Engaged
  <2>3. None \notin Submits
    BY Names
  <2>4. QED
    BY <1>1, <1>2, <1>3, <1>5, <1>6, <2>1, <2>2, <2>3 DEF Clean, Seated
<1>9. OneMachine'
  BY <1>1, <1>2, <1>5, <1>7, Names DEF Clean, OneMachine
<1>10. Stopping'
  <2>1. pc[s] = "turn"
    BY <1>2, <1>3 DEF Clean, Seated
  <2>2. \A t \in Submits : turn'[t] = "live" => t = s
    BY <1>4, <1>6 DEF Engaged
  <2>3. QED
    BY <1>1, <1>4, <1>6, <2>1, <2>2, Names DEF Stopping
<1>11. Asked'
  BY <1>6, <1>7 DEF Asked
<1>12. Tasks' /\ Watching' /\ Numbered' /\ Own' /\ Kept'
  BY <1>1, <1>3, <1>7 DEF Clean, Tasks, Watching, Numbered, Own, Kept
<1>13. QED
  BY <1>8, <1>9, <1>10, <1>11, <1>12 DEF Clean

(* When a turn is over nothing of it is out, and no other goes on. *)
LEMMA Overs ==
  ASSUME TypeOK, Lasting, Clean, NEW s \in Submits, Engaged(s),
         turn' = [turn EXCEPT ![s] = "over"], ends' = Told(s), flush' = flush \ {s},
         starting' \in {starting, None}, starting' # s, \A p \in Procs : prompts'[p] = <<>>,
         UNCHANGED <<pc, muted, proc, up>>
  PROVE  /\ Seated' /\ OneMachine' /\ Stopping' /\ Asked' /\ s \notin Over
         /\ \A t \in Submits : ~ Engaged(t)' /\ pc[t] # "recycle"
<1>1. turn'[s] = "over" /\ \A t \in Submits : t # s => turn'[t] = turn[t]
  BY Types
<1>2. /\ pc[s] \in {"turn", "reset", "drain"}
      /\ \A t \in Submits : t # s => ~ Engaged(t) /\ pc[t] \in {"new", "waiting", "back"}
  BY OthersOut DEF Lasting, Clean
<1>3. \A t \in Submits : ~ Engaged(t)' /\ pc[t] # "recycle"
  BY <1>1, <1>2 DEF Engaged
<1>4. /\ ends'[s] = IF s \in muted THEN ends[s] ELSE ends[s] + 1
      /\ \A t \in Submits : t # s => ends'[t] = ends[t]
  BY Tell
<1>5. flush' = {}
  BY <1>2, Types DEF Clean, Seated, Engaged
<1>6. \A t \in Submits : starting' # t
  BY <1>2, Names DEF Clean, Seated, Engaged
<1>7. Seated'
  <2>1. ends'[s] <= 1
    BY <1>4, Types DEF Clean, Seated, Engaged
  <2>2. \A t \in Submits : turn'[t] # "start"
    BY <1>3 DEF Engaged
  <2>3. QED
    BY <1>1, <1>3, <1>4, <1>5, <1>6, <2>1, <2>2 DEF Clean, Seated
<1>8. OneMachine'
  BY <1>5 DEF Clean, OneMachine
<1>9. Stopping'
  BY <1>1, <1>2, <1>3 DEF Stopping, Engaged
<1>10. Asked'
  BY DEF Asked
<1>11. QED
  BY <1>3, <1>7, <1>8, <1>9, <1>10 DEF Over, Engaged

(* A start that fails, and a turn that is given up. *)
LEMMA FailClean ==
  ASSUME TypeOK, Lasting, Clean, NEW s \in Submits, SpawnFails(s) \/ GiveUp(s)
  PROVE  Clean'
<1>1. /\ turn' = [turn EXCEPT ![s] = "over"] /\ ends' = Told(s)
      /\ starting' \in {starting, None}
      /\ UNCHANGED <<handler, watch, watchId, turns, pc, muted, flush, proc, up, prompts, task,
                     answered, rows, lost>>
  BY DEF SpawnFails, GiveUp, sessionVars
<1>2. /\ turn[s] \in {"start", "restart"}
      /\ starting' # s
  BY Names DEF SpawnFails, GiveUp, Clean, Seated
<1>3. Engaged(s)
  BY <1>2 DEF Engaged
<1>4. (\A p \in Procs : prompts[p] = <<>>) /\ flush = {}
  BY <1>2, <1>3, OneEngaged, Unasked DEF Lasting, Clean
<1>5. Seated' /\ OneMachine' /\ Stopping' /\ Asked'
  <2>1. flush' = flush \ {s}
    BY <1>1, <1>4
  <2>2. \A p \in Procs : prompts'[p] = <<>>
    BY <1>1, <1>4
  <2>3. QED
    BY <1>1, <1>2, <1>3, <2>1, <2>2, Overs
<1>6. Tasks' /\ Watching' /\ Numbered' /\ Own' /\ Kept'
  BY <1>1, <1>3 DEF Clean, Tasks, Watching, Numbered, Own, Kept
<1>7. QED
  BY <1>5, <1>6 DEF Clean

(* A row is stored once. *)
LEMMA Stored ==
  ASSUME TypeOK, NEW n \in TurnIds, NEW kind \in {"partial", "whole"}, Store(n, kind)
  PROVE  /\ rows' \in [TurnIds -> {"none", "partial", "whole"}] /\ lost' \subseteq TurnIds
         /\ \A m \in TurnIds : /\ rows'[m] = "whole" => rows[m] = "whole" \/ (m = n /\ kind = "whole")
                               /\ rows[m] # "none" => rows'[m] = rows[m]
         /\ \A m \in lost' : m \in lost \/ (m = n /\ kind = "whole" /\ rows[n] # "none")
BY Types DEF Store

(* An answer that is stored under the next id finds at most a fragment there. *)
LEMMA StoredClean ==
  ASSUME TypeOK, Clean, NEW n \in TurnIds, NEW kind \in {"partial", "whole"}, Store(n, kind),
         kind = "whole" => n = turns + 1 /\ turns' = turns + 1,
         kind = "partial" => turns' = turns
  PROVE  Numbered' /\ Kept'
<1>1. rows \in [TurnIds -> {"none", "partial", "whole"}] /\ lost \subseteq TurnIds /\ turns \in Nat
  BY Types
<1>2. \A m \in TurnIds : m \in Nat
  BY BoundAssumption DEF TurnIds
<1>3. Numbered'
  BY <1>1, <1>2, Stored DEF Clean, Numbered
<1>4. kind = "whole" => rows[n] # "whole"
  BY <1>1, <1>2 DEF Clean, Numbered
<1>5. Kept'
  BY <1>1, <1>4, Stored DEF Clean, Kept
<1>6. QED
  BY <1>3, <1>5

(* There is an id for every answer. *)
LEMMA Ids ==
  ASSUME TypeOK, Counted
  PROVE  /\ turns + 1 \in TurnIds
         /\ launches < MaxTasks => turns + 2 \in TurnIds
         /\ watch /\ launches < MaxTasks => turns + 2 \in TurnIds
         /\ IsFiniteSet(Over) /\ Cardinality(Over) \in Nat
<1>1. MaxSubmits \in Nat /\ MaxTasks \in Nat /\ launches \in 0..MaxTasks /\ turns \in Nat
  BY BoundAssumption DEF TypeOK
<1>2. IsFiniteSet(Submits) /\ Cardinality(Submits) = MaxSubmits
  BY <1>1, FS_Interval DEF Submits
<1>3. IsFiniteSet(Over) /\ Cardinality(Over) <= MaxSubmits
  BY <1>2, FS_Subset DEF Over
<1>4. Cardinality(Over) \in Nat
  BY <1>3, FS_CardinalityType
<1>5. turns <= Cardinality(Over) + launches
  <2>1. CASE watch
    BY <1>1, <1>4, <2>1 DEF Counted
  <2>2. CASE ~ watch
    BY <1>1, <1>4, <2>2 DEF Counted
  <2>3. QED
    BY <2>1, <2>2
<1>6. QED
  BY <1>1, <1>3, <1>4, <1>5 DEF TurnIds

--------------------------------------------------------------------------------
(* What a result keeps. *)

(* The result that ends a turn is its own. *)
LEMMA HeardByTurn ==
  ASSUME TypeOK, Lasting, Clean, NEW p \in Procs, NEW q \in Submits \cup {Task},
         NEW launch \in BOOLEAN, NEW s \in Submits, Emit(p, q, launch), Listening(s)
  PROVE  Engaged(s) /\ q = s /\ turn[s] = "live" /\ starting # s
<1>1. Engaged(s)
  BY DEF Listening, Engaged
<1>2. q \in Submits /\ turn[q] = "live"
  BY <1>1, Emitted DEF Lasting
<1>3. q = s
  BY <1>1, <1>2, OneEngaged DEF Lasting, Clean, Engaged
<1>4. QED
  BY <1>1, <1>2, <1>3 DEF Clean, Seated

LEMMA AnsweredClean ==
  ASSUME TypeOK, Lasting, Clean, NEW p \in Procs, NEW q \in Submits \cup {Task},
         NEW launch \in BOOLEAN, NEW s \in Submits, TurnAnswered(p, q, launch, s)
  PROVE  Clean'
<1>1. /\ Emit(p, q, launch) /\ Listening(s) /\ turns' = turns + 1 /\ Store(turns + 1, "whole")
      /\ ends' = Told(s) /\ answered' = [answered EXCEPT ![s] = q]
      /\ turn' = [turn EXCEPT ![s] = "over"] /\ flush' = flush \ {s} /\ Arm(launch)
      /\ UNCHANGED <<pc, muted, proc, up, starting, waits>>
  BY DEF TurnAnswered
<1>2. Engaged(s) /\ q = s /\ starting # s
  BY <1>1, HeardByTurn
<1>3. /\ \A r \in Procs : task'[r] => r = p /\ launch
      /\ launch => p = proc
      /\ \A r \in Procs : prompts'[r] = <<>>
  BY <1>1, Emitted DEF Lasting
<1>4. Seated' /\ OneMachine' /\ Stopping' /\ Asked' /\ \A t \in Submits : ~ Engaged(t)' /\ pc[t] # "recycle"
  <2>1. starting' \in {starting, None} /\ starting' # s
    BY <1>1, <1>2
  <2>2. QED
    BY <1>1, <1>2, <1>3, <2>1, Overs
<1>5. ~ watch
  BY <1>2 DEF Clean, Watching
<1>6. Tasks'
  BY <1>1, <1>3, <1>4, <1>5 DEF Tasks, Arm
<1>7. Watching'
  <2>1. (launch => watchId' = turns + 2) /\ (watch' => launch)
    BY <1>1, <1>5 DEF Arm
  <2>2. turns + 2 = turns' + 1
    BY <1>1, Types
  <2>3. QED
    BY <1>1, <1>4, <2>1, <2>2 DEF Watching
<1>8. Numbered' /\ Kept'
  BY <1>1, Ids, StoredClean DEF Lasting
<1>9. Own'
  BY <1>1, <1>2, Types DEF Clean, Own
<1>10. QED
  BY <1>4, <1>6, <1>7, <1>8, <1>9 DEF Clean

(* A turn that is rejected is to be tried again, its prompt is answered. *)
LEMMA RejectedClean ==
  ASSUME TypeOK, Lasting, Clean, ~ outlasted', NEW p \in Procs, NEW q \in Submits \cup {Task},
         NEW s \in Submits, TurnRejected(p, q, s)
  PROVE  Clean'
<1>1. /\ Emit(p, q, FALSE) /\ Listening(s) /\ s \notin muted /\ handler = s
      /\ turn' = [turn EXCEPT ![s] = "refresh"] /\ flush' = flush \ {s}
      /\ UNCHANGED <<handler, watch, watchId, turns, pc, muted, proc, up, starting, waits, ends,
                     answered, rows, lost>>
  BY DEF TurnRejected, sessionVars, seenVars
<1>2. Engaged(s) /\ q = s /\ turn[s] = "live" /\ starting # s
  BY <1>1, HeardByTurn
<1>3. (\A r \in Procs : ~ task'[r]) /\ \A r \in Procs : prompts'[r] = <<>>
  BY <1>1, Emitted DEF Lasting
<1>4. turn'[s] = "refresh" /\ \A t \in Submits : t # s => turn'[t] = turn[t]
  BY <1>1, Types
<1>5. /\ pc[s] \in {"turn", "reset", "drain"}
      /\ \A t \in Submits : t # s => ~ Engaged(t) /\ pc[t] \in {"new", "waiting", "back"}
  BY <1>2, OthersOut DEF Lasting, Clean
<1>6. pc[s] = "turn"
  BY <1>1, <1>5 DEF Lasting, Informed
<1>7. flush' = {}
  BY <1>1, <1>5, Types DEF Clean, Seated, Engaged
<1>8. Seated'
  BY <1>1, <1>2, <1>4, <1>5, <1>6, <1>7 DEF Clean, Seated, Engaged
<1>9. OneMachine' /\ Asked'
  BY <1>1, <1>3, <1>7 DEF Clean, OneMachine, Asked
<1>10. Stopping'
  BY <1>1, <1>4, <1>5, <1>6 DEF Stopping, Engaged
<1>11. Tasks' /\ Watching' /\ Numbered' /\ Own' /\ Kept'
  BY <1>1, <1>2, <1>3 DEF Clean, Tasks, Watching, Numbered, Own, Kept
<1>12. QED
  BY <1>8, <1>9, <1>10, <1>11 DEF Clean

(* What the watch takes for the report of a task is one. *)
LEMMA WatchClean ==
  ASSUME TypeOK, Lasting, Clean, NEW p \in Procs, NEW q \in Submits \cup {Task},
         NEW launch \in BOOLEAN, WatchAnswered(p, q, launch)
  PROVE  Clean'
<1>1. /\ Emit(p, q, launch) /\ handler = Watch /\ watch
      /\ UNCHANGED <<handler, pc, turn, muted, flush, proc, up, starting, waits, ends, answered>>
  BY DEF WatchAnswered, submitVars
<1>2. /\ watchId = turns + 1 /\ \A s \in Submits : ~ Engaged(s) /\ pc[s] # "recycle"
  BY <1>1 DEF Clean, Watching
<1>3. /\ \A r \in Procs : task'[r] => r = p /\ launch
      /\ launch => p = proc
      /\ \A r \in Procs : prompts'[r] = <<>>
  BY <1>1, Emitted DEF Lasting
<1>4. /\ watch' = launch
      /\ launch => watchId' = turns' + 1
      /\ Numbered' /\ Kept'
  <2>1. CASE /\ turns' = turns + 1 /\ Store(watchId, "whole")
             /\ IF launch THEN watch' = TRUE /\ watchId' = turns + 2 ELSE EndWatch
    <3>0. turns + 2 = turns' + 1
      BY <2>1, Types
    <3>1. watch' = launch /\ (launch => watchId' = turns' + 1)
      BY <2>1, <3>0 DEF EndWatch
    <3>2. watchId \in TurnIds
      BY <1>1 DEF Lasting, Counted
    <3>3. QED
      BY <1>2, <2>1, <3>1, <3>2, StoredClean
  <2>2. CASE ~ launch /\ EndWatch /\ UNCHANGED <<turns, rows, lost>>
    BY <2>2 DEF EndWatch, Clean, Numbered, Kept
  <2>3. QED
    BY <2>1, <2>2 DEF WatchAnswered
<1>5. Seated' /\ OneMachine' /\ Stopping'
  BY <1>1 DEF Clean, Seated, OneMachine, Stopping, Engaged
<1>6. Asked'
  BY <1>3 DEF Asked
<1>7. Tasks' /\ Watching' /\ Own'
  BY <1>1, <1>2, <1>3, <1>4 DEF Clean, Tasks, Watching, Own, Engaged
<1>8. QED
  BY <1>4, <1>5, <1>6, <1>7 DEF Clean

(* What nobody hears changes nothing but the process. *)
LEMMA UnheardClean ==
  ASSUME TypeOK, Lasting, Clean, NEW p \in Procs, NEW q \in Submits \cup {Task}, Unheard(p, q)
  PROVE  Clean'
<1>1. /\ Emit(p, q, FALSE)
      /\ UNCHANGED <<handler, watch, watchId, turns, pc, turn, muted, flush, proc, up, starting,
                     waits, ends, answered, rows, lost>>
  BY DEF Unheard, sessionVars, submitVars, seenVars
<1>2. (\A r \in Procs : ~ task'[r]) /\ \A r \in Procs : prompts'[r] = <<>>
  BY <1>1, Emitted DEF Lasting
<1>3. Seated' /\ OneMachine' /\ Stopping'
  BY <1>1 DEF Clean, Seated, OneMachine, Stopping, Engaged
<1>4. Asked' /\ Tasks' /\ Watching' /\ Numbered' /\ Own' /\ Kept'
  BY <1>1, <1>2 DEF Clean, Asked, Tasks, Watching, Numbered, Own, Kept, Engaged
<1>5. QED
  BY <1>3, <1>4 DEF Clean

--------------------------------------------------------------------------------
(* What the runner's process and the owner of the session keep. *)

(* The process is restarted for a turn that was rejected. *)
LEMMA RestartClean ==
  ASSUME TypeOK, Lasting, Clean, NEW s \in Submits, Restart(s)
  PROVE  Clean'
<1>1. /\ turn[s] = "refresh" /\ turn' = [turn EXCEPT ![s] = "restart"] /\ Stop(s)
      /\ UNCHANGED <<handler, watch, watchId, turns, pc, muted, flush, proc, prompts, task,
                     starting, ends, answered, rows, lost>>
  BY DEF Restart, sessionVars, seenVars
<1>2. turn'[s] = "restart" /\ \A t \in Submits : t # s => turn'[t] = turn[t]
  BY <1>1, Types
<1>3. /\ \A p \in Procs : up'[p] = IF p = proc THEN "stopping" ELSE up[p]
      /\ \A t \in Submits : t # s => waits'[t] = waits[t]
  BY <1>1, Stops
<1>4. Engaged(s)
  BY <1>1 DEF Engaged
<1>5. /\ pc[s] \in {"turn", "reset", "drain"}
      /\ \A t \in Submits : t # s => ~ Engaged(t) /\ pc[t] \in {"new", "waiting", "back"}
  BY <1>4, OthersOut DEF Lasting, Clean
<1>6. pc[s] = "turn"
  BY <1>1, <1>5 DEF Clean, Seated
<1>7. \A p \in Procs : prompts[p] = <<>>
  BY <1>1, <1>5, Unasked DEF Lasting
<1>8. Seated'
  BY <1>1, <1>2 DEF Clean, Seated, Engaged
<1>9. OneMachine'
  BY <1>1, <1>3 DEF Clean, OneMachine
<1>10. Stopping'
  BY <1>1, <1>2, <1>5, <1>6 DEF Stopping, Engaged
<1>11. Asked'
  BY <1>1, <1>7 DEF Asked
<1>12. Tasks' /\ Watching' /\ Numbered' /\ Own' /\ Kept'
  BY <1>1, <1>4 DEF Clean, Tasks, Watching, Numbered, Own, Kept
<1>13. QED
  BY <1>8, <1>9, <1>10, <1>11, <1>12 DEF Clean

(* An exit takes the process, its task and the watch with it; the turn that has
   lost it is ended after what is left of the output has been read. *)
LEMMA ExitClean ==
  ASSUME TypeOK, Lasting, Clean, NEW p \in Procs, up[p] \in {"up", "stopping", "late"}, Exit(p)
  PROVE  Clean'
<1>1. /\ up' = [up EXCEPT ![p] = IF prompts[p] = <<>> THEN "none" ELSE "out"]
      /\ proc' = None /\ task' = [task EXCEPT ![p] = FALSE]
      /\ flush' = flush \cup {s \in Submits : Listening(s)}
      /\ UNCHANGED <<handler, turns, pc, turn, muted, prompts, starting, waits, ends, answered>>
  BY DEF Exit
<1>2. p = proc /\ starting = None
  BY Names DEF Clean, OneMachine
<1>3. /\ up'[p] = (IF prompts[p] = <<>> THEN "none" ELSE "out")
      /\ \A r \in Procs : r # p => up'[r] = up[r]
      /\ ~ task'[p] /\ \A r \in Procs : r # p => task'[r] = task[r]
  BY <1>1, Types
<1>4. \A s \in Submits : Listening(s) <=> turn[s] = "live"
  BY <1>2, Names DEF Listening, Clean, Seated
<1>5. Seated'
  BY <1>1, <1>4 DEF Clean, Seated, Engaged
<1>6. OneMachine'
  BY <1>1, <1>2, <1>3, Names DEF Clean, OneMachine
<1>7. Stopping'
  BY <1>1, <1>4 DEF Clean, Stopping
<1>8. Asked'
  BY <1>1, <1>3 DEF Clean, Asked
<1>9. Tasks'
  BY <1>2, <1>3 DEF Clean, Tasks
<1>10. ~ watch'
  BY DEF Exit, EndWatch
<1>11. Numbered' /\ Kept'
  <2>1. CASE UNCHANGED <<rows, lost>>
    BY <1>1, <2>1 DEF Clean, Numbered, Kept
  <2>2. CASE watch /\ Store(watchId, "partial")
    <3>1. watchId \in TurnIds
      BY <2>2 DEF Lasting, Counted
    <3>2. QED
      BY <1>1, <2>2, <3>1, StoredClean
  <2>3. QED
    BY <2>1, <2>2 DEF Exit
<1>12. Watching' /\ Own'
  BY <1>1, <1>10 DEF Clean, Watching, Own
<1>13. QED
  BY <1>5, <1>6, <1>7, <1>8, <1>9, <1>11, <1>12 DEF Clean

(* Nothing is left of a process that has exited. *)
LEMMA DrainedClean ==
  ASSUME TypeOK, Clean, NEW p \in Procs, Drained(p)
  PROVE  Clean'
<1>1. /\ up[p] = "out" /\ up' = [up EXCEPT ![p] = "none"]
      /\ prompts' = [prompts EXCEPT ![p] = <<>>]
      /\ UNCHANGED <<handler, watch, watchId, turns, pc, turn, muted, flush, proc, task, starting,
                     waits, ends, answered, rows, lost>>
  BY DEF Drained, sessionVars, submitVars, seenVars
<1>2. /\ up'[p] = "none" /\ prompts'[p] = <<>>
      /\ \A r \in Procs : r # p => up'[r] = up[r] /\ prompts'[r] = prompts[r]
  BY <1>1, Types
<1>3. p # proc
  BY <1>1 DEF Clean, OneMachine
<1>4. Seated' /\ Watching' /\ Numbered' /\ Own' /\ Kept'
  BY <1>1 DEF Clean, Seated, Watching, Numbered, Own, Kept, Engaged
<1>5. OneMachine' /\ Tasks'
  BY <1>1, <1>2, <1>3 DEF Clean, OneMachine, Tasks, Engaged
<1>6. Stopping'
  BY <1>1, <1>2, <1>3, Types DEF Clean, Stopping
<1>7. Asked'
  BY <1>1, <1>2 DEF Clean, Asked
<1>8. QED
  BY <1>4, <1>5, <1>6, <1>7 DEF Clean

(* The deferred exit handler ends a turn whose process has nothing left to say. *)
LEMMA FlushClean ==
  ASSUME TypeOK, Lasting, Clean, NEW s \in Submits, FlushExit(s)
  PROVE  Clean'
<1>1. /\ s \in flush /\ (\A p \in Procs : up[p] # "out")
      /\ flush' = flush \ {s} /\ turn' = [turn EXCEPT ![s] = "over"] /\ ends' = Told(s)
      /\ UNCHANGED <<handler, watch, watchId, turns, pc, muted, proc, up, prompts, task, starting,
                     waits, answered>>
  BY DEF FlushExit, sessionVars, runnerVars
<1>2. turn[s] = "live" /\ starting # s /\ proc = None
  BY <1>1 DEF Clean, Seated, OneMachine
<1>3. Engaged(s)
  BY <1>2 DEF Engaged
<1>4. \A p \in Procs : prompts[p] = <<>>
  BY <1>1, <1>2, Types, Names DEF Clean, OneMachine, Asked, Ups
<1>5. Seated' /\ OneMachine' /\ Stopping' /\ Asked'
  <2>1. starting' \in {starting, None} /\ starting' # s /\ \A p \in Procs : prompts'[p] = <<>>
    BY <1>1, <1>2, <1>4
  <2>2. QED
    BY <1>1, <1>3, <2>1, Overs
<1>6. Numbered' /\ Kept'
  <2>1. CASE UNCHANGED <<rows, lost>>
    BY <1>1, <2>1 DEF Clean, Numbered, Kept
  <2>2. CASE Store(turns + 1, "partial")
    BY <1>1, <2>2, Ids, StoredClean DEF Lasting
  <2>3. QED
    BY <2>1, <2>2 DEF FlushExit
<1>7. Tasks' /\ Watching' /\ Own'
  BY <1>1, <1>3 DEF Clean, Tasks, Watching, Own
<1>8. QED
  BY <1>5, <1>6, <1>7 DEF Clean

(* The owner of the session ends the watch and stops the process, without the
   lock and whatever goes on. *)
LEMMA TearDownClean ==
  ASSUME TypeOK, Clean, NEW next, TearDown(next)
  PROVE  Clean'
<1>1. /\ ~ watch' /\ handler' = None /\ Stop(Owner)
      /\ UNCHANGED <<turns, pc, turn, muted, flush, proc, prompts, task, starting, ends, answered,
                     rows, lost>>
  BY DEF TearDown, EndWatch, submitVars, seenVars
<1>2. /\ \A p \in Procs : up'[p] = IF p = proc THEN "stopping" ELSE up[p]
      /\ \A t \in Submits : waits'[t] = waits[t]
  BY <1>1, Stops, Names
<1>3. Seated'
  BY <1>1 DEF Clean, Seated, Engaged
<1>4. OneMachine'
  BY <1>1, <1>2 DEF Clean, OneMachine
<1>5. Stopping'
  BY <1>1, <1>2, Types DEF Clean, Stopping
<1>6. Asked'
  BY <1>1, <1>2 DEF Clean, Asked
<1>7. Tasks' /\ Watching' /\ Numbered' /\ Own' /\ Kept'
  BY <1>1, <1>2 DEF Clean, Tasks, Watching, Numbered, Own, Kept, Engaged
<1>8. QED
  BY <1>3, <1>4, <1>5, <1>6, <1>7 DEF Clean

(* The other steps of the owner change nothing of this. *)
LEMMA OwnerClean ==
  ASSUME TypeOK, Clean, Destroyed \/ BeginShutdown \/ Closed
  PROVE  Clean'
<1>1. /\ UNCHANGED <<handler, watch, watchId, turns, pc, turn, muted, flush, proc, up, prompts,
                     task, starting, ends, answered, rows, lost>>
      /\ \A t \in Submits : waits'[t] = waits[t]
  BY Types, Names DEF Destroyed, BeginShutdown, Closed, StopReturns, submitVars, runnerVars, seenVars
<1>2. QED
  BY <1>1 DEF Clean, Seated, OneMachine, Stopping, Asked, Tasks, Watching, Numbered, Own, Kept, Engaged

--------------------------------------------------------------------------------
(* What every step keeps, whatever has been outlasted. *)

(* The lock is taken in order and is given back for good. *)
LEMMA LinedStep ==
  ASSUME TypeOK, Lined, [Next]_vars
  PROVE  Lined'
<1>1. pc \in [Submits -> PCs]
  BY Types
<1>2. CASE UNCHANGED pc
  BY <1>2 DEF Lined
<1>3. ASSUME NEW s \in Submits, NEW x \in PCs, pc' = [pc EXCEPT ![s] = x], pc[s] # "back",
             x = "waiting" \/ pc[s] \notin {"new", "waiting"} \/ \A t \in Submits : t < s => pc[t] = "back"
      PROVE  Lined'
  <2>1. pc'[s] = x /\ \A t \in Submits : t # s => pc'[t] = pc[t]
    BY <1>1, <1>3
  <2>2. QED
    BY <1>3, <2>1, Names DEF Lined
<1>4. ASSUME NEW s \in Submits, Submit(s) PROVE Lined'
  BY <1>3, <1>4 DEF Submit, PCs
<1>5. ASSUME NEW s \in Submits, Enter(s) PROVE Lined'
  <2>1. PICK x \in {"gate", "back"} : pc' = [pc EXCEPT ![s] = x]
    BY <1>5 DEF Enter
  <2>2. QED
    BY <1>3, <1>5, <2>1 DEF Enter, PCs
<1>6. ASSUME NEW s \in Submits,
             Recycle(s) \/ Begin(s) \/ Return(s) \/ IdleTimeout(s) \/ ResetDone(s) \/ DrainEnd(s)
      PROVE  Lined'
  <2>1. PICK x \in PCs : pc' = [pc EXCEPT ![s] = x]
    BY <1>6 DEF Recycle, Begin, Return, IdleTimeout, ResetDone, DrainEnd, PCs
  <2>2. pc[s] \notin {"new", "waiting", "back"}
    BY <1>6 DEF Recycle, Begin, Return, IdleTimeout, ResetDone, DrainEnd
  <2>3. QED
    BY <1>3, <2>1, <2>2
<1>7. ASSUME NEW s \in Submits, SubmitStep(s) PROVE Lined'
  <2>1. CASE DrainLimit(s)
    BY <1>2, <2>1 DEF DrainLimit, submitVars
  <2>2. CASE Enter(s)
    BY <1>5, <2>2
  <2>3. CASE Recycle(s) \/ Begin(s) \/ Return(s) \/ ResetDone(s) \/ DrainEnd(s)
    BY <1>6, <2>3
  <2>4. QED
    BY <1>7, <2>1, <2>2, <2>3 DEF SubmitStep
<1>8. ASSUME NEW s \in Submits, TurnStep(s) PROVE UNCHANGED pc
  BY <1>8 DEF TurnStep, SpawnOk, SpawnFails, Restart, Retry, GiveUp, TurnTimeout, FlushExit, submitVars
<1>9. ASSUME NEW p \in Procs, Results(p) PROVE UNCHANGED pc
  BY <1>9 DEF Results, TurnAnswered, TurnRejected, WatchAnswered, Unheard, submitVars
<1>10. ASSUME NEW p \in Procs, CrashProc(p) \/ Ending(p) PROVE UNCHANGED pc
  BY <1>10 DEF Ending, CrashProc, StopExit, Outlive, LateExit, Drained, Exit, submitVars
<1>11. CASE Backstop \/ LifeStep \/ UNCHANGED vars
  <2>1. UNCHANGED pc
    BY <1>11 DEF Backstop, LifeStep, DestroySession, ShutdownAll, TearDown, Destroyed, BeginShutdown,
                 Closed, submitVars, vars
  <2>2. QED
    BY <1>2, <2>1
<1>12. QED
  BY <1>2, <1>4, <1>6, <1>7, <1>8, <1>9, <1>10, <1>11 DEF Next

(* What a turn becomes when it runs. *)
LEMMA RunTurnTyped ==
  ASSUME TypeOK, NEW s \in Submits, RunTurn(s)
  PROVE  /\ pump' \in BOOLEAN /\ handler' \in Submits
         /\ turn' \in [Submits -> States] /\ turn'[s] \in {"start", "live", "over"}
         /\ \A t \in Submits : t # s => turn'[t] = turn[t]
         /\ starting' \in {starting, s} /\ (starting' # starting => turn'[s] = "start")
         /\ prompts' \in [Procs -> Seq(Submits)]
         /\ ends' \in [Submits -> Nat] /\ \A t \in Submits : ends'[t] >= ends[t]
         /\ \A t \in Submits : t # s => ends'[t] = ends[t]
         /\ turn'[s] = "over" => ends' = Told(s)
<1>1. /\ turn \in [Submits -> States] /\ ends \in [Submits -> Nat]
      /\ prompts \in [Procs -> Seq(Submits)] /\ proc \in Procs \cup {None}
  BY Types
<1>2. pump' = TRUE /\ handler' = s
  BY DEF RunTurn
<1>3. CASE /\ proc = None /\ starting = None
           /\ turn' = [turn EXCEPT ![s] = "start"] /\ starting' = s /\ UNCHANGED <<prompts, ends>>
  <2>1. turn' \in [Submits -> States] /\ turn'[s] = "start"
    BY <1>1, <1>3 DEF States
  <2>2. QED
    BY <1>1, <1>2, <1>3, <2>1
<1>4. CASE /\ proc # None
           /\ turn' = [turn EXCEPT ![s] = "live"]
           /\ prompts' = [prompts EXCEPT ![proc] = Append(@, s)]
           /\ UNCHANGED <<starting, ends>>
  <2>1. turn' \in [Submits -> States] /\ turn'[s] = "live"
    BY <1>1, <1>4 DEF States
  <2>2. proc \in Procs
    BY <1>1, <1>4
  <2>3. Append(prompts[proc], s) \in Seq(Submits)
    BY <1>1, <2>2
  <2>4. prompts' \in [Procs -> Seq(Submits)]
    BY <1>1, <1>4, <2>3
  <2>5. QED
    BY <1>1, <1>2, <1>4, <2>1, <2>4
<1>5. CASE /\ turn' = [turn EXCEPT ![s] = "over"] /\ ends' = Told(s)
           /\ UNCHANGED <<starting, prompts>>
  <2>1. turn' \in [Submits -> States] /\ turn'[s] = "over"
    BY <1>1, <1>5 DEF States
  <2>2. /\ ends' \in [Submits -> Nat]
        /\ \A t \in Submits : t # s => ends'[t] = ends[t]
        /\ ends'[s] = IF s \in muted THEN ends[s] ELSE ends[s] + 1
    BY <1>5, Tell
  <2>3. \A t \in Submits : ends'[t] >= ends[t]
    <3>1. \A t \in Submits : ends[t] \in Nat
      BY <1>1
    <3>2. ends'[s] >= ends[s]
      BY <2>2, <3>1
    <3>3. QED
      BY <2>2, <3>1, <3>2
  <2>4. QED
    BY <1>1, <1>2, <1>5, <2>1, <2>2, <2>3
<1>6. QED
  BY <1>3, <1>4, <1>5 DEF RunTurn

(* A turn that is over stays so. *)
LEMMA OverGrows ==
  ASSUME TypeOK, Informed, [Next]_vars
  PROVE  \A s \in Submits : turn[s] = "over" => turn'[s] = "over"
<1>1. turn \in [Submits -> States]
  BY Types
<1> DEFINE Grows == \A s \in Submits : turn[s] = "over" => turn'[s] = "over"
<1>2. CASE UNCHANGED turn
  BY <1>2
<1>3. ASSUME NEW s \in Submits, Begin(s) \/ Retry(s) PROVE Grows
  <2>1. turn[s] # "over" /\ RunTurn(s)
    BY <1>3 DEF Begin, Retry, Informed
  <2>2. QED
    BY <2>1, RunTurnTyped
<1>4. ASSUME NEW s \in Submits, SpawnOk(s) PROVE Grows
  BY <1>1, <1>4 DEF SpawnOk
<1>5. ASSUME NEW s \in Submits, SpawnFails(s) \/ GiveUp(s) \/ TurnTimeout(s) \/ FlushExit(s) PROVE Grows
  BY <1>1, <1>5 DEF SpawnFails, GiveUp, TurnTimeout, FlushExit
<1>6. ASSUME NEW s \in Submits, Restart(s) PROVE Grows
  BY <1>1, <1>6 DEF Restart
<1>7. ASSUME NEW p \in Procs, NEW q, NEW launch, NEW s \in Submits, TurnAnswered(p, q, launch, s)
      PROVE  Grows
  BY <1>1, <1>7 DEF TurnAnswered
<1>8. ASSUME NEW p \in Procs, NEW q, NEW s \in Submits, TurnRejected(p, q, s) PROVE Grows
  BY <1>1, <1>8 DEF TurnRejected, Listening
<1>9. QED
  <2>1. CASE \E s \in Submits : Submit(s) \/ SubmitStep(s) \/ IdleTimeout(s)
    BY <1>2, <1>3, <1>4, <1>5, <1>6, <1>7, <1>8, <2>1
    DEF Submit, SubmitStep, IdleTimeout, Enter, DrainLimit, Recycle, Return, ResetDone, DrainEnd,
        submitVars
  <2>2. CASE \E s \in Submits : TurnStep(s)
    BY <1>2, <1>3, <1>4, <1>5, <1>6, <1>7, <1>8, <2>2
    DEF TurnStep, submitVars
  <2>3. CASE \E p \in Procs : Results(p)
    BY <1>2, <1>3, <1>4, <1>5, <1>6, <1>7, <1>8, <2>3
    DEF Results, WatchAnswered, Unheard, submitVars
  <2>4. CASE \E p \in Procs : CrashProc(p) \/ Ending(p)
    BY <1>2, <1>3, <1>4, <1>5, <1>6, <1>7, <1>8, <2>4
    DEF CrashProc, Ending, StopExit, Outlive, LateExit, Drained, Exit, submitVars
  <2>5. CASE Backstop \/ LifeStep \/ UNCHANGED vars
    BY <1>2, <1>3, <1>4, <1>5, <1>6, <1>7, <1>8, <2>5
    DEF Backstop, LifeStep, DestroySession, ShutdownAll, TearDown, Destroyed, BeginShutdown, Closed,
        vars, submitVars
  <2>6. QED
    BY <2>1, <2>2, <2>3, <2>4, <2>5 DEF Next

(* Whoever loses his turn is told. *)
LEMMA InformedStep ==
  ASSUME TypeOK, Lined, Informed, [Next]_vars
  PROVE  Informed'
<1>1. /\ turn \in [Submits -> States] /\ pc \in [Submits -> PCs] /\ ends \in [Submits -> Nat]
      /\ muted \subseteq Submits /\ None \notin Submits
  BY Types, Names
<1>2. CASE UNCHANGED <<pc, turn, ends, muted, starting, flush>>
  BY <1>2 DEF Informed
<1>3. ASSUME NEW s \in Submits, NEW x \in PCs, pc' = [pc EXCEPT ![s] = x],
             x \in {"waiting", "gate", "recycle"} => pc[s] \in {"new", "waiting", "gate"},
             x \in {"reset", "drain"} => s \in muted, x # "new",
             x = "back" => turn[s] = "none" \/ ends[s] >= 1,
             UNCHANGED <<turn, ends, muted, starting, flush>>
      PROVE  Informed'
  <2>1. pc'[s] = x /\ \A t \in Submits : t # s => pc'[t] = pc[t]
    BY <1>1, <1>3
  <2>2. QED
    BY <1>3, <2>1 DEF Informed
<1>4. ASSUME NEW s \in Submits, Submit(s) PROVE Informed'
  BY <1>3, <1>4 DEF Submit, PCs, runnerVars, seenVars
<1>5. ASSUME NEW s \in Submits, Enter(s) PROVE Informed'
  <2>1. PICK x \in {"gate", "back"} : pc' = [pc EXCEPT ![s] = x]
    BY <1>5 DEF Enter
  <2>2. pc[s] = "waiting" /\ turn[s] = "none" /\ UNCHANGED <<turn, ends, muted, starting, flush>>
    BY <1>5 DEF Enter, Informed, runnerVars, seenVars
  <2>3. QED
    BY <1>3, <2>1, <2>2 DEF PCs
<1>6. ASSUME NEW s \in Submits, Recycle(s) PROVE Informed'
  BY <1>3, <1>6 DEF Recycle, PCs, seenVars
<1>7. ASSUME NEW s \in Submits, Return(s) PROVE Informed'
  BY <1>3, <1>7 DEF Return, Informed, PCs, runnerVars, seenVars
<1>8. ASSUME NEW s \in Submits, ResetDone(s) PROVE Informed'
  BY <1>3, <1>8 DEF ResetDone, Informed, PCs, seenVars
<1>9. ASSUME NEW s \in Submits, DrainEnd(s) PROVE Informed'
  BY <1>3, <1>9 DEF DrainEnd, Informed, PCs, runnerVars, seenVars
<1>10. ASSUME NEW s \in Submits, IdleTimeout(s) PROVE Informed'
  <2>1. /\ pc' = [pc EXCEPT ![s] = "reset"] /\ ends' = [ends EXCEPT ![s] = @ + 1]
        /\ muted' = muted \cup {s} /\ turn[s] # "none" /\ UNCHANGED <<turn, starting, flush>>
    BY <1>10 DEF IdleTimeout
  <2>2. /\ pc'[s] = "reset" /\ \A t \in Submits : t # s => pc'[t] = pc[t] /\ ends'[t] = ends[t]
        /\ ends'[s] >= 1
    BY <1>1, <2>1
  <2>3. QED
    BY <2>1, <2>2 DEF Informed
<1>11. ASSUME NEW s \in Submits, Begin(s) \/ Retry(s) PROVE Informed'
  <2>1. RunTurn(s) /\ UNCHANGED <<muted, flush>>
    BY <1>11 DEF Begin, Retry
  <2>2. /\ turn'[s] \in {"start", "live", "over"} /\ starting' \in {starting, s}
        /\ \A t \in Submits : t # s => turn'[t] = turn[t] /\ ends'[t] = ends[t]
        /\ ends'[s] >= ends[s]
        /\ turn'[s] = "over" => ends' = Told(s)
    BY <2>1, RunTurnTyped
  <2>3. turn'[s] = "over" => ends'[s] >= 1
    <3>1. SUFFICES ASSUME turn'[s] = "over" PROVE ends'[s] >= 1
      OBVIOUS
    <3>2. ends'[s] = IF s \in muted THEN ends[s] ELSE ends[s] + 1
      BY <2>2, <3>1, Tell
    <3>3. QED
      BY <1>1, <3>2 DEF Informed
  <2>4. s \in muted => ends'[s] >= 1
    <3>1. ends[s] \in Nat /\ ends'[s] \in Nat
      BY <1>1, <2>1, RunTurnTyped
    <3>2. QED
      BY <2>2, <3>1 DEF Informed
  <2>5. /\ \A t \in Submits : t # s => pc'[t] = pc[t]
        /\ pc'[s] = "turn" \/ (pc'[s] = pc[s] /\ turn[s] = "restart")
    BY <1>1, <1>11 DEF Begin, Retry
  <2>6. pc'[s] = "back" => ends'[s] >= 1
    <3>1. ends[s] \in Nat /\ ends'[s] \in Nat
      BY <1>1, <2>1, RunTurnTyped
    <3>2. QED
      BY <2>2, <2>5, <3>1 DEF Informed
  <2>7. QED
    BY <2>1, <2>2, <2>3, <2>4, <2>5, <2>6 DEF Informed
<1>12. ASSUME NEW s \in Submits, NEW x \in {"live", "refresh", "restart"}, UNCHANGED <<pc, ends, muted>>,
              starting' \in {starting, None}, flush' \subseteq flush,
              turn' = [turn EXCEPT ![s] = x], turn[s] # "none"
       PROVE  Informed'
  <2>1. turn'[s] = x /\ \A t \in Submits : t # s => turn'[t] = turn[t]
    BY <1>1, <1>12
  <2>2. QED
    BY <1>1, <1>12, <2>1 DEF Informed
<1>13. ASSUME NEW s \in Submits, ends' = Told(s), turn' = [turn EXCEPT ![s] = "over"], turn[s] # "none",
              UNCHANGED <<pc, muted>>, starting' \in {starting, None}, flush' \subseteq flush
       PROVE  Informed'
  <2>1. turn'[s] = "over" /\ \A t \in Submits : t # s => turn'[t] = turn[t]
    BY <1>1, <1>13
  <2>2. /\ \A t \in Submits : t # s => ends'[t] = ends[t]
        /\ ends'[s] = IF s \in muted THEN ends[s] ELSE ends[s] + 1
    BY <1>13, Tell
  <2>3. ends'[s] >= 1
    BY <1>1, <2>2 DEF Informed
  <2>4. QED
    BY <1>1, <1>13, <2>1, <2>2, <2>3 DEF Informed
<1>14. ASSUME NEW s \in Submits, SpawnOk(s) PROVE Informed'
  <2>1. /\ starting = s /\ starting' = None /\ UNCHANGED <<pc, ends, muted, flush>>
        /\ turn' = [turn EXCEPT ![s] = IF turn[s] = "start" THEN "live" ELSE turn[s]]
    BY <1>14 DEF SpawnOk, seenVars
  <2>2. CASE turn[s] = "start"
    <3>1. turn' = [turn EXCEPT ![s] = "live"]
      BY <2>1, <2>2
    <3>2. QED
      BY <1>12, <2>1, <2>2, <3>1
  <2>3. CASE turn[s] # "start"
    <3>1. turn' = turn
      BY <1>1, <2>1, <2>3
    <3>2. QED
      BY <1>1, <2>1, <3>1 DEF Informed
  <2>4. QED
    BY <2>2, <2>3
<1>15. ASSUME NEW s \in Submits, SpawnFails(s) \/ GiveUp(s) \/ TurnTimeout(s) \/ FlushExit(s) PROVE Informed'
  <2>1. /\ ends' = Told(s) /\ turn' = [turn EXCEPT ![s] = "over"] /\ UNCHANGED <<pc, muted>>
        /\ starting' \in {starting, None} /\ flush' \subseteq flush
    BY <1>15 DEF SpawnFails, GiveUp, TurnTimeout, FlushExit, runnerVars
  <2>2. turn[s] # "none"
    BY <1>15 DEF SpawnFails, GiveUp, TurnTimeout, Listening, FlushExit, Informed
  <2>3. QED
    BY <1>13, <2>1, <2>2
<1>16. ASSUME NEW s \in Submits, Restart(s) PROVE Informed'
  BY <1>12, <1>16 DEF Restart, seenVars
<1>17. ASSUME NEW p \in Procs, NEW q, NEW launch, NEW s \in Submits, TurnAnswered(p, q, launch, s)
       PROVE  Informed'
  <2>1. flush' \subseteq flush /\ turn[s] # "none"
    BY <1>17 DEF TurnAnswered, Listening
  <2>2. QED
    BY <1>13, <1>17, <2>1 DEF TurnAnswered
<1>18. ASSUME NEW p \in Procs, NEW q, NEW s \in Submits, TurnRejected(p, q, s) PROVE Informed'
  <2>1. flush' \subseteq flush /\ turn[s] # "none"
    BY <1>18 DEF TurnRejected, Listening
  <2>2. QED
    BY <1>12, <1>18, <2>1 DEF TurnRejected, seenVars
<1>19. ASSUME NEW p \in Procs, Exit(p) PROVE Informed'
  BY <1>19 DEF Exit, Informed, Listening
<1>20. QED
  BY <1>2, <1>4, <1>5, <1>6, <1>7, <1>8, <1>9, <1>10, <1>11, <1>14, <1>15, <1>16, <1>17, <1>18, <1>19
  DEF Next, vars, SubmitStep, TurnStep, Results, Ending, LifeStep, submitVars, runnerVars, seenVars,
      DrainLimit, WatchAnswered, Unheard, CrashProc, StopExit, Outlive, LateExit, Drained, Backstop,
      DestroySession, ShutdownAll, TearDown, Destroyed, BeginShutdown, Closed

(* Every count has a turn that is over, or a background task. *)
LEMMA CountedStep ==
  ASSUME TypeOK, Informed, Counted, [Next]_vars
  PROVE  Counted'
<1>1. /\ turns \in Nat /\ launches \in Nat /\ watch \in BOOLEAN /\ turn \in [Submits -> States]
      /\ MaxSubmits \in Nat /\ MaxTasks \in Nat
  <2>1. turns \in Nat /\ watch \in BOOLEAN /\ turn \in [Submits -> States]
    BY Types
  <2>2. MaxSubmits \in Nat /\ MaxTasks \in Nat
    BY BoundAssumption
  <2>3. launches \in 0..MaxTasks
    BY DEF TypeOK
  <2>4. QED
    BY <2>1, <2>2, <2>3
<1>2. IsFiniteSet(Over) /\ Cardinality(Over) \in Nat
  BY Ids
<1>3. IsFiniteSet(Over') /\ Cardinality(Over') \in Nat /\ Cardinality(Over) <= Cardinality(Over')
  <2>1. Over \subseteq Over'
    BY OverGrows DEF Over
  <2>2. IsFiniteSet(Submits)
    BY <1>1, FS_Interval DEF Submits
  <2>3. IsFiniteSet(Over')
    BY <2>2, FS_Subset DEF Over
  <2>4. QED
    BY <2>1, <2>3, FS_Subset, FS_CardinalityType
<1> DEFINE w == IF watch THEN 1 ELSE 0
           w1 == IF watch' THEN 1 ELSE 0
<1>4. /\ w \in {0, 1} /\ w1 \in {0, 1} /\ (watch => w = 1) /\ (~ watch => w = 0)
      /\ (watch' => w1 = 1) /\ (~ watch' => w1 = 0)
      /\ turns + w <= Cardinality(Over) + launches
  BY DEF Counted
<1>5. SUFFICES (watch' => watchId' \in TurnIds) /\ turns' + w1 <= Cardinality(Over') + launches'
  BY DEF Counted
<1> HIDE DEF w, w1
<1> DEFINE Goal == (watch' => watchId' \in TurnIds) /\ turns' + w1 <= Cardinality(Over') + launches'
<1>6. ASSUME UNCHANGED <<turns, launches>>, watch' => watch /\ watchId' = watchId
      PROVE  Goal
  <2>1. w1 <= w
    BY <1>4, <1>6
  <2>2. turns' + w1 <= Cardinality(Over') + launches'
    BY <1>1, <1>2, <1>3, <1>4, <1>6, <2>1
  <2>3. QED
    BY <1>6, <2>2 DEF Counted
<1>7. ASSUME NEW p \in Procs, NEW q \in Submits \cup {Task}, NEW launch \in BOOLEAN,
             NEW s \in Submits, TurnAnswered(p, q, launch, s)
      PROVE  Goal
  <2>1. /\ turn[s] \in {"start", "live"} /\ turn' = [turn EXCEPT ![s] = "over"] /\ turns' = turns + 1
        /\ Arm(launch) /\ Emit(p, q, launch)
    BY <1>7 DEF TurnAnswered, Listening
  <2>2. /\ launch => launches < MaxTasks /\ launches' = launches + 1
        /\ ~ launch => launches' = launches
    BY <2>1 DEF Emit
  <2>3. Cardinality(Over') = Cardinality(Over) + 1
    <3>1. Over' = Over \cup {s} /\ s \notin Over
      BY <1>1, <2>1 DEF Over
    <3>2. QED
      BY <1>2, <3>1, FS_AddElement
  <2>4. CASE launch /\ ~ watch
    <3>1. watchId' = turns + 2 /\ launches < MaxTasks /\ launches' = launches + 1
      BY <2>1, <2>2, <2>4 DEF Arm
    <3>2. turns + 2 \in TurnIds
      BY <3>1, Ids
    <3>3. QED
      BY <1>1, <1>2, <1>4, <2>1, <2>3, <2>4, <3>1, <3>2
  <2>5. CASE ~ (launch /\ ~ watch)
    <3>1. watch' = watch /\ watchId' = watchId
      BY <2>1, <2>5 DEF Arm
    <3>2. w1 = w
      BY <1>4, <3>1
    <3>3. launches' = launches \/ launches' = launches + 1
      BY <2>2
    <3>4. QED
      BY <1>1, <1>2, <1>4, <2>1, <2>3, <3>1, <3>2, <3>3 DEF Counted
  <2>6. QED
    BY <2>4, <2>5
<1>8. ASSUME NEW p \in Procs, NEW q \in Submits \cup {Task}, NEW launch \in BOOLEAN,
             WatchAnswered(p, q, launch)
      PROVE  Goal
  <2>1. watch /\ Emit(p, q, launch)
    BY <1>8 DEF WatchAnswered
  <2>2. /\ launch => launches < MaxTasks /\ launches' = launches + 1
        /\ ~ launch => launches' = launches
    BY <2>1 DEF Emit
  <2>3. CASE launch
    <3>1. turns' = turns + 1 /\ watchId' = turns + 2 /\ launches < MaxTasks /\ launches' = launches + 1
      BY <1>8, <2>2, <2>3 DEF WatchAnswered
    <3>2. turns + 2 \in TurnIds
      BY <3>1, Ids
    <3>3. QED
      BY <1>1, <1>2, <1>3, <1>4, <2>1, <3>1, <3>2
  <2>4. CASE ~ launch
    <3>1. ~ watch' /\ turns' \in {turns, turns + 1} /\ launches' = launches
      BY <1>8, <2>2, <2>4 DEF WatchAnswered, EndWatch
    <3>2. QED
      BY <1>1, <1>2, <1>3, <1>4, <2>1, <3>1
  <2>5. QED
    BY <2>3, <2>4
<1>9. ASSUME NEW p \in Procs, NEW q \in Submits \cup {Task}, Unheard(p, q) PROVE Goal
  BY <1>6, <1>9 DEF Unheard, Emit, sessionVars
<1>10. ASSUME NEW p \in Procs, NEW q \in Submits \cup {Task}, NEW s \in Submits, TurnRejected(p, q, s)
       PROVE  Goal
  BY <1>6, <1>10 DEF TurnRejected, Emit, sessionVars
<1>11. ASSUME NEW p \in Procs, Exit(p) PROVE Goal
  BY <1>6, <1>11 DEF Exit, EndWatch
<1>12. ASSUME NEW s \in Submits, Submit(s) \/ Enter(s) \/ Return(s) \/ ResetDone(s) \/ DrainEnd(s)
       PROVE  Goal
  BY <1>6, <1>12 DEF Submit, Enter, Return, ResetDone, DrainEnd, sessionVars, bounds
<1>13. ASSUME NEW s \in Submits, Recycle(s) \/ Begin(s) \/ IdleTimeout(s) \/ DrainLimit(s)
       PROVE  Goal
  BY <1>6, <1>13 DEF Recycle, Begin, IdleTimeout, DrainLimit, EndWatch, sessionVars, bounds
<1>14. ASSUME NEW s \in Submits, TurnStep(s) PROVE Goal
  BY <1>6, <1>14 DEF TurnStep, SpawnOk, SpawnFails, Restart, Retry, GiveUp, TurnTimeout, FlushExit, sessionVars, bounds
<1>15. CASE Backstop \/ LifeStep
  BY <1>6, <1>15 DEF Backstop, LifeStep, EndWatch, DestroySession, ShutdownAll, TearDown, Destroyed,
                     BeginShutdown, Closed, bounds
<1>16. ASSUME NEW p \in Procs, Outlive(p) \/ Drained(p) PROVE Goal
  BY <1>6, <1>16 DEF Outlive, Drained, sessionVars, bounds
<1>17. CASE UNCHANGED vars
  BY <1>6, <1>17 DEF vars, sessionVars, bounds
<1>18. QED
  BY <1>7, <1>8, <1>9, <1>10, <1>11, <1>12, <1>13, <1>14, <1>15, <1>16, <1>17
  DEF Next, SubmitStep, Results, Ending, CrashProc, StopExit, LateExit

--------------------------------------------------------------------------------
(* Every step keeps types: *)

LivesTyped == life \in {"open", "destroying", "gone", "refusing", "closing", "closed"}
BoundsTyped == /\ outlasted \in BOOLEAN /\ launches \in 0..MaxTasks /\ recycles \in 0..MaxRecycles
               /\ crashes \in 0..MaxCrashes /\ lates \in 0..MaxLate
SessionTyped == /\ pump \in BOOLEAN /\ watch \in BOOLEAN /\ handler \in Submits \cup {Watch, None}
                /\ watchId \in TurnIds \cup {None} /\ turns \in Nat
SubmitsTyped == /\ pc \in [Submits -> PCs] /\ turn \in [Submits -> States]
                /\ tries \in [Submits -> 0..MaxTries] /\ muted \subseteq Submits /\ flush \subseteq Submits
RunnerTyped == /\ proc \in Procs \cup {None} /\ up \in [Procs -> Ups]
               /\ prompts \in [Procs -> Seq(Submits)] /\ task \in [Procs -> BOOLEAN]
               /\ starting \in Submits \cup {None}
               /\ waits \in [Submits \cup {Owner} -> Procs \cup {None}]
SeenTyped == /\ ends \in [Submits -> Nat] /\ answered \in [Submits -> Submits \cup {Task, None}]
             /\ rows \in [TurnIds -> {"none", "partial", "whole"}] /\ lost \subseteq TurnIds

(* The types of all are those of the groups. *)
LEMMA TypeGroups ==
  TypeOK <=> LivesTyped /\ BoundsTyped /\ SessionTyped /\ SubmitsTyped /\ RunnerTyped /\ SeenTyped
BY DEF TypeOK, LivesTyped, BoundsTyped, SessionTyped, SubmitsTyped, RunnerTyped, SeenTyped, PCs,
       States, Ups

(* those of the owner and the bounds, *)
LEMMA LivesStep ==
  ASSUME TypeOK, [Next]_vars
  PROVE  LivesTyped' /\ BoundsTyped'
<1>1. /\ LivesTyped /\ BoundsTyped
      /\ {MaxTasks, MaxRecycles, MaxCrashes, MaxLate} \subseteq Nat
      /\ \A p \in Procs : task[p] \in BOOLEAN
  BY TypeGroups, BoundAssumption DEF RunnerTyped
<1>2. LivesTyped'
  <2>1. CASE UNCHANGED life
    BY <1>1, <2>1 DEF LivesTyped
  <2>2. CASE LifeStep
    BY <2>2 DEF LivesTyped, LifeStep, DestroySession, ShutdownAll, TearDown, Destroyed,
                BeginShutdown, Closed
  <2>3. ASSUME NEW s \in Submits, Submit(s) \/ SubmitStep(s) \/ IdleTimeout(s) PROVE UNCHANGED life
    BY <2>3 DEF SubmitStep, sessionVars, vars, Submit, Enter, DrainLimit, Recycle, Begin, Return, ResetDone,
                DrainEnd, IdleTimeout
  <2>4. ASSUME NEW s \in Submits, TurnStep(s) PROVE UNCHANGED life
    BY <2>4 DEF TurnStep, sessionVars, SpawnOk, SpawnFails, Restart, Retry, GiveUp, TurnTimeout, FlushExit
  <2>5. ASSUME NEW p \in Procs, Results(p) PROVE UNCHANGED life
    BY <2>5 DEF Results, sessionVars, TurnAnswered, TurnRejected, WatchAnswered, Unheard
  <2>6. ASSUME NEW p \in Procs, CrashProc(p) \/ Ending(p) PROVE UNCHANGED life
    BY <2>6 DEF Ending, sessionVars, CrashProc, StopExit, Outlive, LateExit, Drained, Exit
  <2>7. CASE Backstop \/ UNCHANGED vars
    BY <2>1, <2>7 DEF Backstop, vars, sessionVars
  <2>8. QED
    BY <2>1, <2>2, <2>3, <2>4, <2>5, <2>6, <2>7 DEF Next
<1>3. outlasted' \in BOOLEAN
  <2>1. CASE UNCHANGED outlasted
    BY <1>1, <2>1 DEF BoundsTyped
  <2>2. ASSUME NEW s \in Submits, DrainLimit(s) \/ IdleTimeout(s) \/ TurnTimeout(s)
        PROVE  outlasted' \in BOOLEAN
    BY <2>2 DEF DrainLimit, IdleTimeout, TurnTimeout
  <2>3. ASSUME NEW p \in Procs, NEW q, NEW s \in Submits, TurnRejected(p, q, s)
        PROVE  outlasted' \in BOOLEAN
    BY <2>3 DEF TurnRejected
  <2>4. ASSUME NEW p \in Procs, Outlive(p) PROVE outlasted' \in BOOLEAN
    BY <2>4 DEF Outlive
  <2>5. CASE Backstop
    BY <2>5 DEF Backstop
  <2>6. QED
    <3>1. CASE \E s \in Submits : Submit(s) \/ SubmitStep(s) \/ IdleTimeout(s)
      BY <2>1, <2>2, <2>3, <2>4, <2>5, <3>1
      DEF Submit, SubmitStep, Enter, Recycle, Begin, Return, ResetDone, DrainEnd
    <3>2. CASE \E s \in Submits : TurnStep(s)
      BY <2>1, <2>2, <2>3, <2>4, <2>5, <3>2
      DEF TurnStep, SpawnOk, SpawnFails, Restart, Retry, GiveUp, TurnTimeout, FlushExit
    <3>3. CASE \E p \in Procs : Results(p)
      BY ZenonT(40), <2>1, <2>2, <2>3, <2>4, <2>5, <3>3
      DEF Results, TurnAnswered, WatchAnswered, Unheard
    <3>4. CASE \E p \in Procs : CrashProc(p) \/ Ending(p)
      BY <2>1, <2>2, <2>3, <2>4, <2>5, <3>4
      DEF CrashProc, Ending, StopExit, LateExit, Drained, Exit
    <3>5. CASE Backstop \/ LifeStep \/ UNCHANGED vars
      BY <2>1, <2>2, <2>3, <2>4, <2>5, <3>5
      DEF LifeStep, DestroySession, ShutdownAll, TearDown, Destroyed, BeginShutdown, Closed, vars
    <3>6. QED
      BY <3>1, <3>2, <3>3, <3>4, <3>5 DEF Next
<1>4. launches' \in 0..MaxTasks
  <2>1. ASSUME NEW p \in Procs, NEW q, NEW launch \in BOOLEAN, Emit(p, q, launch)
        PROVE  launches' \in 0..MaxTasks
    BY <1>1, <2>1 DEF Emit, BoundsTyped
  <2>2. ASSUME NEW p \in Procs, Results(p) PROVE launches' \in 0..MaxTasks
    BY <2>1, <2>2 DEF Results, TurnAnswered, TurnRejected, WatchAnswered, Unheard
  <2>3. CASE UNCHANGED launches
    BY <1>1, <2>3 DEF BoundsTyped
  <2>4. QED
    BY <2>2, <2>3
    DEF Next, vars, bounds, SubmitStep, TurnStep, Ending, LifeStep, Submit,
        Enter, DrainLimit, Recycle, Begin, Return, ResetDone, DrainEnd, IdleTimeout, SpawnOk,
        SpawnFails, Restart, Retry, GiveUp, TurnTimeout, FlushExit, CrashProc, StopExit, Outlive, LateExit,
        Drained, Exit, Backstop, DestroySession, ShutdownAll, TearDown, Destroyed, BeginShutdown,
        Closed
<1>5. recycles' \in 0..MaxRecycles /\ crashes' \in 0..MaxCrashes /\ lates' \in 0..MaxLate
  <2>1. /\ recycles' = recycles \/ (recycles < MaxRecycles /\ recycles' = recycles + 1)
        /\ crashes' = crashes \/ (crashes < MaxCrashes /\ crashes' = crashes + 1)
        /\ lates' = lates \/ (lates < MaxLate /\ lates' = lates + 1)
    <3>1. CASE \E s \in Submits : Submit(s) \/ SubmitStep(s) \/ IdleTimeout(s)
      BY <3>1
      DEF Submit, SubmitStep, IdleTimeout, Enter, DrainLimit, Recycle, Begin, Return, ResetDone,
          DrainEnd, bounds
    <3>2. CASE \E s \in Submits : TurnStep(s)
      BY <3>2
      DEF TurnStep, SpawnOk, SpawnFails, Restart, Retry, GiveUp, TurnTimeout, FlushExit, bounds
    <3>3. CASE \E p \in Procs : Results(p)
      BY ZenonT(40), <3>3
      DEF Results, TurnAnswered, TurnRejected, WatchAnswered, Unheard, bounds
    <3>4. CASE \E p \in Procs : CrashProc(p) \/ Ending(p)
      BY <3>4
      DEF CrashProc, Ending, StopExit, Outlive, LateExit, Drained, Exit, bounds
    <3>5. CASE Backstop \/ LifeStep \/ UNCHANGED vars
      BY <3>5
      DEF Backstop, LifeStep, DestroySession, ShutdownAll, TearDown, Destroyed, BeginShutdown,
          Closed, vars, bounds
    <3>6. QED
      BY <3>1, <3>2, <3>3, <3>4, <3>5 DEF Next
  <2>2. QED
    BY <1>1, <2>1 DEF BoundsTyped
<1>6. QED
  BY <1>2, <1>3, <1>4, <1>5 DEF BoundsTyped

(* of the session, *)
LEMMA SessionStep ==
  ASSUME TypeOK, Counted, [Next]_vars
  PROVE  SessionTyped'
<1>1. SessionTyped
  BY TypeGroups
<1>2. CASE UNCHANGED sessionVars
  BY <1>1, <1>2 DEF SessionTyped, sessionVars
<1>3. CASE UNCHANGED <<pump, handler, turns>> /\ EndWatch
  BY <1>1, <1>3 DEF SessionTyped, EndWatch
<1>4. ASSUME NEW s \in Submits, Begin(s) \/ Retry(s) PROVE SessionTyped'
  <2>1. RunTurn(s) /\ UNCHANGED <<watch, watchId, turns>>
    BY <1>4 DEF Begin, Retry
  <2>2. pump' \in BOOLEAN /\ handler' \in Submits
    BY <2>1, RunTurnTyped
  <2>3. QED
    BY <1>1, <2>1, <2>2 DEF SessionTyped
<1>5. ASSUME NEW p \in Procs, NEW q, NEW launch \in BOOLEAN, NEW s \in Submits,
             TurnAnswered(p, q, launch, s)
      PROVE  SessionTyped'
  <2>1. pump' = pump /\ turns' = turns + 1 /\ Arm(launch) /\ Emit(p, q, launch)
    BY <1>5 DEF TurnAnswered
  <2>2. launch => turns + 2 \in TurnIds
    BY <2>1, Ids DEF Emit
  <2>3. CASE launch /\ ~ watch
    <3>1. watch' = TRUE /\ watchId' = turns + 2 /\ handler' = Watch
      BY <1>5, <2>1, <2>3 DEF Arm, TurnAnswered
    <3>2. turns' \in Nat
      BY <1>1, <2>1 DEF SessionTyped
    <3>3. QED
      BY <1>1, <2>1, <2>2, <2>3, <3>1, <3>2 DEF SessionTyped
  <2>4. CASE ~ (launch /\ ~ watch)
    <3>1. UNCHANGED <<watch, watchId, handler>>
      BY <2>1, <2>4 DEF Arm
    <3>2. turns' \in Nat
      BY <1>1, <2>1 DEF SessionTyped
    <3>3. QED
      BY <1>1, <2>1, <3>1, <3>2 DEF SessionTyped
  <2>5. QED
    BY <2>3, <2>4
<1>6. ASSUME NEW p \in Procs, NEW q, NEW launch \in BOOLEAN, WatchAnswered(p, q, launch)
      PROVE  SessionTyped'
  <2>1. UNCHANGED <<pump, handler>> /\ turns' \in {turns, turns + 1} /\ Emit(p, q, launch)
    BY <1>6 DEF WatchAnswered
  <2>2. turns' \in Nat
    BY <1>1, <2>1 DEF SessionTyped
  <2>3. launch => turns + 2 \in TurnIds
    BY <2>1, Ids DEF Emit
  <2>4. (launch /\ watch' = TRUE /\ watchId' = turns + 2) \/ EndWatch
    BY <1>6 DEF WatchAnswered
  <2>5. QED
    BY <1>1, <2>1, <2>2, <2>3, <2>4 DEF SessionTyped, EndWatch
<1>7. ASSUME NEW p \in Procs, Exit(p) PROVE SessionTyped'
  <2>1. UNCHANGED <<pump, handler, turns>> /\ (EndWatch \/ UNCHANGED <<watch, watchId>>)
    BY <1>7 DEF Exit
  <2>2. QED
    BY <1>1, <2>1 DEF SessionTyped, EndWatch
<1>8. CASE DestroySession \/ ShutdownAll
  <2>1. EndWatch /\ pump' = FALSE /\ handler' = None /\ UNCHANGED turns
    BY <1>8 DEF DestroySession, ShutdownAll, TearDown
  <2>2. QED
    BY <1>1, <2>1 DEF SessionTyped, EndWatch
<1>9. CASE Destroyed \/ BeginShutdown \/ Closed
  BY <1>1, <1>9 DEF SessionTyped, Destroyed, BeginShutdown, Closed
<1>10. QED
  <2>1. CASE \E s \in Submits : Submit(s) \/ SubmitStep(s) \/ IdleTimeout(s)
    BY <1>2, <1>3, <1>4, <1>5, <1>6, <1>7, <1>8, <1>9, <2>1
    DEF Submit, SubmitStep, IdleTimeout, Enter, DrainLimit, Recycle, Return, ResetDone, DrainEnd
  <2>2. CASE \E s \in Submits : TurnStep(s)
    BY <1>2, <1>3, <1>4, <1>5, <1>6, <1>7, <1>8, <1>9, <2>2
    DEF TurnStep, SpawnOk, SpawnFails, Restart, GiveUp, TurnTimeout, FlushExit
  <2>3. CASE \E p \in Procs : Results(p)
    BY <1>2, <1>3, <1>4, <1>5, <1>6, <1>7, <1>8, <1>9, <2>3
    DEF Results, TurnRejected, Unheard
  <2>4. CASE \E p \in Procs : CrashProc(p) \/ Ending(p)
    BY <1>2, <1>3, <1>4, <1>5, <1>6, <1>7, <1>8, <1>9, <2>4
    DEF CrashProc, Ending, StopExit, Outlive, LateExit, Drained
  <2>5. CASE Backstop \/ LifeStep \/ UNCHANGED vars
    BY <1>2, <1>3, <1>4, <1>5, <1>6, <1>7, <1>8, <1>9, <2>5
    DEF Backstop, LifeStep, vars
  <2>6. QED
    BY <2>1, <2>2, <2>3, <2>4, <2>5 DEF Next

(* of the submits, *)
LEMMA SubmitsStep ==
  ASSUME TypeOK, [Next]_vars
  PROVE  SubmitsTyped'
<1>1. SubmitsTyped
  BY TypeGroups
<1>2. CASE UNCHANGED submitVars
  BY <1>1, <1>2 DEF SubmitsTyped, submitVars
<1>3. ASSUME NEW s \in Submits, NEW x \in PCs, pc' = [pc EXCEPT ![s] = x], UNCHANGED <<turn, tries, flush>>,
             muted' \subseteq muted \cup {s}
      PROVE  SubmitsTyped'
  BY <1>1, <1>3 DEF SubmitsTyped
<1>4. ASSUME NEW s \in Submits,
             Submit(s) \/ Enter(s) \/ Recycle(s) \/ Return(s) \/ ResetDone(s) \/ DrainEnd(s) \/ IdleTimeout(s)
      PROVE  SubmitsTyped'
  <2>1. UNCHANGED <<turn, tries, flush>> /\ muted' \subseteq muted \cup {s}
    BY <1>4 DEF Submit, Enter, Recycle, Return, ResetDone, DrainEnd, IdleTimeout
  <2>2. PICK x \in PCs : pc' = [pc EXCEPT ![s] = x]
    BY <1>4 DEF Submit, Enter, Recycle, Return, ResetDone, DrainEnd, IdleTimeout, PCs
  <2>3. QED
    BY <1>3, <2>1, <2>2
<1>5. ASSUME NEW s \in Submits, Begin(s) PROVE SubmitsTyped'
  <2>1. turn' \in [Submits -> States] /\ pc' \in [Submits -> PCs] /\ UNCHANGED <<tries, muted, flush>>
    BY <1>1, <1>5, RunTurnTyped DEF Begin, SubmitsTyped, PCs
  <2>2. QED
    BY <1>1, <2>1 DEF SubmitsTyped
<1>6. ASSUME NEW s \in Submits, Retry(s) PROVE SubmitsTyped'
  <2>1. turn' \in [Submits -> States] /\ UNCHANGED <<pc, muted, flush>>
    BY <1>6, RunTurnTyped DEF Retry
  <2>2. tries[s] + 1 \in 0..MaxTries
    <3>1. MaxTries \in Nat
      BY BoundAssumption
    <3>2. QED
      BY <1>1, <1>6, <3>1 DEF Retry, TriesLeft, SubmitsTyped
  <2>3. tries' \in [Submits -> 0..MaxTries]
    BY <1>1, <1>6, <2>2 DEF Retry, SubmitsTyped
  <2>4. QED
    BY <1>1, <2>1, <2>3 DEF SubmitsTyped
<1>7. ASSUME NEW s \in Submits, NEW x \in States, turn' = [turn EXCEPT ![s] = x],
             UNCHANGED <<pc, tries, muted>>, flush' \subseteq flush
      PROVE  SubmitsTyped'
  BY <1>1, <1>7 DEF SubmitsTyped
<1>8. ASSUME NEW s \in Submits, SpawnOk(s) \/ SpawnFails(s) \/ Restart(s) \/ GiveUp(s) \/ TurnTimeout(s) \/ FlushExit(s)
      PROVE  SubmitsTyped'
  <2>1. UNCHANGED <<pc, tries, muted>> /\ flush' \subseteq flush
    BY <1>8 DEF SpawnOk, SpawnFails, Restart, GiveUp, TurnTimeout, FlushExit
  <2>2. turn[s] \in States
    BY <1>1 DEF SubmitsTyped
  <2>3. PICK x \in States : turn' = [turn EXCEPT ![s] = x]
    <3>1. CASE SpawnOk(s)
      BY <2>2, <3>1 DEF SpawnOk, States
    <3>2. CASE SpawnFails(s) \/ Restart(s) \/ GiveUp(s) \/ TurnTimeout(s) \/ FlushExit(s)
      BY <3>2 DEF SpawnFails, Restart, GiveUp, TurnTimeout, FlushExit, States
    <3>3. QED
      BY <1>8, <3>1, <3>2
  <2>4. QED
    BY <1>7, <2>1, <2>3
<1>9. ASSUME NEW p \in Procs, NEW q, NEW launch, NEW s \in Submits,
             TurnAnswered(p, q, launch, s) \/ TurnRejected(p, q, s)
      PROVE  SubmitsTyped'
  <2>1. UNCHANGED <<pc, tries, muted>> /\ flush' \subseteq flush
    BY <1>9 DEF TurnAnswered, TurnRejected, sessionVars
  <2>2. PICK x \in States : turn' = [turn EXCEPT ![s] = x]
    BY <1>9 DEF TurnAnswered, TurnRejected, States
  <2>3. QED
    BY <1>7, <2>1, <2>2
<1>10. ASSUME NEW p \in Procs, Exit(p) PROVE SubmitsTyped'
  BY <1>1, <1>10 DEF Exit, SubmitsTyped
<1>11. QED
  BY <1>2, <1>4, <1>5, <1>6, <1>8, <1>9, <1>10
  DEF Next, vars, SubmitStep, TurnStep, Results, Ending, LifeStep, DrainLimit, WatchAnswered, Unheard,
      CrashProc, StopExit, Outlive, LateExit, Drained, Backstop, DestroySession, ShutdownAll,
      TearDown, Destroyed, BeginShutdown, Closed

(* of the runner, *)
LEMMA RunnerStep ==
  ASSUME TypeOK, [Next]_vars
  PROVE  RunnerTyped'
<1>1. RunnerTyped
  BY TypeGroups
<1>2. CASE UNCHANGED runnerVars
  BY <1>1, <1>2 DEF RunnerTyped, runnerVars
<1>3. ASSUME NEW w \in Submits \cup {Owner}, Stop(w), UNCHANGED <<proc, prompts, task, starting>>
      PROVE  RunnerTyped'
  BY <1>1, <1>3, Stops DEF RunnerTyped
<1>4. ASSUME NEW w \in Submits \cup {Owner}, StopReturns(w), UNCHANGED <<proc, up, prompts, task, starting>>
      PROVE  RunnerTyped'
  BY <1>1, <1>4 DEF RunnerTyped, StopReturns
<1>5. ASSUME NEW s \in Submits, Recycle(s) \/ IdleTimeout(s) \/ Restart(s) PROVE RunnerTyped'
  BY <1>3, <1>5 DEF Recycle, IdleTimeout, HardReset, Restart
<1>6. ASSUME NEW s \in Submits, ResetDone(s) \/ GiveUp(s) PROVE RunnerTyped'
  BY <1>4, <1>6 DEF ResetDone, GiveUp
<1>7. ASSUME NEW s \in Submits, Begin(s) \/ Retry(s) PROVE RunnerTyped'
  <2>1. RunTurn(s) /\ UNCHANGED <<proc, up, task>>
    BY <1>7 DEF Begin, Retry
  <2>2. prompts' \in [Procs -> Seq(Submits)] /\ starting' \in Submits \cup {None}
    BY <1>1, <2>1, RunTurnTyped DEF RunnerTyped
  <2>3. waits' \in [Submits \cup {Owner} -> Procs \cup {None}]
    BY <1>1, <1>7 DEF Begin, Retry, StopReturns, RunnerTyped
  <2>4. QED
    BY <1>1, <2>1, <2>2, <2>3 DEF RunnerTyped
<1>8. ASSUME NEW s \in Submits, SpawnOk(s) PROVE RunnerTyped'
  <2> DEFINE p == CHOOSE r \in Procs : Free(r)
  <2>1. /\ p \in Procs /\ proc' = p /\ up' = [up EXCEPT ![p] = "up"]
        /\ prompts' = [prompts EXCEPT ![p] = <<s>>] /\ task' = [task EXCEPT ![p] = FALSE]
        /\ starting' = None /\ waits' = waits
    BY <1>8 DEF SpawnOk
  <2> HIDE DEF p
  <2>2. <<s>> \in Seq(Submits)
    OBVIOUS
  <2>3. QED
    BY <1>1, <2>1, <2>2 DEF RunnerTyped, Ups
<1>9. ASSUME NEW s \in Submits, SpawnFails(s) PROVE RunnerTyped'
  BY <1>1, <1>9 DEF SpawnFails, RunnerTyped
<1>10. ASSUME NEW p \in Procs, Results(p) PROVE RunnerTyped'
  <2>1. PICK q \in Submits \cup {Task}, launch \in BOOLEAN :
          Emit(p, q, launch) /\ UNCHANGED <<proc, up, starting, waits>>
    BY <1>10 DEF Results, TurnAnswered, TurnRejected, WatchAnswered, Unheard
  <2>2. prompts' \in [Procs -> Seq(Submits)]
    <3>1. prompts[p] \in Seq(Submits)
      BY <1>1 DEF RunnerTyped
    <3>2. prompts[p] # <<>> => Tail(prompts[p]) \in Seq(Submits)
      BY <3>1
    <3>3. QED
      BY <1>1, <2>1, <3>2 DEF Emit, RunnerTyped
  <2>3. task' \in [Procs -> BOOLEAN]
    BY <1>1, <2>1 DEF Emit, RunnerTyped
  <2>4. QED
    BY <1>1, <2>1, <2>2, <2>3 DEF RunnerTyped
<1>11. ASSUME NEW p \in Procs, Exit(p) PROVE RunnerTyped'
  <2>1. /\ up' = [up EXCEPT ![p] = IF prompts[p] = <<>> THEN "none" ELSE "out"] /\ proc' = None
        /\ task' = [task EXCEPT ![p] = FALSE] /\ UNCHANGED <<prompts, starting, waits>>
    BY <1>11 DEF Exit
  <2>2. QED
    BY <1>1, <2>1 DEF RunnerTyped, Ups
<1>12. ASSUME NEW p \in Procs, Outlive(p) PROVE RunnerTyped'
  BY <1>1, <1>12 DEF Outlive, RunnerTyped, Ups
<1>13. ASSUME NEW p \in Procs, Drained(p) PROVE RunnerTyped'
  <2>1. <<>> \in Seq(Submits)
    OBVIOUS
  <2>2. QED
    BY <1>1, <1>13, <2>1 DEF Drained, RunnerTyped, Ups
<1>14. CASE DestroySession \/ ShutdownAll
  BY <1>3, <1>14 DEF DestroySession, ShutdownAll, TearDown
<1>15. CASE Destroyed \/ Closed
  BY <1>4, <1>15 DEF Destroyed, Closed
<1>16. QED
  BY <1>2, <1>5, <1>6, <1>7, <1>8, <1>9, <1>10, <1>11, <1>12, <1>13, <1>14, <1>15
  DEF Next, vars, SubmitStep, TurnStep, Ending, LifeStep, Submit, Enter, DrainLimit, Return, DrainEnd,
      TurnTimeout, FlushExit, CrashProc, StopExit, LateExit, Backstop, BeginShutdown

(* and of what clients and the store have got. *)
LEMMA SeenStep ==
  ASSUME TypeOK, Counted, [Next]_vars
  PROVE  SeenTyped'
<1>1. SeenTyped
  BY TypeGroups
<1>2. CASE UNCHANGED seenVars
  BY <1>1, <1>2 DEF SeenTyped, seenVars
<1>3. ASSUME NEW s \in Submits, IdleTimeout(s) PROVE SeenTyped'
  BY <1>1, <1>3 DEF IdleTimeout, SeenTyped
<1>4. ASSUME NEW s \in Submits, Begin(s) \/ Retry(s) PROVE SeenTyped'
  BY <1>1, <1>4, RunTurnTyped DEF Begin, Retry, SeenTyped
<1>5. ASSUME NEW s \in Submits, SpawnFails(s) \/ GiveUp(s) \/ TurnTimeout(s) PROVE SeenTyped'
  BY <1>1, <1>5, Tell DEF SpawnFails, GiveUp, TurnTimeout, SeenTyped
<1>6. ASSUME NEW s \in Submits, FlushExit(s) PROVE SeenTyped'
  <2>1. ends' \in [Submits -> Nat] /\ answered' = answered
    BY <1>6, Tell DEF FlushExit
  <2>2. rows' \in [TurnIds -> {"none", "partial", "whole"}] /\ lost' \subseteq TurnIds
    BY <1>1, <1>6, Ids, Stored DEF FlushExit, SeenTyped
  <2>3. QED
    BY <1>1, <2>1, <2>2 DEF SeenTyped
<1>7. ASSUME NEW p \in Procs, NEW q \in Submits \cup {Task}, NEW launch, NEW s \in Submits,
             TurnAnswered(p, q, launch, s)
      PROVE  SeenTyped'
  <2>1. ends' \in [Submits -> Nat] /\ answered' = [answered EXCEPT ![s] = q]
    BY <1>7, Tell DEF TurnAnswered
  <2>2. rows' \in [TurnIds -> {"none", "partial", "whole"}] /\ lost' \subseteq TurnIds
    BY <1>7, Ids, Stored DEF TurnAnswered
  <2>3. QED
    BY <1>1, <2>1, <2>2 DEF SeenTyped
<1>8. ASSUME NEW p \in Procs, NEW q, NEW launch, WatchAnswered(p, q, launch) PROVE SeenTyped'
  <2>1. ends' = ends /\ answered' = answered /\ watch
    BY <1>8 DEF WatchAnswered
  <2>2. rows' \in [TurnIds -> {"none", "partial", "whole"}] /\ lost' \subseteq TurnIds
    <3>1. watchId \in TurnIds
      BY <2>1 DEF Counted
    <3>2. QED
      BY <1>1, <1>8, <3>1, Stored DEF WatchAnswered, SeenTyped
  <2>3. QED
    BY <1>1, <2>1, <2>2 DEF SeenTyped
<1>9. ASSUME NEW p \in Procs, Exit(p) PROVE SeenTyped'
  <2>1. ends' = ends /\ answered' = answered
    BY <1>9 DEF Exit
  <2>2. rows' \in [TurnIds -> {"none", "partial", "whole"}] /\ lost' \subseteq TurnIds
    <3>1. CASE UNCHANGED <<rows, lost>>
      BY <1>1, <3>1 DEF SeenTyped
    <3>2. CASE watch /\ Store(watchId, "partial")
      BY <3>2, Stored DEF Counted
    <3>3. QED
      BY <1>9, <3>1, <3>2 DEF Exit
  <2>3. QED
    BY <1>1, <2>1, <2>2 DEF SeenTyped
<1>10. QED
  BY <1>2, <1>3, <1>4, <1>5, <1>6, <1>7, <1>8, <1>9
  DEF Next, vars, SubmitStep, TurnStep, Results, Ending, LifeStep, Submit, Enter, DrainLimit, Recycle,
      Return, ResetDone, DrainEnd, SpawnOk, Restart, TurnRejected, Unheard, CrashProc, StopExit,
      LateExit, Outlive, Drained, Backstop, DestroySession, ShutdownAll, TearDown, Destroyed,
      BeginShutdown, Closed

--------------------------------------------------------------------------------
(* The theorems. *)

(* The invariant holds at first. *)
LEMMA InvInit == Init => IInv
<1> SUFFICES ASSUME Init PROVE IInv
  OBVIOUS
<1>1. TypeOK
  <2>1. /\ {MaxSubmits, MaxTries, MaxTasks, MaxRecycles, MaxCrashes, MaxLate} \subseteq Nat
        /\ <<>> \in Seq(Submits)
    BY BoundAssumption
  <2>2. LivesTyped /\ SessionTyped /\ BoundsTyped
    <3>1. LivesTyped
      BY DEF Init, LivesTyped
    <3>2. SessionTyped
      BY DEF Init, SessionTyped
    <3>3. 0 \in 0..MaxTasks /\ 0 \in 0..MaxRecycles /\ 0 \in 0..MaxCrashes /\ 0 \in 0..MaxLate
      BY <2>1
    <3>4. BoundsTyped
      BY <3>3 DEF Init, BoundsTyped
    <3>5. QED
      BY <3>1, <3>2, <3>4
  <2>3. SubmitsTyped
    BY <2>1 DEF Init, SubmitsTyped, PCs, States
  <2>4. RunnerTyped
    BY <2>1 DEF Init, RunnerTyped, Ups
  <2>5. SeenTyped
    BY DEF Init, SeenTyped
  <2>6. QED
    BY <2>2, <2>3, <2>4, <2>5, TypeGroups
<1>2. Lined /\ Informed
  BY Names DEF Init, Lined, Informed
<1>3. Counted
  <2>1. Over = {}
    BY DEF Init, Over
  <2>2. Cardinality(Over) = 0
    BY <2>1, FS_EmptySet
  <2>3. QED
    BY <2>2 DEF Init, Counted
<1>4. Clean
  BY Names DEF Init, Clean, Seated, OneMachine, Stopping, Asked, Tasks, Watching, Numbered, Own, Kept,
               Engaged
<1>5. QED
  BY <1>1, <1>2, <1>3, <1>4 DEF IInv, Lasting

(* As long as nothing outlasts its timer, every step keeps the turns apart. *)
LEMMA CleanStep ==
  ASSUME TypeOK, Lasting, Clean, [Next]_vars, ~ outlasted'
  PROVE  Clean'
<1>1. CASE UNCHANGED vars
  BY <1>1 DEF vars, sessionVars, submitVars, runnerVars, seenVars, Clean, Seated, OneMachine, Stopping,
              Asked, Tasks, Watching, Numbered, Own, Kept, Engaged
<1>2. ASSUME NEW s \in Submits, Submit(s) \/ SubmitStep(s) \/ IdleTimeout(s) PROVE Clean'
  BY <1>2, LockClean, WatchGoneClean, RecycleClean, BeginClean, ResetClean, IdleClean DEF SubmitStep
<1>3. ASSUME NEW s \in Submits, TurnStep(s) PROVE Clean'
  BY <1>3, SpawnClean, FailClean, RestartClean, RetryClean, FlushClean DEF TurnStep, TurnTimeout
<1>4. ASSUME NEW p \in Procs, Results(p) PROVE Clean'
  BY <1>4, AnsweredClean, WatchClean, RejectedClean, UnheardClean DEF Results
<1>5. ASSUME NEW p \in Procs, CrashProc(p) \/ Ending(p) PROVE Clean'
  <2>1. CASE CrashProc(p) \/ StopExit(p) \/ LateExit(p)
    BY <2>1, ExitClean DEF CrashProc, StopExit, LateExit
  <2>2. ~ Outlive(p)
    BY DEF Outlive
  <2>3. QED
    BY <1>5, <2>1, <2>2, DrainedClean DEF Ending
<1>6. CASE Backstop
  BY <1>6, WatchGoneClean
<1>7. CASE LifeStep
  BY <1>7, TearDownClean, OwnerClean DEF LifeStep, DestroySession, ShutdownAll
<1>8. QED
  BY <1>1, <1>2, <1>3, <1>4, <1>5, <1>6, <1>7 DEF Next

(* What has outlasted its timer once is not forgotten. *)
LEMMA OutlastedStays ==
  ASSUME [Next]_vars, outlasted
  PROVE  outlasted'
<1>1. CASE UNCHANGED outlasted
  BY <1>1
<1>2. ASSUME NEW s \in Submits, DrainLimit(s) \/ IdleTimeout(s) PROVE outlasted'
  BY <1>2 DEF DrainLimit, IdleTimeout
<1>3. ASSUME NEW s \in Submits, Submit(s) \/ SubmitStep(s) PROVE outlasted'
  BY <1>1, <1>2, <1>3 DEF SubmitStep, Submit, Enter, Recycle, Begin, Return, ResetDone, DrainEnd
<1>4. ASSUME NEW s \in Submits, TurnStep(s) PROVE outlasted'
  BY <1>1, <1>4 DEF TurnStep, SpawnOk, SpawnFails, Restart, Retry, GiveUp, TurnTimeout, FlushExit
<1>5. ASSUME NEW p \in Procs, Results(p) PROVE outlasted'
  BY <1>1, <1>5 DEF Results, TurnAnswered, TurnRejected, WatchAnswered, Unheard
<1>6. ASSUME NEW p \in Procs, CrashProc(p) \/ Ending(p) PROVE outlasted'
  BY <1>1, <1>6 DEF Ending, CrashProc, StopExit, Outlive, LateExit, Drained
<1>7. CASE Backstop \/ UNCHANGED vars
  BY <1>7 DEF Backstop, vars
<1>8. CASE LifeStep
  BY <1>1, <1>8 DEF LifeStep, DestroySession, ShutdownAll, TearDown, Destroyed, BeginShutdown, Closed
<1>9. QED
  BY <1>2, <1>3, <1>4, <1>5, <1>6, <1>7, <1>8 DEF Next

(* The inductive invariant holds in every state of a session. *)
THEOREM TurnInvariance == Spec => []IInv
<1>1. IInv /\ [Next]_vars => IInv'
  <2> SUFFICES ASSUME IInv, [Next]_vars PROVE IInv'
    OBVIOUS
  <2>1. TypeOK'
    <3>1. /\ LivesTyped' /\ BoundsTyped' /\ SessionTyped' /\ SubmitsTyped' /\ RunnerTyped'
          /\ SeenTyped'
      BY LivesStep, SessionStep, SubmitsStep, RunnerStep, SeenStep DEF IInv, Lasting
    <3>2. QED
      BY <3>1 DEF TypeOK, LivesTyped, BoundsTyped, SessionTyped, SubmitsTyped, RunnerTyped, SeenTyped,
                  PCs, States, Ups
  <2>2. Lasting'
    BY LinedStep, InformedStep, CountedStep DEF IInv, Lasting
  <2>3. ~ outlasted' => Clean'
    BY OutlastedStays, CleanStep DEF IInv
  <2>4. QED
    BY <2>1, <2>2, <2>3 DEF IInv
<1>2. QED
  BY InvInit, <1>1, PTL DEF Spec

(* The variables of the session, its submits, its processes and its store keep
   their types; in particular there is an id for every answer. *)
THEOREM TurnTypes == Spec => []TypeOK
BY TurnInvariance, PTL DEF IInv

(* A message ends once, and before submit() returns, whatever the process does:
   submit, runOneTurnWithRetry, the idle timeout and the deferred exit. *)
THEOREM MessagesEndOnce == Spec => []EndsOnce
<1>1. IInv => EndsOnce
  BY DEF IInv, Lasting, Informed, Clean, Seated, EndsOnce
<1>2. QED
  BY TurnInvariance, <1>1, PTL

(* Each turn is ended by the answer to its own prompt, unless a timer gave up on
   something that went on. *)
THEOREM AnswersAreOwn == Spec => []OwnAnswer
<1>1. IInv => OwnAnswer
  BY DEF IInv, Clean, Own, OwnAnswer
<1>2. QED
  BY TurnInvariance, <1>1, PTL

(* With the same proviso one turn at a time talks to the runner, and a process
   has one prompt at a time to answer. *)
THEOREM TurnsAreSerial == Spec => []OneTurn
<1>1. IInv => OneTurn
  <2> SUFFICES ASSUME IInv, ~ outlasted PROVE OneTurn
    BY DEF OneTurn
  <2>1. \A s, t \in Submits : Listening(s) /\ Listening(t) => s = t
    BY OneEngaged DEF IInv, Lasting, Clean, Listening, Engaged
  <2>2. ASSUME NEW p \in Procs PROVE Len(prompts[p]) <= 1
    <3>1. prompts[p] = <<>> \/ \E s \in Submits : prompts[p] = <<s>>
      BY DEF IInv, Clean, Asked
    <3>2. CASE prompts[p] = <<>>
      BY <3>2
    <3>3. ASSUME NEW s \in Submits, prompts[p] = <<s>> PROVE Len(prompts[p]) <= 1
      <4>1. Len(<<s>>) = 1
        OBVIOUS
      <4>2. QED
        BY <3>3, <4>1
    <3>4. QED
      BY <3>1, <3>2, <3>3
  <2>3. QED
    BY <2>1, <2>2 DEF OneTurn
<1>2. QED
  BY TurnInvariance, <1>1, PTL

(* With the same proviso an answer is refused by the store only where the fragment
   of an interrupted turn has its id. *)
THEOREM WholeAnswersAreKept == Spec => []AnswersKept
<1>1. IInv => AnswersKept
  BY DEF IInv, Clean, Kept, AnswersKept
<1>2. QED
  BY TurnInvariance, <1>1, PTL

================================================================================
