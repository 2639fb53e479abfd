--------------------------------- MODULE Cron ----------------------------------
(***************************************************************************)
(* The scheduler of recurring jobs and reminders (cron.ts).  Jobs are kept  *)
(* in one YAML file that the tick of the scheduler, the HTTP API and the    *)
(* agents (task.created, task.deleted) all read whole, change and write     *)
(* whole, with awaits in between; when a job ran last is kept in a second   *)
(* file that the tick alone writes.  A tick runs its jobs one after the     *)
(* other, each as a turn of an agent that may take many minutes.            *)
(*                                                                          *)
(* A schedule is not evaluated: a tick finds any of the jobs due.  Output   *)
(* files, alerts and the delivery of a result are left out.                 *)
(***************************************************************************)
EXTENDS Naturals, FiniteSets

CONSTANTS
  Jobs,        \* ids of jobs
  Defaults,    \* built-in jobs (DEFAULT_JOBS) of the latest release
  OneShots,    \* reminders: they fire once
  Callers,     \* requests of the API and of agents, each in its own time
  Tick,        \* the tick of the scheduler
  None,        \* nothing
  Untouched,   \* said of a built-in job that is not there yet
  MaxMinutes,  \* bound: minutes that pass
  MaxEdits,    \* bound: requests
  MaxCrashes,  \* bound: ends of the process
  MaxFaults    \* bound: reads and writes of a file that fail

ASSUME CronAssumption ==
  /\ Defaults \subseteq Jobs
  /\ OneShots \subseteq Jobs \ Defaults
  /\ Tick \notin Callers /\ None # Untouched
  /\ {MaxMinutes, MaxEdits, MaxCrashes, MaxFaults} \subseteq Nat

VARIABLES
  file,      \* cron.yaml: jobs and disabledDefaults (None: a file of old)
  saved,     \* last-run.json: the minute in which a job ran last
  proc,      \* the process: "up", "closing", "down"
  builtIn,   \* DEFAULT_JOBS of the code that runs
  now,       \* the minute
  due,       \* the timer of the tick has fired
  pc,        \* where the tick and the callers are
  base,      \* the file as each of them has read it
  req,       \* what a caller wants
  held,      \* the jobs as the tick has read them
  todo,      \* those that are due and not yet run
  cur,       \* the one that runs
  mem,       \* the tick's copy of last-run.json (between ticks: as the file)
  minute,    \* minuteKey of the tick
  (* history *)
  wanted,    \* the last edit of each job that was acknowledged
  fired,     \* successful runs of each job
  allowed,   \* how often a reminder may fire
  runs,      \* runs of each job for each minute
  forgotten, \* those whose record was not kept, or not read
  lost,      \* an edit was written over by someone who had not read it
  edits, crashes, faults

fileVars == <<file, saved>>
procVars == <<proc, builtIn, now, due>>
tickVars == <<held, todo, cur, mem, minute>>
runVars  == <<fired, runs, forgotten>>
bounds   == <<edits, crashes, faults>>
vars     == <<fileVars, procVars, pc, base, req, tickVars, wanted, allowed, runVars, lost, bounds>>

Minutes == 1..(MaxMinutes + 1)
Job == [ver : 0..MaxEdits, on : BOOLEAN]
New == [ver |-> 0, on |-> TRUE]
CronFile == [jobs : [Jobs -> Job \cup {None}],
             disabled : (SUBSET Defaults) \cup {None}]
Request == [op : {"list", "add", "remove"}, job : Jobs]
           \cup [op : {"update"}, job : Jobs, on : BOOLEAN]

(* Nothing is no job, no id of one and no set of them, and what is said of a
   built-in job that is not there is no job either. *)
ASSUME NameAssumption ==
  /\ None \notin Jobs /\ None \notin Job /\ \A D \in SUBSET Defaults : None # D
  /\ Untouched \notin Job

(* The file, its copies and the history have their types. *)
TypeOK ==
  /\ file \in CronFile
  /\ saved \in [Jobs -> Minutes \cup {0}] /\ mem \in [Jobs -> Minutes \cup {0}]
  /\ proc \in {"up", "closing", "down"} /\ builtIn \subseteq Defaults
  /\ now \in Minutes /\ minute \in Minutes \cup {0} /\ due \in BOOLEAN
  /\ pc \in [Callers \cup {Tick} ->
             {"idle", "read", "merge", "work", "loop", "run", "reread", "remerge", "burn",
              "flush"}]
  /\ base \in [Callers \cup {Tick} -> CronFile \cup {None}]
  /\ \A c \in Callers : req[c] \in Request \cup {None}
  /\ held \in [Jobs -> Job \cup {None}]
  /\ todo \subseteq Jobs /\ cur \in Jobs \cup {None}
  /\ wanted \in [Jobs -> Job \cup {None, Untouched}]
  /\ fired \in [Jobs -> Nat] /\ allowed \in [Jobs -> Nat]
  /\ runs \in [Jobs -> [Minutes -> Nat]] /\ forgotten \in [Jobs -> [Minutes -> Nat]]
  /\ lost \in BOOLEAN

NoJobs == [i \in Jobs |-> None]
Idle == [p \in Callers \cup {Tick} |-> "idle"]

(* The first release has some of the built-in jobs.  The file is as it has
   written it, or an old one without disabledDefaults from which the user has
   deleted some of them. *)
Init ==
  /\ builtIn \in SUBSET Defaults
  /\ file \in {[jobs |-> [i \in Jobs |-> IF i \in builtIn THEN New ELSE None], disabled |-> {}]}
              \cup {[jobs |-> [i \in Jobs |-> IF i \in kept THEN New ELSE None],
                     disabled |-> None] : kept \in SUBSET builtIn}
  /\ wanted = [i \in Jobs |-> IF i \in Defaults \ builtIn THEN Untouched ELSE file.jobs[i]]
  /\ saved = [i \in Jobs |-> 0] /\ mem = [i \in Jobs |-> 0]
  /\ proc = "up"
  /\ now = 1 /\ due = TRUE /\ minute = 0
  /\ pc = Idle
  /\ base = [p \in Callers \cup {Tick} |-> None]
  /\ req = [c \in Callers |-> None]
  /\ held = NoJobs /\ todo = {} /\ cur = None
  /\ fired = [i \in Jobs |-> 0] /\ allowed = [i \in Jobs |-> 0]
  /\ runs = [i \in Jobs |-> [m \in Minutes |-> 0]]
  /\ forgotten = runs
  /\ lost = FALSE
  /\ edits = 0 /\ crashes = 0 /\ faults = 0

------------------------------------------------------------------------------
(* The file.                                                                *)

(* mergeDefaultCronJobs: what is missing from an old file was deleted by the
   user; what is missing from a newer one was, if the file says so, and comes
   with a new release otherwise. *)
Merge(f) ==
  IF f.disabled = None
  THEN [f EXCEPT !.disabled = {i \in builtIn : f.jobs[i] = None}]
  ELSE [f EXCEPT !.jobs = [i \in Jobs |->
          IF i \in builtIn \ f.disabled /\ f.jobs[i] = None THEN New ELSE f.jobs[i]]]

(* atomicWriteYaml, by someone who has read the file as it was then: what
   others wrote since is lost. *)
Write(p, f) ==
  /\ file' = f
  /\ lost' = (lost \/ base[p] # file)

(* ensureCronFile: the file is read and, if built-in jobs are to be added or
   recorded, written. *)
EnsureCronFile(p) ==
  /\ pc[p] \in {"read", "reread"}
  /\ base' = [base EXCEPT ![p] = file]
  /\ pc' = [pc EXCEPT ![p] =
       IF Merge(file) # file THEN (IF @ = "read" THEN "merge" ELSE "remerge")
                             ELSE (IF @ = "read" THEN "work" ELSE "burn")]
  /\ UNCHANGED <<fileVars, procVars, req, tickVars, wanted, allowed, runVars, lost, bounds>>

WriteMerged(p) ==
  /\ pc[p] \in {"merge", "remerge"}
  /\ Write(p, Merge(base[p]))
  /\ base' = [base EXCEPT ![p] = Merge(@)]
  /\ pc' = [pc EXCEPT ![p] = IF @ = "merge" THEN "work" ELSE "burn"]
  /\ UNCHANGED <<saved, procVars, req, tickVars, wanted, allowed, runVars, bounds>>

(* A file that cannot be read, or written as merged, counts as an empty one. *)
ReadFails(p) ==
  /\ pc[p] \in {"read", "merge", "reread", "remerge"}
  /\ faults < MaxFaults
  /\ faults' = faults + 1
  /\ base' = [base EXCEPT ![p] = [jobs |-> NoJobs, disabled |-> None]]
  /\ pc' = [pc EXCEPT ![p] = IF @ \in {"read", "merge"} THEN "work" ELSE "burn"]
  /\ UNCHANGED <<fileVars, procVars, req, tickVars, wanted, allowed, runVars, lost, edits, crashes>>

------------------------------------------------------------------------------
(* Requests.                                                                *)

(* Nobody uses the name of a built-in job before there is one. *)
Ask(c) ==
  /\ proc = "up" /\ pc[c] = "idle" /\ edits < MaxEdits
  /\ \E r \in Request :
       r.job \notin Defaults \ builtIn /\ req' = [req EXCEPT ![c] = r]
  /\ pc' = [pc EXCEPT ![c] = "read"]
  /\ edits' = edits + 1
  /\ UNCHANGED <<fileVars, procVars, base, tickVars, wanted, allowed, runVars, lost, crashes, faults>>

Done(c) ==
  /\ pc[c] = "work"
  /\ pc' = [pc EXCEPT ![c] = "idle"]
  /\ base' = [base EXCEPT ![c] = None]
  /\ req' = [req EXCEPT ![c] = None]
  /\ UNCHANGED <<saved, procVars, tickVars, runVars, bounds>>

Found(c) == base[c].jobs[req[c].job] # None

(* The edit of a job is written and acknowledged. *)
Edited(c, job, disabled) ==
  LET i == req[c].job IN
  /\ Write(c, [jobs |-> [base[c].jobs EXCEPT ![i] = job], disabled |-> disabled])
  /\ wanted' = [wanted EXCEPT ![i] = job]
  /\ allowed' = [allowed EXCEPT ![i] =
       IF job # None /\ job.on /\ (Found(c) => ~ base[c].jobs[i].on) THEN @ + 1 ELSE @]

(* addJob replaces a job of the same id. *)
AddJob(c) ==
  /\ Done(c)
  /\ req[c].op = "add"
  /\ Edited(c, [ver |-> edits, on |-> TRUE],
            IF base[c].disabled = None THEN None ELSE base[c].disabled \ {req[c].job})

(* Slip: the deletion of a built-in job leaves no trace. *)
TombstonesSlip(c) == base[c].disabled
Tombstones(c) ==
  IF req[c].job \in builtIn
  THEN {req[c].job} \cup (IF base[c].disabled = None THEN {} ELSE base[c].disabled)
  ELSE base[c].disabled

RemoveJob(c) ==
  /\ Done(c)
  /\ req[c].op = "remove"
  /\ Found(c)
  /\ Edited(c, None, Tombstones(c))

UpdateJob(c) ==
  /\ Done(c)
  /\ req[c].op = "update"
  /\ Found(c)
  /\ Edited(c, [ver |-> edits, on |-> req[c].on], base[c].disabled)

(* listJobs, edits of a job that is not there, and any whose write fails. *)
NoEdit(c) ==
  /\ Done(c)
  /\ UNCHANGED <<file, wanted, allowed, lost>>

------------------------------------------------------------------------------
(* The tick.                                                                *)

MinutePasses ==
  /\ now <= MaxMinutes /\ ~ due
  /\ now' = now + 1
  /\ due' = (proc = "up")
  /\ UNCHANGED <<fileVars, proc, builtIn, pc, base, req, tickVars, wanted, allowed, runVars, lost,
                 bounds>>

(* The timer finds no tick running, or skips this one. *)
TickStarts ==
  /\ due /\ due' = FALSE
  /\ pc' = [pc EXCEPT ![Tick] = IF @ = "idle" THEN "read" ELSE @]
  /\ UNCHANGED <<fileVars, proc, builtIn, now, base, req, tickVars, wanted, allowed, runVars, lost,
                 bounds>>

(* loadLastRun: of a file that cannot be read or parsed nothing is known. *)
LoadLastRun ==
  \/ mem' = saved /\ UNCHANGED <<forgotten, faults>>
  \/ /\ faults < MaxFaults
     /\ faults' = faults + 1
     /\ mem' = [i \in Jobs |-> 0]
     /\ forgotten' = [i \in Jobs |-> [m \in Minutes |->
          forgotten[i][m] + IF m = now /\ saved[i] = now THEN 1 ELSE 0]]

(* Reminders that are switched off are deleted, and the jobs that are due
   are determined. *)
Completed(f) == {i \in OneShots : f.jobs[i] # None /\ ~ f.jobs[i].on}

Cleanup ==
  /\ pc[Tick] = "work"
  /\ LET done == Completed(base[Tick])
         jobs == [i \in Jobs |-> IF i \in done THEN None ELSE base[Tick].jobs[i]]
     IN  /\ IF done = {} THEN UNCHANGED <<file, lost>>
                         ELSE Write(Tick, [base[Tick] EXCEPT !.jobs = jobs])
         /\ held' = jobs
         /\ todo' \in SUBSET {i \in Jobs : jobs[i] # None /\ jobs[i].on}
  /\ LoadLastRun /\ minute' = now
  /\ pc' = [pc EXCEPT ![Tick] = "loop"]
  /\ base' = [base EXCEPT ![Tick] = None]
  /\ UNCHANGED <<saved, procVars, req, cur, wanted, allowed, fired, runs, edits, crashes>>

(* The agents cannot be read, or the file without the reminders not written:
   the tick throws. *)
TickAborts ==
  /\ pc[Tick] = "work"
  /\ faults < MaxFaults
  /\ faults' = faults + 1
  /\ pc' = [pc EXCEPT ![Tick] = "idle"]
  /\ base' = [base EXCEPT ![Tick] = None]
  /\ UNCHANGED <<fileVars, procVars, req, tickVars, wanted, allowed, runVars, lost, edits, crashes>>

(* Slip: whether the job has run in this minute is not asked. *)
HasRunSlip(i) == FALSE
HasRun(i) == mem[i] = minute

Skip(i) ==
  /\ pc[Tick] = "loop" /\ i \in todo /\ HasRun(i)
  /\ todo' = todo \ {i}
  /\ UNCHANGED <<fileVars, procVars, pc, base, req, held, cur, mem, minute, wanted, allowed, runVars,
                 lost, bounds>>

RunJob(i) ==
  /\ pc[Tick] = "loop" /\ i \in todo /\ ~ HasRun(i)
  /\ todo' = todo \ {i} /\ cur' = i
  /\ runs' = [runs EXCEPT ![i][minute] = @ + 1]
  /\ pc' = [pc EXCEPT ![Tick] = "run"]
  /\ UNCHANGED <<fileVars, procVars, base, req, held, mem, minute, wanted, allowed, fired, forgotten,
                 lost, bounds>>

Recorded ==
  /\ mem' = [mem EXCEPT ![cur] = minute]
  /\ cur' = None
  /\ pc' = [pc EXCEPT ![Tick] = "loop"]

(* The turn throws or says nothing.  A reminder keeps its shot. *)
RunFails ==
  /\ pc[Tick] = "run"
  /\ Recorded
  /\ UNCHANGED <<fileVars, procVars, base, req, held, todo, minute, wanted, allowed, runVars, lost,
                 bounds>>

RunSucceeds ==
  /\ pc[Tick] = "run" /\ proc = "up"
  /\ fired' = [fired EXCEPT ![cur] = @ + 1]
  /\ IF cur \in OneShots
     THEN /\ pc' = [pc EXCEPT ![Tick] = "reread"]
          /\ UNCHANGED <<mem, cur>>
     ELSE Recorded
  /\ UNCHANGED <<fileVars, procVars, base, req, held, todo, minute, wanted, allowed, runs, forgotten,
                 lost, bounds>>

(* Slip: the reminder that has fired is switched off in the tick's copy only. *)
BurntSlip(f) == f
(* saveCronFile: the job as it was when the tick began, switched off, takes
   the place of what the file has now. *)
Burnt(f) == IF f.jobs[cur] = None THEN f
                                  ELSE [f EXCEPT !.jobs[cur] = [held[cur] EXCEPT !.on = FALSE]]

SaveOneShot ==
  /\ pc[Tick] = "burn"
  /\ file' = Burnt(base[Tick])
  /\ lost' = (lost \/ base[Tick] # file \/ file.jobs[cur] \notin {None, held[cur]})
  /\ Recorded
  /\ base' = [base EXCEPT ![Tick] = None]
  /\ UNCHANGED <<saved, procVars, req, held, todo, minute, wanted, allowed, runVars, bounds>>

(* The write fails: runJob throws, the tick goes no further, and nothing is
   recorded of this job. *)
SaveFails ==
  /\ pc[Tick] = "burn"
  /\ faults < MaxFaults
  /\ faults' = faults + 1
  /\ pc' = [pc EXCEPT ![Tick] = "flush"]
  /\ forgotten' = [forgotten EXCEPT ![cur][minute] = @ + 1]
  /\ allowed' = [allowed EXCEPT ![cur] = @ + 1]
  /\ cur' = None /\ todo' = {}
  /\ base' = [base EXCEPT ![Tick] = None]
  /\ UNCHANGED <<fileVars, procVars, req, held, mem, minute, wanted, fired, runs, lost, edits, crashes>>

(* What the tick has run, or is running, and last-run.json does not know of:
   the tick's copy is given up. *)
Unsaved(i) == i = cur \/ (mem[i] = minute /\ saved[i] # minute)

Forget ==
  /\ mem' = saved
  /\ forgotten' = [i \in Jobs |-> [m \in Minutes |->
       forgotten[i][m] + IF m = minute /\ Unsaved(i) THEN 1 ELSE 0]]

(* saveLastRun, if a job has run: the write may fail, and the tick throws. *)
SaveLastRun ==
  \/ (\E i \in Jobs : mem[i] = minute) /\ saved' = mem /\ UNCHANGED <<mem, forgotten, faults>>
  \/ /\ \E i \in Jobs : mem[i] = minute
     /\ faults < MaxFaults
     /\ faults' = faults + 1
     /\ Forget /\ UNCHANGED saved
  \/ (\A i \in Jobs : mem[i] # minute) /\ mem' = saved /\ UNCHANGED <<saved, forgotten, faults>>

(* Outcomes are kept at the end of the tick. *)
TickEnds ==
  /\ pc[Tick] = "flush" \/ (pc[Tick] = "loop" /\ todo = {})
  /\ SaveLastRun
  /\ held' = NoJobs /\ todo' = {} /\ minute' = 0
  /\ pc' = [pc EXCEPT ![Tick] = "idle"]
  /\ UNCHANGED <<file, procVars, base, req, cur, wanted, allowed, fired, runs, lost, edits, crashes>>

------------------------------------------------------------------------------
(* The process.                                                             *)

(* stop() ends the timers, not the tick: its turns fail from now on. *)
Stop ==
  /\ proc = "up" /\ crashes < MaxCrashes
  /\ proc' = "closing" /\ due' = FALSE
  /\ UNCHANGED <<fileVars, builtIn, now, pc, base, req, tickVars, wanted, allowed, runVars, lost, bounds>>

(* What the tick had run and not kept is forgotten; a reminder that has fired
   and is not switched off will fire again. *)
Exit ==
  /\ proc # "down" /\ crashes < MaxCrashes
  /\ crashes' = crashes + 1
  /\ proc' = "down" /\ due' = FALSE
  /\ pc' = Idle
  /\ base' = [p \in Callers \cup {Tick} |-> None]
  /\ req' = [c \in Callers |-> None]
  /\ held' = NoJobs /\ todo' = {} /\ cur' = None /\ minute' = 0
  /\ Forget
  /\ allowed' = [i \in Jobs |->
       allowed[i] + IF i = cur /\ pc[Tick] \in {"reread", "remerge", "burn"} THEN 1 ELSE 0]
  /\ UNCHANGED <<fileVars, builtIn, now, wanted, fired, runs, lost, edits, faults>>

(* The scheduler starts, with a tick soon after, perhaps of a later release. *)
Start ==
  /\ proc = "down"
  /\ proc' = "up" /\ due' = TRUE
  /\ builtIn' \in {builtIn, Defaults}
  /\ UNCHANGED <<fileVars, now, pc, base, req, tickVars, wanted, allowed, runVars, lost, bounds>>

Next ==
  \/ \E p \in Callers \cup {Tick} : EnsureCronFile(p) \/ WriteMerged(p) \/ ReadFails(p)
  \/ \E c \in Callers :
       Ask(c) \/ AddJob(c) \/ RemoveJob(c) \/ UpdateJob(c) \/ NoEdit(c)
  \/ \E i \in Jobs : Skip(i) \/ RunJob(i)
  \/ MinutePasses \/ TickStarts \/ Cleanup \/ TickAborts \/ RunFails \/ RunSucceeds
  \/ SaveOneShot \/ SaveFails \/ TickEnds
  \/ Stop \/ Exit \/ Start

Spec == Init /\ [][Next]_vars

------------------------------------------------------------------------------
(* Properties.                                                              *)

(* "Dedupe: don't run twice in the same minute": a job runs twice for a
   minute only if its record did not get into last-run.json (the process
   ended, the tick threw or the write failed) or was not read back. *)
OncePerMinute ==
  \A i \in Jobs : \A m \in Minutes : runs[i][m] <= 1 + forgotten[i][m]

(* The file says what the users have asked for, unless one of the writers had
   not read what another wrote: what was deleted stays deleted, through new
   releases too, what was added or changed stays so, and a reminder is
   switched off or deleted only if its user did that or it has fired. *)
EditsStick ==
  ~ lost =>
    \A i \in Jobs :
      \/ wanted[i] \in {Untouched, file.jobs[i]}
      \/ /\ i \in OneShots /\ wanted[i] # None
         /\ wanted[i].on => fired[i] > 0
         /\ file.jobs[i] \in {None, [wanted[i] EXCEPT !.on = FALSE]}

(* A reminder fires once each time it is added or switched on, and once more
   if the process ended or a write failed before it was switched off. *)
FiresOnce == ~ lost => \A i \in OneShots : fired[i] <= allowed[i]

================================================================================
