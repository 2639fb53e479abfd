------------------------------- MODULE Cron_proofs -------------------------------
(* What the run of Cron shows for a built-in job and a reminder, for any jobs, *)
(* callers, minutes, edits, crashes and failing reads and writes.             *)
EXTENDS Cron, TLAPS

--------------------------------------------------------------------------------
(* The inductive invariant. *)

Processes == Callers \cup {Tick}

(* Where the tick stands: inside one, at a job, past the success of a reminder
   that the file does not know of. *)
InTick  == pc[Tick] \in {"loop", "run", "reread", "remerge", "burn", "flush"}
AtJob   == pc[Tick] \in {"run", "reread", "remerge", "burn"}
Burning == pc[Tick] \in {"reread", "remerge", "burn"}

(* What a caller or the tick is at decides what it holds: a file that was read
   and merged has its tombstones, and one that could not be read has no jobs. *)
Stationed ==
  /\ req \in [Callers -> Request \cup {None}] /\ edits \in 0..MaxEdits
  /\ \A c \in Callers :
       /\ pc[c] \in {"idle", "read", "merge", "work"}
       /\ pc[c] # "idle" => req[c] \in Request /\ req[c].job \notin Defaults \ builtIn
  /\ \A p \in Processes :
       /\ pc[p] \in {"merge", "work", "remerge", "burn"} => base[p] \in CronFile
       /\ pc[p] \in {"work", "burn"} /\ base[p].disabled = None => base[p].jobs = NoJobs
  /\ AtJob <=> cur \in Jobs
  /\ Burning => cur \in OneShots /\ fired[cur] > 0
  /\ InTick <=> minute # 0
  /\ cur \notin todo
  /\ \A i \in todo \cup ({cur} \cap Jobs) : held[i] # None

(* The minutes for which a job may still be run. *)
Floor == IF minute # 0 THEN minute ELSE now

(* A run for one of these minutes is at hand, recorded, or forgotten; a record
   of the tick's copy is the file's, this minute's, or was not read. *)
Accounted ==
  /\ minute <= now
  /\ \A i \in Jobs : mem[i] <= Floor /\ mem[i] \in {0, saved[i], minute} /\ saved[i] <= now
  /\ ~ InTick => mem = saved
  /\ \A i \in Jobs, m \in Minutes :
       m >= Floor /\ mem[i] # m /\ ~ (cur = i /\ m = minute) => runs[i][m] <= forgotten[i][m]
  /\ OncePerMinute

(* A job the tick has yet to run, or has running. *)
Armed(i) == i \in todo \/ (i = cur /\ pc[Tick] = "run")
On(f, i) == f.jobs[i] # None /\ f.jobs[i].on

(* As long as no edit was lost, a reminder that is on, or that the tick has
   taken up or read as on, may fire once more than it has; one that has fired
   and is not switched off yet may not. *)
MayFire(i) ==
  \/ On(file, i) /\ ~ (i = cur /\ Burning)
  \/ Armed(i)
  \/ pc[Tick] \in {"merge", "work"} /\ On(base[Tick], i)

Credited ==
  ~ lost =>
    \A i \in OneShots :
      fired[i] <= allowed[i] /\ (MayFire(i) => fired[i] + 1 <= allowed[i])

(* A built-in job that the file neither has nor counts as deleted is one the
   user has never seen, and so is one of a later release. *)
Traced ==
  /\ \A i \in Defaults \ builtIn : wanted[i] = Untouched
  /\ ~ lost /\ file.disabled # None =>
       \A i \in builtIn \ file.disabled : file.jobs[i] = None => wanted[i] = Untouched

IInv == TypeOK /\ Stationed /\ Accounted /\ Credited /\ Traced /\ EditsStick

--------------------------------------------------------------------------------
(* The file. *)

(* Merging the built-in jobs gives a file that has its tombstones; of the jobs
   it touches only built-in ones that are neither there nor deleted. *)
LEMMA MergeTyped ==
  ASSUME NEW f \in CronFile, builtIn \subseteq Defaults
  PROVE  /\ Merge(f) \in CronFile /\ Merge(f).disabled # None
         /\ \A i \in OneShots : Merge(f).jobs[i] = f.jobs[i]
         /\ \A i \in Jobs :
              \/ Merge(f).jobs[i] = f.jobs[i]
              \/ i \in builtIn \ f.disabled /\ f.disabled # None /\ f.jobs[i] = None
         /\ \A i \in builtIn \ Merge(f).disabled : Merge(f).jobs[i] # None
<1>1. New \in Job /\ New # None
  <2>1. MaxEdits \in Nat
    BY CronAssumption
  <2>2. New \in Job
    BY <2>1 DEF New, Job
  <2>3. QED
    BY <2>2, NameAssumption
<1> USE CronAssumption, NameAssumption DEF CronFile
<1>2. CASE f.disabled = None
  <2>1. Merge(f) = [f EXCEPT !.disabled = {i \in builtIn : f.jobs[i] = None}]
    BY <1>2 DEF Merge
  <2>2. {i \in builtIn : f.jobs[i] = None} \in SUBSET Defaults
    OBVIOUS
  <2>3. Merge(f).jobs = f.jobs /\ Merge(f).disabled = {i \in builtIn : f.jobs[i] = None}
    BY <2>1
  <2>4. Merge(f) \in CronFile
    BY <2>1, <2>2
  <2>5. QED
    BY <2>2, <2>3, <2>4
<1>3. CASE f.disabled # None
  <2> DEFINE jobs == [i \in Jobs |-> IF i \in builtIn \ f.disabled /\ f.jobs[i] = None THEN New
                                                                                 ELSE f.jobs[i]]
  <2>1. Merge(f) = [f EXCEPT !.jobs = jobs]
    BY <1>3 DEF Merge
  <2>2. jobs \in [Jobs -> Job \cup {None}]
    BY <1>1
  <2>3. Merge(f).jobs = jobs /\ Merge(f).disabled = f.disabled /\ Merge(f) \in CronFile
    BY <2>1, <2>2
  <2>4. OneShots \subseteq Jobs /\ \A i \in OneShots : i \notin builtIn
    OBVIOUS
  <2>5. QED
    BY <1>1, <1>3, <2>3, <2>4
<1>4. QED
  BY <1>2, <1>3

(* The edit of a request writes one job into the file as the caller has read
   it; a tombstone goes only with the job that is added, and comes with the
   built-in job that is removed. *)
EditOf(c, job, disabled) ==
  /\ Done(c) /\ Edited(c, job, disabled)
  /\ base[c] \in CronFile /\ req[c] \in Request /\ req[c].job \notin Defaults \ builtIn
  /\ job \in Job \cup {None} /\ disabled \in (SUBSET Defaults) \cup {None}
  /\ disabled # None =>
       /\ base[c].disabled # None
       /\ \A i \in base[c].disabled : i \in disabled \/ i = req[c].job
       /\ job = None /\ req[c].job \in builtIn => req[c].job \in disabled

(* The three edits are of this kind. *)
LEMMA EditShape ==
  ASSUME TypeOK, Stationed, NEW c \in Callers, AddJob(c) \/ RemoveJob(c) \/ UpdateJob(c)
  PROVE  \E job \in Job \cup {None}, disabled \in (SUBSET Defaults) \cup {None} :
           EditOf(c, job, disabled)
<1>1. pc[c] = "work" /\ Done(c)
  BY DEF AddJob, RemoveJob, UpdateJob, Done
<1>2. /\ base[c] \in CronFile /\ req[c] \in Request /\ req[c].job \notin Defaults \ builtIn
      /\ req[c].job \in Jobs /\ base[c].disabled \in (SUBSET Defaults) \cup {None}
  BY <1>1 DEF Stationed, Processes, CronFile, Request
<1>3. Found(c) => base[c].disabled # None
  <2>1. base[c].disabled = None => base[c].jobs = NoJobs
    BY <1>1 DEF Stationed, Processes
  <2>2. QED
    BY <1>2, <2>1 DEF Found, NoJobs
<1>4. CASE AddJob(c)
  <2> DEFINE disabled == IF base[c].disabled = None THEN None ELSE base[c].disabled \ {req[c].job}
             job == [ver |-> edits, on |-> TRUE]
  <2>1. job \in Job /\ job # None
    <3>1. edits \in 0..MaxEdits
      BY DEF Stationed
    <3>2. job \in Job
      BY <3>1 DEF Job
    <3>3. QED
      BY <3>2, NameAssumption
  <2>2. disabled \in (SUBSET Defaults) \cup {None}
    BY <1>2
  <2>3. Edited(c, job, disabled)
    BY <1>4 DEF AddJob
  <2> HIDE DEF job
  <2>4. EditOf(c, job, disabled)
    BY <1>1, <1>2, <2>1, <2>2, <2>3 DEF EditOf
  <2>5. QED
    BY <2>1, <2>2, <2>4
<1>5. CASE RemoveJob(c)
  <2>1. Edited(c, None, Tombstones(c)) /\ base[c].disabled # None
    BY <1>3, <1>5 DEF RemoveJob
  <2>2. /\ Tombstones(c) \in SUBSET Defaults
        /\ base[c].disabled \subseteq Tombstones(c)
        /\ req[c].job \in builtIn => req[c].job \in Tombstones(c)
    <3>0. builtIn \subseteq Defaults
      BY DEF TypeOK
    <3>1. base[c].disabled \subseteq Defaults
      BY <1>2, <2>1
    <3>2. Tombstones(c) = base[c].disabled \cup (IF req[c].job \in builtIn THEN {req[c].job} ELSE {})
      BY <2>1 DEF Tombstones
    <3>3. QED
      BY <3>0, <3>1, <3>2
  <2>3. EditOf(c, None, Tombstones(c))
    BY <1>1, <1>2, <2>1, <2>2 DEF EditOf
  <2>4. QED
    BY <2>2, <2>3
<1>6. CASE UpdateJob(c)
  <2> DEFINE job == [ver |-> edits, on |-> req[c].on]
  <2>1. req[c].on \in BOOLEAN
    BY <1>2, <1>6 DEF UpdateJob, Request
  <2>2. job \in Job /\ job # None
    <3>1. edits \in 0..MaxEdits
      BY DEF Stationed
    <3>2. job \in Job
      BY <2>1, <3>1 DEF Job
    <3>3. QED
      BY <3>2, NameAssumption
  <2>3. Edited(c, job, base[c].disabled) /\ base[c].disabled # None
    BY <1>3, <1>6 DEF UpdateJob
  <2> HIDE DEF job
  <2>4. EditOf(c, job, base[c].disabled)
    BY <1>1, <1>2, <2>2, <2>3 DEF EditOf
  <2>5. QED
    BY <1>2, <2>2, <2>4
<1>7. QED
  BY <1>4, <1>5, <1>6

(* The file an edit leaves behind. *)
LEMMA EditTyped ==
  ASSUME NEW c \in Callers, NEW job, NEW disabled, EditOf(c, job, disabled)
  PROVE  /\ file' \in CronFile /\ file'.disabled = disabled /\ req[c].job \in Jobs
         /\ file'.jobs[req[c].job] = job
         /\ \A i \in Jobs \ {req[c].job} : file'.jobs[i] = base[c].jobs[i]
<1> DEFINE jobs == [base[c].jobs EXCEPT ![req[c].job] = job]
<1>1. file' = [jobs |-> jobs, disabled |-> disabled]
  BY DEF EditOf, Edited, Write
<1>2. base[c].jobs \in [Jobs -> Job \cup {None}] /\ req[c].job \in Jobs
  BY DEF EditOf, CronFile, Request
<1>3. jobs \in [Jobs -> Job \cup {None}]
  BY <1>2 DEF EditOf
<1>4. jobs[req[c].job] = job /\ \A i \in Jobs \ {req[c].job} : jobs[i] = base[c].jobs[i]
  BY <1>2
<1>5. disabled \in (SUBSET Defaults) \cup {None}
  BY DEF EditOf
<1> HIDE DEF jobs
<1>6. QED
  BY <1>1, <1>2, <1>3, <1>4, <1>5 DEF CronFile

--------------------------------------------------------------------------------
(* Types and places. *)

(* The invariant holds at first. *)
LEMMA InvInit == Init => IInv
<1> SUFFICES ASSUME Init PROVE IInv
  OBVIOUS
<1>1. MaxMinutes \in Nat /\ MaxEdits \in Nat /\ 1 \in Minutes
  <2>1. MaxMinutes \in Nat /\ MaxEdits \in Nat
    BY CronAssumption
  <2>2. QED
    BY <2>1 DEF Minutes
<1>2. New \in Job /\ New # None
  <2>1. New \in Job
    BY <1>1 DEF New, Job
  <2>2. QED
    BY <2>1, NameAssumption
<1> USE CronAssumption, NameAssumption
<1>3. builtIn \subseteq Defaults
  BY DEF Init
<1>4. /\ file \in CronFile
      /\ file.disabled # None => \A i \in builtIn : file.jobs[i] # None
  <2>1. ASSUME NEW kept \in SUBSET builtIn
        PROVE  [i \in Jobs |-> IF i \in kept THEN New ELSE None] \in [Jobs -> Job \cup {None}]
    BY <1>2
  <2>2. CASE file = [jobs |-> [i \in Jobs |-> IF i \in builtIn THEN New ELSE None], disabled |-> {}]
    BY <1>2, <1>3, <2>1, <2>2 DEF CronFile
  <2>3. ASSUME NEW kept \in SUBSET builtIn,
               file = [jobs |-> [i \in Jobs |-> IF i \in kept THEN New ELSE None],
                       disabled |-> None]
        PROVE  file \in CronFile /\ file.disabled = None
    BY <2>1, <2>3 DEF CronFile
  <2>4. QED
    BY <2>2, <2>3 DEF Init
<1>5. wanted \in [Jobs -> Job \cup {None, Untouched}]
  BY <1>4 DEF Init, CronFile
<1>6. TypeOK
  BY <1>1, <1>4, <1>5 DEF Init, TypeOK, Idle, NoJobs, Minutes
<1>7. Stationed
  BY <1>1 DEF Init, Stationed, Idle, Processes, AtJob, Burning, InTick
<1>8. Accounted
  BY <1>1 DEF Init, Accounted, OncePerMinute, Floor, InTick
<1>9. Traced
  <2>1. \A i \in Defaults \ builtIn : wanted[i] = Untouched
    BY DEF Init
  <2>2. QED
    BY <1>4, <2>1 DEF Traced
<1>10. EditsStick
  BY DEF Init, EditsStick
<1>11. Credited
  <2>1. ASSUME NEW i \in OneShots PROVE file.jobs[i] = None
    BY <2>1, <1>3 DEF Init
  <2>2. QED
    BY <2>1 DEF Init, Credited, MayFire, On, Armed, Idle
<1>12. QED
  BY <1>6, <1>7, <1>8, <1>9, <1>10, <1>11 DEF IInv

(* Every step keeps the file and its copies typed; who has merged the file has
   its tombstones. *)
LEMMA FileStep ==
  ASSUME TypeOK, Stationed, [Next]_vars
  PROVE  /\ file' \in CronFile /\ base' \in [Processes -> CronFile \cup {None}]
         /\ lost' \in BOOLEAN /\ (lost => lost')
         /\ \A p \in Processes :
              /\ pc'[p] \in {"merge", "work", "remerge", "burn"} => base'[p] \in CronFile
              /\ pc'[p] \in {"work", "burn"} /\ base'[p].disabled = None => base'[p].jobs = NoJobs
<1> DEFINE Fits == \A p \in Processes :
             /\ pc'[p] \in {"merge", "work", "remerge", "burn"} => base'[p] \in CronFile
             /\ pc'[p] \in {"work", "burn"} /\ base'[p].disabled = None => base'[p].jobs = NoJobs
           Typed == /\ file' \in CronFile /\ base' \in [Processes -> CronFile \cup {None}]
                    /\ lost' \in BOOLEAN /\ (lost => lost') /\ Fits
<1>1. /\ file \in CronFile /\ base \in [Processes -> CronFile \cup {None}]
      /\ pc \in [Processes -> {"idle", "read", "merge", "work", "loop", "run", "reread", "remerge",
                               "burn", "flush"}]
      /\ lost \in BOOLEAN /\ builtIn \subseteq Defaults /\ Tick \in Processes
      /\ Callers \subseteq Processes
  BY DEF TypeOK, Processes
<1>2. \A p \in Processes :
        /\ pc[p] \in {"merge", "work", "remerge", "burn"} => base[p] \in CronFile
        /\ pc[p] \in {"work", "burn"} /\ base[p].disabled = None => base[p].jobs = NoJobs
  BY DEF Stationed
<1>3. ASSUME NEW p \in Processes, EnsureCronFile(p) PROVE Typed
  <2>1. /\ UNCHANGED <<file, lost>> /\ base' = [base EXCEPT ![p] = file]
        /\ pc'[p] \in {"work", "burn"} => file.disabled # None
        /\ \A r \in Processes \ {p} : pc'[r] = pc[r]
    BY <1>1, <1>3, MergeTyped DEF EnsureCronFile, fileVars
  <2>2. QED
    BY <1>1, <1>2, <2>1
<1>4. ASSUME NEW p \in Processes, WriteMerged(p) PROVE Typed
  <2>1. Merge(base[p]) \in CronFile /\ Merge(base[p]).disabled # None
    BY <1>1, <1>2, <1>4, MergeTyped DEF WriteMerged
  <2>2. /\ file' = Merge(base[p]) /\ lost' \in BOOLEAN /\ (lost => lost')
        /\ base' = [base EXCEPT ![p] = Merge(base[p])]
        /\ \A r \in Processes \ {p} : pc'[r] = pc[r]
    BY <1>1, <1>4 DEF WriteMerged, Write
  <2>3. QED
    BY <1>1, <1>2, <2>1, <2>2
<1>5. ASSUME NEW p \in Processes, ReadFails(p) PROVE Typed
  <2> DEFINE empty == [jobs |-> NoJobs, disabled |-> None]
  <2>1. empty \in CronFile /\ empty.jobs = NoJobs
    BY DEF CronFile, NoJobs
  <2>2. /\ UNCHANGED <<file, lost>> /\ base' = [base EXCEPT ![p] = empty]
        /\ \A r \in Processes \ {p} : pc'[r] = pc[r]
    BY <1>1, <1>5 DEF ReadFails, fileVars
  <2> HIDE DEF empty
  <2>3. QED
    BY <1>1, <1>2, <2>1, <2>2
<1>6. ASSUME NEW c \in Callers, Done(c), file' \in CronFile, lost' \in BOOLEAN, lost => lost'
      PROVE  Typed
  BY <1>1, <1>2, <1>6 DEF Done
<1>7. ASSUME NEW c \in Callers, AddJob(c) \/ RemoveJob(c) \/ UpdateJob(c) PROVE Typed
  <2>1. PICK job \in Job \cup {None}, disabled \in (SUBSET Defaults) \cup {None} :
          EditOf(c, job, disabled)
    BY <1>7, EditShape
  <2>2. Done(c) /\ file' \in CronFile
    BY <2>1, EditTyped DEF EditOf
  <2>3. lost' \in BOOLEAN /\ (lost => lost')
    BY <1>1, <2>1 DEF EditOf, Edited, Write
  <2>4. QED
    BY <1>6, <2>2, <2>3
<1>8. ASSUME NEW c \in Callers, NoEdit(c) PROVE Typed
  BY <1>1, <1>6, <1>8 DEF NoEdit
<1>9. ASSUME NEW c \in Callers, Ask(c) PROVE Typed
  BY <1>1, <1>2, <1>9 DEF Ask, fileVars
<1>10. CASE Cleanup
  <2> DEFINE jobs == [i \in Jobs |-> IF i \in Completed(base[Tick]) THEN None ELSE base[Tick].jobs[i]]
  <2>1. base[Tick] \in CronFile
    BY <1>1, <1>2, <1>10 DEF Cleanup
  <2>2. jobs \in [Jobs -> Job \cup {None}]
    BY <2>1 DEF CronFile
  <2>3. [base[Tick] EXCEPT !.jobs = jobs] \in CronFile
    BY <2>1, <2>2 DEF CronFile
  <2>4. /\ file' \in CronFile /\ lost' \in BOOLEAN /\ (lost => lost')
        /\ base' = [base EXCEPT ![Tick] = None] /\ pc' = [pc EXCEPT ![Tick] = "loop"]
    BY <1>1, <1>10, <2>3 DEF Cleanup, Write
  <2>5. QED
    BY <1>1, <1>2, <2>4
<1>11. CASE SaveOneShot
  <2>1. pc[Tick] = "burn" /\ base[Tick] \in CronFile /\ cur \in Jobs /\ held[cur] \in Job
    BY <1>1, <1>2, <1>11 DEF SaveOneShot, Stationed, AtJob, TypeOK
  <2>2. [held[cur] EXCEPT !.on = FALSE] \in Job
    BY <2>1 DEF Job
  <2>3. [base[Tick] EXCEPT !.jobs[cur] = [held[cur] EXCEPT !.on = FALSE]] \in CronFile
    BY <2>1, <2>2 DEF CronFile
  <2>4. Burnt(base[Tick]) \in CronFile
    BY <2>1, <2>3 DEF Burnt
  <2>5. /\ file' \in CronFile /\ lost' \in BOOLEAN /\ (lost => lost')
        /\ base' = [base EXCEPT ![Tick] = None] /\ pc' = [pc EXCEPT ![Tick] = "loop"]
    BY <1>1, <1>11, <2>4 DEF SaveOneShot, Recorded
  <2>6. QED
    BY <1>1, <1>2, <2>5
<1>12. CASE SaveFails
  BY <1>1, <1>2, <1>12 DEF SaveFails, fileVars
<1>13. CASE Exit
  <2>1. /\ UNCHANGED <<file, lost>> /\ base' = [p \in Processes |-> None]
        /\ \A p \in Processes : pc'[p] = "idle"
    BY <1>13 DEF Exit, Idle, fileVars, Processes
  <2>2. QED
    BY <1>1, <2>1
<1>14. ASSUME UNCHANGED <<file, base, lost>>,
              \/ UNCHANGED pc
              \/ \E point \in {"read", "loop", "run", "reread", "idle"} :
                   pc' = [pc EXCEPT ![Tick] = IF @ = "idle" \/ point # "read" THEN point ELSE @]
       PROVE  Typed
  BY <1>1, <1>2, <1>14
<1>15. ASSUME NEW i \in Jobs, Skip(i) \/ RunJob(i) PROVE Typed
  BY <1>14, <1>15 DEF Skip, RunJob, fileVars
<1>16. CASE TickStarts \/ RunFails \/ RunSucceeds \/ TickEnds
  BY <1>14, <1>16 DEF TickStarts, RunFails, RunSucceeds, TickEnds, Recorded, fileVars
<1>17. CASE MinutePasses \/ Stop \/ Start \/ UNCHANGED vars
  BY <1>14, <1>17 DEF MinutePasses, Stop, Start, vars, fileVars
<1>18. CASE TickAborts
  BY <1>1, <1>2, <1>18 DEF TickAborts, fileVars
<1>19. QED
  BY <1>3, <1>4, <1>5, <1>7, <1>8, <1>9, <1>10, <1>11, <1>12, <1>13, <1>15, <1>16, <1>17, <1>18
  DEF Next, Processes

(* Every step keeps the requests and the places of their callers. *)
LEMMA CallerStep ==
  ASSUME TypeOK, Stationed, [Next]_vars
  PROVE  /\ req' \in [Callers -> Request \cup {None}] /\ edits' \in 0..MaxEdits
         /\ \A c \in Callers :
              /\ pc'[c] \in {"idle", "read", "merge", "work"}
              /\ pc'[c] # "idle" => req'[c] \in Request /\ req'[c].job \notin Defaults \ builtIn'
<1> DEFINE Place(c) == /\ pc'[c] \in {"idle", "read", "merge", "work"}
                       /\ pc'[c] # "idle" =>
                            req'[c] \in Request /\ req'[c].job \notin Defaults \ builtIn'
           Placed == /\ req' \in [Callers -> Request \cup {None}] /\ edits' \in 0..MaxEdits
                     /\ \A c \in Callers : Place(c)
<1>1. /\ req \in [Callers -> Request \cup {None}] /\ edits \in 0..MaxEdits /\ MaxEdits \in Nat
      /\ \A c \in Callers :
           /\ pc[c] \in {"idle", "read", "merge", "work"}
           /\ pc[c] # "idle" => req[c] \in Request /\ req[c].job \notin Defaults \ builtIn
  BY CronAssumption DEF Stationed
<1>2. /\ pc \in [Callers \cup {Tick} -> {"idle", "read", "merge", "work", "loop", "run", "reread",
                                         "remerge", "burn", "flush"}]
      /\ builtIn \subseteq Defaults
  BY DEF TypeOK
<1>3. Tick \notin Callers
  BY CronAssumption
<1>4. ASSUME NEW p \in Callers \cup {Tick}, EnsureCronFile(p) \/ WriteMerged(p) \/ ReadFails(p)
      PROVE  Placed
  <2>1. UNCHANGED <<req, edits, builtIn>>
    BY <1>4 DEF EnsureCronFile, WriteMerged, ReadFails, procVars, bounds
  <2>2. /\ \A c \in Callers \ {p} : pc'[c] = pc[c]
        /\ p \in Callers => pc[p] # "idle" /\ pc'[p] \in {"merge", "work"}
    BY <1>1, <1>2, <1>4 DEF EnsureCronFile, WriteMerged, ReadFails
  <2>3. QED
    BY <1>1, <2>1, <2>2
<1>5. ASSUME NEW c \in Callers, Ask(c) PROVE Placed
  <2>1. PICK r \in Request : r.job \notin Defaults \ builtIn /\ req' = [req EXCEPT ![c] = r]
    BY <1>5 DEF Ask
  <2>2. /\ pc' = [pc EXCEPT ![c] = "read"] /\ edits' = edits + 1 /\ edits < MaxEdits
        /\ builtIn' = builtIn
    BY <1>5 DEF Ask, procVars
  <2>3. QED
    BY <1>1, <1>2, <2>1, <2>2
<1>6. ASSUME NEW c \in Callers, Done(c) PROVE Placed
  <2>1. /\ pc' = [pc EXCEPT ![c] = "idle"] /\ req' = [req EXCEPT ![c] = None]
        /\ UNCHANGED <<edits, builtIn>>
    BY <1>6 DEF Done, procVars, bounds
  <2>2. QED
    BY <1>1, <1>2, <2>1
<1>7. ASSUME NEW c \in Callers, AddJob(c) \/ RemoveJob(c) \/ UpdateJob(c) \/ NoEdit(c) PROVE Placed
  BY <1>6, <1>7 DEF AddJob, RemoveJob, UpdateJob, NoEdit
<1>8. CASE Exit
  BY <1>1, <1>8 DEF Exit, Idle
<1>9. CASE Start
  BY <1>1, <1>2, <1>9 DEF Start, bounds
<1>10. ASSUME UNCHANGED <<req, edits, builtIn>>, \A c \in Callers : pc'[c] = pc[c]
       PROVE  Placed
  BY <1>1, <1>10
<1>11. ASSUME NEW i \in Jobs, Skip(i) \/ RunJob(i) PROVE Placed
  BY <1>2, <1>3, <1>10, <1>11 DEF Skip, RunJob, procVars, bounds
<1>12. CASE \/ TickStarts \/ Cleanup \/ TickAborts \/ RunFails \/ RunSucceeds \/ SaveOneShot
            \/ SaveFails \/ TickEnds
  BY <1>2, <1>3, <1>10, <1>12
  DEF TickStarts, Cleanup, TickAborts, RunFails, RunSucceeds, SaveOneShot, SaveFails, TickEnds,
      Recorded, procVars, bounds
<1>13. CASE MinutePasses \/ Stop \/ UNCHANGED vars
  BY <1>10, <1>13 DEF MinutePasses, Stop, vars, procVars, bounds
<1>14. QED
  BY <1>4, <1>5, <1>7, <1>8, <1>9, <1>11, <1>12, <1>13 DEF Next

(* What the steps that are not the tick's own leave alone. *)
LEMMA TickSteps ==
  ASSUME TypeOK, [Next]_vars
  PROVE  \/ \E i \in Jobs : Skip(i) \/ RunJob(i)
         \/ Cleanup \/ RunFails \/ RunSucceeds \/ SaveOneShot \/ SaveFails \/ TickEnds \/ Exit
         \/ /\ UNCHANGED <<saved, tickVars, runVars>>
            /\ \/ pc'[Tick] = pc[Tick]
               \/ \E p \in {Tick} : EnsureCronFile(p) \/ WriteMerged(p) \/ ReadFails(p)
               \/ TickStarts \/ TickAborts
<1>1. Tick \notin Callers
  BY CronAssumption
<1>2. ASSUME NEW p \in Callers \cup {Tick}, EnsureCronFile(p) \/ WriteMerged(p) \/ ReadFails(p)
      PROVE  /\ UNCHANGED <<saved, tickVars, runVars>>
             /\ pc'[Tick] = pc[Tick] \/ p = Tick
  BY <1>2 DEF EnsureCronFile, WriteMerged, ReadFails, fileVars, TypeOK
<1>3. ASSUME NEW c \in Callers,
             Ask(c) \/ AddJob(c) \/ RemoveJob(c) \/ UpdateJob(c) \/ NoEdit(c)
      PROVE  UNCHANGED <<saved, tickVars, runVars>> /\ pc'[Tick] = pc[Tick]
  BY <1>1, <1>3 DEF Ask, AddJob, RemoveJob, UpdateJob, NoEdit, Done, fileVars, TypeOK
<1>4. CASE MinutePasses \/ Stop \/ Start \/ TickStarts \/ TickAborts \/ UNCHANGED vars
  BY <1>4 DEF MinutePasses, Stop, Start, TickStarts, TickAborts, vars, fileVars
<1>5. QED
  BY <1>2, <1>3, <1>4 DEF Next

(* Every step keeps the tick's place and its jobs in agreement. *)
LEMMA TickStep ==
  ASSUME TypeOK, Stationed, [Next]_vars
  PROVE  /\ held' \in [Jobs -> Job \cup {None}] /\ todo' \subseteq Jobs /\ cur' \in Jobs \cup {None}
         /\ fired' \in [Jobs -> Nat]
         /\ (AtJob <=> cur \in Jobs)' /\ (Burning => cur \in OneShots /\ fired[cur] > 0)'
         /\ (InTick <=> minute # 0)'
         /\ cur' \notin todo'
         /\ \A i \in todo' \cup ({cur'} \cap Jobs) : held'[i] # None
<1> DEFINE Kept ==
      /\ held' \in [Jobs -> Job \cup {None}] /\ todo' \subseteq Jobs /\ cur' \in Jobs \cup {None}
      /\ fired' \in [Jobs -> Nat]
      /\ (AtJob <=> cur \in Jobs)' /\ (Burning => cur \in OneShots /\ fired[cur] > 0)'
      /\ (InTick <=> minute # 0)'
      /\ cur' \notin todo'
      /\ \A i \in todo' \cup ({cur'} \cap Jobs) : held'[i] # None
<1>1. /\ held \in [Jobs -> Job \cup {None}] /\ todo \subseteq Jobs /\ cur \in Jobs \cup {None}
      /\ fired \in [Jobs -> Nat] /\ minute \in Minutes \cup {0} /\ now \in Minutes
  BY DEF TypeOK
<1>2. /\ AtJob <=> cur \in Jobs
      /\ Burning => cur \in OneShots /\ fired[cur] > 0
      /\ InTick <=> minute # 0
      /\ cur \notin todo
      /\ \A i \in todo \cup ({cur} \cap Jobs) : held[i] # None
  BY DEF Stationed
<1>3. None \notin Jobs /\ OneShots \subseteq Jobs
  BY CronAssumption, NameAssumption
<1>4. ASSUME NEW point, pc' = [pc EXCEPT ![Tick] = point] PROVE pc'[Tick] = point
  <2>1. Tick \in DOMAIN pc
    BY DEF TypeOK
  <2>2. QED
    BY <1>4, <2>1
<1> USE DEF AtJob, Burning, InTick
<1>5. ASSUME NEW i \in Jobs, Skip(i) PROVE Kept
  BY <1>1, <1>2, <1>3, <1>5 DEF Skip, runVars
<1>6. ASSUME NEW i \in Jobs, RunJob(i) PROVE Kept
  BY <1>1, <1>2, <1>3, <1>4, <1>6 DEF RunJob
<1>7. CASE Cleanup
  <2> DEFINE jobs == [i \in Jobs |-> IF i \in Completed(base[Tick]) THEN None ELSE base[Tick].jobs[i]]
  <2>1. base[Tick].jobs \in [Jobs -> Job \cup {None}]
    BY <1>7 DEF Cleanup, Stationed, Processes, CronFile
  <2>2. jobs \in [Jobs -> Job \cup {None}]
    BY <2>1
  <2>3. held' = jobs /\ todo' \in SUBSET {i \in Jobs : jobs[i] # None /\ jobs[i].on}
    BY <1>7 DEF Cleanup
  <2>4. pc[Tick] = "work" /\ pc'[Tick] = "loop" /\ minute' = now /\ UNCHANGED <<cur, fired>>
    BY <1>4, <1>7 DEF Cleanup
  <2>5. minute' # 0 /\ cur \notin Jobs
    BY <1>1, <1>2, <2>4 DEF Minutes
  <2> HIDE DEF jobs
  <2>6. QED
    BY <1>1, <1>3, <2>2, <2>3, <2>4, <2>5
<1>8. CASE RunFails
  BY <1>1, <1>2, <1>3, <1>4, <1>8 DEF RunFails, Recorded, runVars
<1>9. CASE RunSucceeds
  <2>1. cur \in Jobs /\ pc[Tick] = "run"
    BY <1>2, <1>9 DEF RunSucceeds
  <2>2. fired' \in [Jobs -> Nat] /\ fired'[cur] = fired[cur] + 1 /\ fired'[cur] > 0
    BY <1>1, <1>9, <2>1 DEF RunSucceeds
  <2>3. UNCHANGED <<held, todo, minute>>
    BY <1>9 DEF RunSucceeds
  <2>4. CASE cur \in OneShots
    <3>1. cur' = cur /\ pc'[Tick] = "reread"
      BY <1>4, <1>9, <2>4 DEF RunSucceeds
    <3>2. QED
      BY <1>1, <1>2, <2>1, <2>2, <2>3, <2>4, <3>1
  <2>5. CASE cur \notin OneShots
    <3>1. cur' = None /\ pc'[Tick] = "loop"
      BY <1>4, <1>9, <2>5 DEF RunSucceeds, Recorded
    <3>2. QED
      BY <1>1, <1>2, <1>3, <2>1, <2>2, <2>3, <3>1
  <2>6. QED
    BY <2>4, <2>5
<1>10. CASE SaveOneShot
  BY <1>1, <1>2, <1>3, <1>4, <1>10 DEF SaveOneShot, Recorded, runVars
<1>11. CASE SaveFails
  BY <1>1, <1>2, <1>3, <1>4, <1>11 DEF SaveFails
<1>12. CASE TickEnds
  <2>1. /\ held' = NoJobs /\ todo' = {} /\ minute' = 0 /\ UNCHANGED <<cur, fired>>
        /\ pc[Tick] \in {"flush", "loop"} /\ pc'[Tick] = "idle"
    BY <1>4, <1>12 DEF TickEnds
  <2>2. QED
    BY <1>1, <1>2, <2>1 DEF NoJobs
<1>13. CASE Exit
  <2>1. /\ held' = NoJobs /\ todo' = {} /\ minute' = 0 /\ cur' = None /\ fired' = fired
        /\ pc'[Tick] = "idle"
    BY <1>13 DEF Exit, Idle
  <2>2. QED
    BY <1>1, <1>3, <2>1 DEF NoJobs
<1>14. CASE UNCHANGED <<saved, tickVars, runVars>> /\ pc'[Tick] = pc[Tick]
  BY <1>1, <1>2, <1>14 DEF tickVars, runVars
<1>15. CASE UNCHANGED <<saved, tickVars, runVars>>
            /\ (EnsureCronFile(Tick) \/ WriteMerged(Tick) \/ ReadFails(Tick))
  <2>1. \/ pc[Tick] \in {"reread", "remerge"} /\ pc'[Tick] \in {"remerge", "burn"}
        \/ pc[Tick] \in {"read", "merge"} /\ pc'[Tick] \in {"merge", "work"}
    BY <1>15 DEF EnsureCronFile, WriteMerged, ReadFails, TypeOK
  <2>2. QED
    BY <1>1, <1>2, <1>15, <2>1 DEF tickVars, runVars
<1>16. CASE UNCHANGED <<saved, tickVars, runVars>> /\ TickStarts
  <2>1. pc'[Tick] = pc[Tick] \/ (pc[Tick] = "idle" /\ pc'[Tick] = "read")
    BY <1>16 DEF TickStarts, TypeOK
  <2>2. QED
    BY <1>1, <1>2, <1>16, <2>1 DEF tickVars, runVars
<1>17. CASE TickAborts
  <2>1. pc[Tick] = "work" /\ pc'[Tick] = "idle" /\ UNCHANGED <<tickVars, runVars>>
    BY <1>4, <1>17 DEF TickAborts
  <2>2. QED
    BY <1>1, <1>2, <2>1 DEF tickVars, runVars
<1>18. QED
  BY <1>5, <1>6, <1>7, <1>8, <1>9, <1>10, <1>11, <1>12, <1>13, <1>14, <1>15, <1>16, <1>17, TickSteps

(* Every step keeps the clock, the process and the places typed. *)
LEMMA ClockStep ==
  ASSUME TypeOK, [Next]_vars
  PROVE  /\ proc' \in {"up", "closing", "down"} /\ builtIn' \subseteq Defaults
         /\ builtIn \subseteq builtIn'
         /\ now' \in Minutes /\ now' >= now /\ due' \in BOOLEAN
         /\ pc' \in [Callers \cup {Tick} -> {"idle", "read", "merge", "work", "loop", "run", "reread",
                                             "remerge", "burn", "flush"}]
<1> DEFINE Places == {"idle", "read", "merge", "work", "loop", "run", "reread", "remerge", "burn",
                      "flush"}
           Kept == /\ proc' \in {"up", "closing", "down"} /\ builtIn' \subseteq Defaults
                   /\ builtIn \subseteq builtIn'
                   /\ now' \in Minutes /\ now' >= now /\ due' \in BOOLEAN
                   /\ pc' \in [Callers \cup {Tick} -> Places]
<1>1. /\ proc \in {"up", "closing", "down"} /\ builtIn \subseteq Defaults /\ now \in Minutes
      /\ due \in BOOLEAN /\ pc \in [Callers \cup {Tick} -> Places]
  BY DEF TypeOK
<1>2. now \in Nat /\ MaxMinutes \in Nat
  <2>1. MaxMinutes \in Nat
    BY CronAssumption
  <2>2. QED
    BY <1>1, <2>1 DEF Minutes
<1>3. ASSUME UNCHANGED <<proc, builtIn, now>>, due' \in BOOLEAN,
             UNCHANGED pc \/ \E p \in Callers \cup {Tick}, point \in Places : pc' = [pc EXCEPT ![p] = point]
      PROVE  Kept
  BY <1>1, <1>2, <1>3
<1>4. ASSUME NEW p \in Callers \cup {Tick}, EnsureCronFile(p) \/ WriteMerged(p) \/ ReadFails(p)
      PROVE  Kept
  <2>1. UNCHANGED procVars
    BY <1>4 DEF EnsureCronFile, WriteMerged, ReadFails
  <2>2. \E point \in Places : pc' = [pc EXCEPT ![p] = point]
    BY <1>4 DEF EnsureCronFile, WriteMerged, ReadFails
  <2>3. QED
    BY <1>1, <1>3, <2>1, <2>2 DEF procVars
<1>5. ASSUME NEW c \in Callers, Ask(c) \/ Done(c) PROVE Kept
  <2>1. UNCHANGED procVars /\ \E point \in Places : pc' = [pc EXCEPT ![c] = point]
    BY <1>5 DEF Ask, Done
  <2>2. QED
    BY <1>1, <1>3, <2>1 DEF procVars
<1>6. ASSUME NEW i \in Jobs, Skip(i) \/ RunJob(i) PROVE Kept
  BY <1>1, <1>3, <1>6 DEF Skip, RunJob, procVars
<1>7. CASE \/ Cleanup \/ TickAborts \/ RunFails \/ RunSucceeds \/ SaveOneShot \/ SaveFails
           \/ TickEnds
  <2>1. UNCHANGED procVars /\ \E point \in Places : pc' = [pc EXCEPT ![Tick] = point]
    BY <1>7 DEF Cleanup, TickAborts, RunFails, RunSucceeds, SaveOneShot, SaveFails, TickEnds, Recorded
  <2>2. QED
    BY <1>1, <1>3, <2>1 DEF procVars
<1>8. CASE TickStarts
  <2>1. UNCHANGED <<proc, builtIn, now>> /\ due' = FALSE
        /\ \E point \in Places : pc' = [pc EXCEPT ![Tick] = point]
    BY <1>1, <1>8 DEF TickStarts
  <2>2. QED
    BY <1>3, <2>1
<1>9. CASE MinutePasses
  <2>1. now' \in Minutes /\ now' >= now
    BY <1>1, <1>2, <1>9 DEF MinutePasses, Minutes
  <2>2. due' \in BOOLEAN /\ UNCHANGED <<proc, builtIn, pc>>
    BY <1>9 DEF MinutePasses
  <2>3. QED
    BY <1>1, <2>1, <2>2
<1>10. CASE Stop
  <2>1. proc' = "closing" /\ due' \in BOOLEAN /\ UNCHANGED <<builtIn, now, pc>>
    BY <1>10 DEF Stop
  <2>2. now' >= now
    BY <1>2, <2>1
  <2>3. QED
    BY <1>1, <2>1, <2>2
<1>11. CASE Exit
  <2>1. proc' = "down" /\ due' \in BOOLEAN /\ UNCHANGED <<builtIn, now>> /\ pc' = Idle
    BY <1>11 DEF Exit
  <2>2. now' >= now
    BY <1>2, <2>1
  <2>3. pc' \in [Callers \cup {Tick} -> Places]
    BY <2>1 DEF Idle
  <2>4. QED
    BY <1>1, <2>1, <2>2, <2>3
<1>12. CASE Start
  BY <1>1, <1>2, <1>12 DEF Start
<1>13. CASE UNCHANGED vars
  BY <1>1, <1>3, <1>13 DEF vars, procVars
<1>14. QED
  BY <1>4, <1>5, <1>6, <1>7, <1>8, <1>9, <1>10, <1>11, <1>12, <1>13
  DEF Next, AddJob, RemoveJob, UpdateJob, NoEdit

(* Every step keeps what was asked for, and what may fire, typed; a caller
   changes it for the job of its edit only. *)
LEMMA WantedStep ==
  ASSUME TypeOK, Stationed, [Next]_vars
  PROVE  wanted' \in [Jobs -> Job \cup {None, Untouched}] /\ allowed' \in [Jobs -> Nat]
<1> DEFINE Kept == wanted' \in [Jobs -> Job \cup {None, Untouched}] /\ allowed' \in [Jobs -> Nat]
<1>1. wanted \in [Jobs -> Job \cup {None, Untouched}] /\ allowed \in [Jobs -> Nat]
  BY DEF TypeOK
<1>2. CASE UNCHANGED <<wanted, allowed>>
  BY <1>1, <1>2
<1>3. ASSUME NEW c \in Callers, AddJob(c) \/ RemoveJob(c) \/ UpdateJob(c) PROVE Kept
  <2>1. PICK job \in Job \cup {None}, disabled \in (SUBSET Defaults) \cup {None} :
          EditOf(c, job, disabled)
    BY <1>3, EditShape
  <2>2. /\ wanted' = [wanted EXCEPT ![req[c].job] = job] /\ req[c].job \in Jobs
        /\ \E n \in {allowed[req[c].job], allowed[req[c].job] + 1} :
             allowed' = [allowed EXCEPT ![req[c].job] = n]
    BY <2>1, EditTyped DEF EditOf, Edited
  <2>3. QED
    BY <1>1, <2>2
<1>4. CASE SaveFails
  <2>1. cur \in Jobs /\ wanted' = wanted /\ allowed' = [allowed EXCEPT ![cur] = @ + 1]
    BY <1>4 DEF SaveFails, Stationed, AtJob
  <2>2. QED
    BY <1>1, <2>1
<1>5. CASE Exit
  BY <1>1, <1>5 DEF Exit
<1>6. QED
  BY <1>2, <1>3, <1>4, <1>5
  DEF Next, EnsureCronFile, WriteMerged, ReadFails, Ask, NoEdit, Skip, RunJob, MinutePasses,
      TickStarts, Cleanup, TickAborts, RunFails, RunSucceeds, SaveOneShot, TickEnds, Stop, Start, vars

(* Every step keeps the records of runs typed. *)
LEMMA RunsStep ==
  ASSUME TypeOK, Stationed, [Next]_vars
  PROVE  /\ saved' \in [Jobs -> Minutes \cup {0}] /\ mem' \in [Jobs -> Minutes \cup {0}]
         /\ minute' \in Minutes \cup {0}
         /\ runs' \in [Jobs -> [Minutes -> Nat]] /\ forgotten' \in [Jobs -> [Minutes -> Nat]]
<1> DEFINE Kept ==
      /\ saved' \in [Jobs -> Minutes \cup {0}] /\ mem' \in [Jobs -> Minutes \cup {0}]
      /\ minute' \in Minutes \cup {0}
      /\ runs' \in [Jobs -> [Minutes -> Nat]] /\ forgotten' \in [Jobs -> [Minutes -> Nat]]
<1>1. /\ saved \in [Jobs -> Minutes \cup {0}] /\ mem \in [Jobs -> Minutes \cup {0}]
      /\ minute \in Minutes \cup {0} /\ now \in Minutes
      /\ runs \in [Jobs -> [Minutes -> Nat]] /\ forgotten \in [Jobs -> [Minutes -> Nat]]
  BY DEF TypeOK
<1>2. ASSUME NEW i \in Jobs, Skip(i) \/ RunJob(i) PROVE Kept
  <2>1. CASE Skip(i)
    BY <1>1, <2>1 DEF Skip, fileVars, runVars
  <2>2. CASE RunJob(i)
    <3>1. minute \in Minutes
      BY <1>1, <2>2 DEF RunJob, Stationed, InTick
    <3>2. runs' = [runs EXCEPT ![i] = [runs[i] EXCEPT ![minute] = @ + 1]]
      BY <2>2 DEF RunJob
    <3>3. [runs[i] EXCEPT ![minute] = @ + 1] \in [Minutes -> Nat]
      BY <1>1, <3>1
    <3>4. runs' \in [Jobs -> [Minutes -> Nat]]
      BY <1>1, <3>2, <3>3
    <3>5. QED
      BY <1>1, <2>2, <3>4 DEF RunJob, fileVars
  <2>3. QED
    BY <1>2, <2>1, <2>2
<1>3. CASE Cleanup
  <2>1. mem' = saved \/ mem' = [i \in Jobs |-> 0]
    BY <1>3 DEF Cleanup, LoadLastRun
  <2>2. forgotten' \in [Jobs -> [Minutes -> Nat]]
    BY <1>1, <1>3 DEF Cleanup, LoadLastRun
  <2>3. QED
    BY <1>1, <1>3, <2>1, <2>2 DEF Cleanup
<1>4. CASE RunFails \/ RunSucceeds \/ SaveOneShot
  <2>1. mem' = mem \/ mem' = [mem EXCEPT ![cur] = minute]
    BY <1>4 DEF RunFails, RunSucceeds, SaveOneShot, Recorded
  <2>2. UNCHANGED <<saved, minute, runs, forgotten>>
    BY <1>4 DEF RunFails, RunSucceeds, SaveOneShot, fileVars, runVars
  <2>3. QED
    BY <1>1, <2>1, <2>2
<1>5. CASE SaveFails
  <2>1. minute \in Minutes /\ cur \in Jobs
    BY <1>1, <1>5 DEF SaveFails, Stationed, InTick, AtJob
  <2>2. forgotten' = [forgotten EXCEPT ![cur] = [forgotten[cur] EXCEPT ![minute] = @ + 1]]
    BY <1>5 DEF SaveFails
  <2>3. [forgotten[cur] EXCEPT ![minute] = @ + 1] \in [Minutes -> Nat]
    BY <1>1, <2>1
  <2>4. forgotten' \in [Jobs -> [Minutes -> Nat]]
    BY <1>1, <2>2, <2>3
  <2>5. QED
    BY <1>1, <1>5, <2>4 DEF SaveFails, fileVars
<1>6. ASSUME Forget PROVE mem' = saved /\ forgotten' \in [Jobs -> [Minutes -> Nat]]
  BY <1>1, <1>6 DEF Forget
<1>7. CASE TickEnds
  <2>1. forgotten' = forgotten \/ Forget
    BY <1>7 DEF TickEnds, SaveLastRun
  <2>2. forgotten' \in [Jobs -> [Minutes -> Nat]]
    BY <1>1, <1>6, <2>1
  <2>3. saved' \in {mem, saved} /\ mem' \in {mem, saved}
    BY <1>7 DEF TickEnds, SaveLastRun, Forget
  <2>4. QED
    BY <1>1, <1>7, <2>2, <2>3 DEF TickEnds
<1>8. CASE Exit
  <2>1. Forget
    BY <1>8 DEF Exit
  <2>2. QED
    BY <1>1, <1>6, <1>8, <2>1 DEF Exit, fileVars
<1>9. CASE UNCHANGED <<saved, tickVars, runVars>>
  BY <1>1, <1>9 DEF tickVars, runVars
<1>10. QED
  BY <1>2, <1>3, <1>4, <1>5, <1>7, <1>8, <1>9, TickSteps

(* Every step keeps types and places. *)
LEMMA PlacesStep ==
  ASSUME TypeOK, Stationed, [Next]_vars
  PROVE  TypeOK' /\ Stationed'
<1>1. TypeOK'
  BY FileStep, CallerStep, TickStep, ClockStep, WantedStep, RunsStep DEF TypeOK, Processes
<1>2. Stationed'
  BY FileStep, CallerStep, TickStep DEF Stationed
<1>3. QED
  BY <1>1, <1>2

(* Every step keeps the account of runs: a job is run only if it is not
   recorded for the minute, and what was run and not recorded is forgotten
   when the process ends, the tick throws, or the records cannot be written
   or read. *)
LEMMA AccountedStep ==
  ASSUME TypeOK, Stationed, Accounted, [Next]_vars
  PROVE  Accounted'
<1>1. /\ saved \in [Jobs -> Minutes \cup {0}] /\ mem \in [Jobs -> Minutes \cup {0}]
      /\ minute \in Minutes \cup {0} /\ now \in Minutes /\ minute \in Nat /\ now \in Nat
      /\ \A m \in Minutes : m \in Nat /\ m # 0
      /\ \A i \in Jobs : mem[i] \in Nat /\ saved[i] \in Nat
      /\ \A i \in Jobs, m \in Minutes : runs[i][m] \in Nat /\ forgotten[i][m] \in Nat
  <2>1. \A m \in Minutes : m \in Nat /\ m # 0
    BY CronAssumption DEF Minutes
  <2>2. \A i \in Jobs, m \in Minutes : runs[i][m] \in Nat /\ forgotten[i][m] \in Nat
    BY DEF TypeOK
  <2>3. /\ saved \in [Jobs -> Minutes \cup {0}] /\ mem \in [Jobs -> Minutes \cup {0}]
        /\ minute \in Minutes \cup {0} /\ now \in Minutes
    BY DEF TypeOK
  <2>4. ASSUME NEW i \in Jobs PROVE mem[i] \in Nat /\ saved[i] \in Nat
    <3>1. mem[i] \in Minutes \cup {0} /\ saved[i] \in Minutes \cup {0}
      BY <2>3
    <3>2. QED
      BY <2>1, <3>1
  <2>5. QED
    BY <2>1, <2>2, <2>3, <2>4
<1>2. /\ minute <= now
      /\ \A i \in Jobs : mem[i] <= Floor /\ mem[i] \in {0, saved[i], minute} /\ saved[i] <= now
      /\ minute = 0 => mem = saved
      /\ \A i \in Jobs, m \in Minutes :
           m >= Floor /\ mem[i] # m /\ ~ (cur = i /\ m = minute) => runs[i][m] <= forgotten[i][m]
      /\ \A i \in Jobs, m \in Minutes : runs[i][m] <= 1 + forgotten[i][m]
  BY DEF Accounted, Stationed, OncePerMinute
<1>3. /\ InTick <=> minute # 0
      /\ (InTick <=> minute # 0)'
      /\ AtJob <=> cur \in Jobs
      /\ AtJob => InTick
  BY PlacesStep DEF Stationed, AtJob, InTick
<1>4. now' \in Minutes /\ now' \in Nat /\ now' >= now /\ None \notin Jobs
  BY <1>1, ClockStep, NameAssumption
<1> DEFINE Kept ==
      /\ minute' <= now'
      /\ \A i \in Jobs : mem'[i] <= Floor' /\ mem'[i] \in {0, saved'[i], minute'} /\ saved'[i] <= now'
      /\ minute' = 0 => mem' = saved'
      /\ \A i \in Jobs, m \in Minutes :
           m >= Floor' /\ mem'[i] # m /\ ~ (cur' = i /\ m = minute') => runs'[i][m] <= forgotten'[i][m]
      /\ \A i \in Jobs, m \in Minutes : runs'[i][m] <= 1 + forgotten'[i][m]
<1>5. ASSUME Kept PROVE Accounted'
  BY <1>3, <1>5 DEF Accounted, OncePerMinute
<1> USE DEF Floor
<1>6. CASE UNCHANGED <<saved, mem, minute, runs, forgotten, cur>>
  <2>1. Floor' >= Floor /\ Floor' \in Nat /\ Floor \in Nat
    BY <1>1, <1>2, <1>4, <1>6
  <2>2. minute' <= now' /\ (minute' = 0 => mem' = saved')
    BY <1>1, <1>2, <1>4, <1>6
  <2>3. ASSUME NEW i \in Jobs
        PROVE  mem'[i] <= Floor' /\ mem'[i] \in {0, saved'[i], minute'} /\ saved'[i] <= now'
    <3>1. mem[i] <= Floor /\ mem[i] \in {0, saved[i], minute} /\ saved[i] <= now
      BY <1>2
    <3>2. QED
      BY <1>1, <1>4, <1>6, <2>1, <3>1
  <2>4. ASSUME NEW i \in Jobs, NEW m \in Minutes,
               m >= Floor', mem'[i] # m, ~ (cur' = i /\ m = minute')
        PROVE  runs'[i][m] <= forgotten'[i][m]
    <3>1. m >= Floor
      BY <1>1, <2>1, <2>4
    <3>2. QED
      BY <1>2, <1>6, <2>4, <3>1
  <2>5. \A i \in Jobs, m \in Minutes : runs'[i][m] <= 1 + forgotten'[i][m]
    BY <1>2, <1>6
  <2>6. QED
    BY <1>5, <2>2, <2>3, <2>4, <2>5
<1>7. ASSUME NEW j \in Jobs, RunJob(j) PROVE Kept
  <2>1. /\ cur \notin Jobs /\ mem[j] # minute /\ minute \in Minutes /\ Floor = minute
    BY <1>1, <1>3, <1>7 DEF RunJob, HasRun, AtJob, InTick
  <2>2. /\ UNCHANGED <<saved, mem, minute, now, forgotten>> /\ cur' = j
        /\ \A i \in Jobs, m \in Minutes :
             runs'[i][m] = IF i = j /\ m = minute THEN runs[i][m] + 1 ELSE runs[i][m]
    BY <1>7, <2>1 DEF RunJob, fileVars, procVars, TypeOK
  <2>3. runs[j][minute] <= forgotten[j][minute]
    BY <1>1, <1>2, <2>1
  <2>4. \A i \in Jobs, m \in Minutes : runs'[i][m] <= 1 + forgotten'[i][m]
    BY <1>1, <1>2, <2>2, <2>3
  <2>5. ASSUME NEW i \in Jobs, NEW m \in Minutes,
               m >= Floor', mem'[i] # m, ~ (cur' = i /\ m = minute')
        PROVE  runs'[i][m] <= forgotten'[i][m]
    BY <1>1, <1>2, <2>1, <2>2, <2>5
  <2>6. QED
    BY <1>2, <2>1, <2>2, <2>4, <2>5
<1>8. ASSUME cur \in Jobs, mem' = [mem EXCEPT ![cur] = minute], cur' = None,
             UNCHANGED <<saved, minute, now, runs, forgotten>>
      PROVE  Kept
  <2>1. minute \in Minutes /\ Floor = minute
    BY <1>1, <1>3, <1>8
  <2>2. \A i \in Jobs : mem'[i] = IF i = cur THEN minute ELSE mem[i]
    BY <1>1, <1>8
  <2>3. ASSUME NEW i \in Jobs, NEW m \in Minutes, m >= Floor', mem'[i] # m
        PROVE  runs'[i][m] <= forgotten'[i][m]
    BY <1>1, <1>2, <1>8, <2>1, <2>2, <2>3
  <2>4. QED
    BY <1>1, <1>2, <1>4, <1>8, <2>1, <2>2, <2>3
<1>9. CASE RunFails \/ RunSucceeds \/ SaveOneShot
  <2>1. cur \in Jobs /\ UNCHANGED <<saved, minute, now, runs, forgotten>>
    BY <1>3, <1>9 DEF RunFails, RunSucceeds, SaveOneShot, AtJob, fileVars, procVars, runVars
  <2>2. \/ mem' = [mem EXCEPT ![cur] = minute] /\ cur' = None
        \/ UNCHANGED <<mem, cur>>
    BY <1>9 DEF RunFails, RunSucceeds, SaveOneShot, Recorded
  <2>3. QED
    BY <1>5, <1>6, <1>8, <2>1, <2>2
<1>10. CASE SaveFails
  <2>1. cur \in Jobs /\ minute \in Minutes /\ Floor = minute
    BY <1>1, <1>3, <1>10 DEF SaveFails, AtJob
  <2>2. /\ UNCHANGED <<saved, mem, minute, now, runs>> /\ cur' = None
        /\ \A i \in Jobs, m \in Minutes :
             forgotten'[i][m] = IF i = cur /\ m = minute THEN forgotten[i][m] + 1 ELSE forgotten[i][m]
    BY <1>10, <2>1 DEF SaveFails, fileVars, procVars, TypeOK
  <2>3. ASSUME NEW i \in Jobs, NEW m \in Minutes, m >= Floor', mem'[i] # m
        PROVE  runs'[i][m] <= forgotten'[i][m]
    <3>1. CASE i = cur /\ m = minute
      <4>1. runs[i][m] <= 1 + forgotten[i][m]
        BY <1>2
      <4>2. QED
        BY <1>1, <2>2, <3>1, <4>1
    <3>2. CASE ~ (i = cur /\ m = minute)
      BY <1>1, <1>2, <2>1, <2>2, <2>3, <3>2
    <3>3. QED
      BY <3>1, <3>2
  <2>4. \A i \in Jobs, m \in Minutes : runs'[i][m] <= 1 + forgotten'[i][m]
    <3>1. \A i \in Jobs, m \in Minutes : forgotten'[i][m] >= forgotten[i][m] /\ forgotten'[i][m] \in Nat
      BY <1>1, <2>2
    <3>2. QED
      BY <1>1, <1>2, <2>2, <3>1
  <2>5. Floor' = Floor
    BY <2>2
  <2>6. \A i \in Jobs : mem'[i] <= Floor' /\ mem'[i] \in {0, saved'[i], minute'} /\ saved'[i] <= now'
    BY <1>2, <2>2, <2>5
  <2>7. minute' <= now' /\ (minute' = 0 => mem' = saved')
    BY <1>2, <2>2
  <2>8. QED
    BY <1>5, <2>3, <2>4, <2>6, <2>7
<1>11. CASE Cleanup
  <2>1. minute = 0 /\ cur \notin Jobs
    BY <1>3, <1>11 DEF Cleanup, InTick, AtJob
  <2>2. minute' = now /\ UNCHANGED <<saved, now, cur, runs>>
    BY <1>11 DEF Cleanup, procVars
  <2>3. Floor' = now /\ Floor = now /\ mem = saved
    BY <1>2, <2>1, <2>2
  <2>4. \/ mem' = saved /\ forgotten' = forgotten
        \/ /\ \A i \in Jobs : mem'[i] = 0
           /\ \A i \in Jobs, m \in Minutes :
                forgotten'[i][m] = forgotten[i][m] + IF m = now /\ saved[i] = now THEN 1 ELSE 0
    BY <1>11 DEF Cleanup, LoadLastRun
  <2>5. \A i \in Jobs : mem'[i] \in {0, saved[i]} /\ saved[i] <= now
    BY <1>2, <2>4
  <2>6. \A i \in Jobs, m \in Minutes : forgotten'[i][m] \in Nat /\ forgotten'[i][m] >= forgotten[i][m]
    BY <1>1, <2>4
  <2>7. /\ minute' <= now' /\ (minute' = 0 => mem' = saved')
        /\ \A i \in Jobs : mem'[i] <= Floor' /\ mem'[i] \in {0, saved'[i], minute'} /\ saved'[i] <= now'
    BY <1>1, <2>2, <2>3, <2>5
  <2>8. ASSUME NEW i \in Jobs, NEW m \in Minutes, m >= Floor', mem'[i] # m
        PROVE  runs'[i][m] <= forgotten'[i][m]
    <3>1. CASE saved[i] # m
      <4>1. runs[i][m] <= forgotten[i][m]
        BY <1>2, <2>1, <2>3, <2>8, <3>1
      <4>2. /\ forgotten'[i][m] \in Nat /\ forgotten'[i][m] >= forgotten[i][m]
            /\ runs[i][m] \in Nat /\ forgotten[i][m] \in Nat
        BY <1>1, <2>6
      <4>3. runs'[i][m] = runs[i][m]
        BY <2>2
      <4>4. QED
        BY <4>1, <4>2, <4>3
    <3>2. CASE saved[i] = m
      <4>1. m = now
        BY <1>1, <2>3, <2>5, <2>8, <3>2
      <4>2. forgotten'[i][m] = forgotten[i][m] + 1
        BY <2>4, <2>8, <3>2, <4>1
      <4>3. runs[i][m] <= 1 + forgotten[i][m]
        BY <1>2
      <4>4. runs'[i][m] = runs[i][m] /\ runs[i][m] \in Nat /\ forgotten[i][m] \in Nat
        BY <1>1, <2>2
      <4>5. QED
        BY <4>2, <4>3, <4>4
    <3>3. QED
      BY <3>1, <3>2
  <2>9. \A i \in Jobs, m \in Minutes : runs'[i][m] <= 1 + forgotten'[i][m]
    BY <1>1, <1>2, <2>2, <2>6
  <2>10. QED
    BY <1>5, <2>7, <2>8, <2>9
<1>12. ASSUME mem' = saved, minute' = 0, cur' \notin Jobs, UNCHANGED <<saved, now, runs>>,
              \A i \in Jobs, m \in Minutes :
                forgotten'[i][m] = forgotten[i][m] + IF m = minute /\ Unsaved(i) THEN 1 ELSE 0
       PROVE  Kept
  <2>1. ASSUME NEW i \in Jobs, NEW m \in Minutes, m >= now, saved[i] # m
        PROVE  runs'[i][m] <= forgotten'[i][m]
    <3>1. m >= Floor
      <4>1. minute <= now /\ minute \in Nat /\ now \in Nat /\ m \in Nat
        BY <1>1, <1>2
      <4>2. Floor <= now /\ Floor \in Nat
        BY <4>1
      <4>3. QED
        BY <2>1, <4>1, <4>2
    <3>2. CASE m = minute /\ Unsaved(i)
      <4>1. runs[i][m] <= 1 + forgotten[i][m]
        BY <1>2
      <4>2. forgotten'[i][m] = forgotten[i][m] + 1
        BY <1>12, <3>2
      <4>3. QED
        BY <1>1, <1>12, <4>1, <4>2
    <3>3. CASE ~ (m = minute /\ Unsaved(i))
      <4>1. mem[i] # m /\ ~ (cur = i /\ m = minute)
        <5>1. mem[i] \in {0, saved[i], minute} /\ m # 0
          BY <1>1, <1>2
        <5>2. QED
          BY <2>1, <3>3, <5>1 DEF Unsaved
      <4>2. runs[i][m] <= forgotten[i][m]
        BY <1>2, <3>1, <4>1
      <4>3. forgotten'[i][m] = forgotten[i][m]
        BY <1>1, <1>12, <3>3
      <4>4. QED
        BY <1>12, <4>2, <4>3
    <3>4. QED
      BY <3>2, <3>3
  <2>2. \A i \in Jobs, m \in Minutes : runs'[i][m] <= 1 + forgotten'[i][m]
    <3>1. ASSUME NEW i \in Jobs, NEW m \in Minutes
          PROVE  forgotten'[i][m] >= forgotten[i][m] /\ forgotten'[i][m] \in Nat
      <4>1. forgotten'[i][m] \in {forgotten[i][m], forgotten[i][m] + 1} /\ forgotten[i][m] \in Nat
        BY <1>1, <1>12
      <4>2. QED
        BY <4>1
    <3>2. QED
      BY <1>1, <1>2, <1>12, <3>1
  <2>3. Floor' = now
    BY <1>12
  <2>4. /\ minute' <= now' /\ (minute' = 0 => mem' = saved')
        /\ \A i \in Jobs : mem'[i] <= Floor' /\ mem'[i] \in {0, saved'[i], minute'} /\ saved'[i] <= now'
    BY <1>1, <1>2, <1>12, <2>3
  <2>5. QED
    BY <1>12, <2>1, <2>2, <2>3, <2>4
<1>13. CASE TickEnds
  <2>1. minute # 0 /\ cur \notin Jobs
    BY <1>3, <1>13 DEF TickEnds, InTick, AtJob
  <2>2. minute' = 0 /\ UNCHANGED <<now, cur, runs>>
    BY <1>13 DEF TickEnds, procVars
  <2>3. CASE saved' = mem /\ UNCHANGED <<mem, forgotten>>
    <3>1. \A i \in Jobs : mem[i] <= now
      BY <1>1, <1>2, <2>1
    <3>2. Floor' = now /\ Floor = minute
      BY <2>1, <2>2
    <3>3. /\ minute' <= now' /\ (minute' = 0 => mem' = saved')
          /\ \A i \in Jobs : mem'[i] <= Floor' /\ mem'[i] \in {0, saved'[i], minute'} /\ saved'[i] <= now'
      BY <1>1, <2>2, <2>3, <3>1, <3>2
    <3>4. ASSUME NEW i \in Jobs, NEW m \in Minutes, m >= Floor', mem'[i] # m
          PROVE  runs'[i][m] <= forgotten'[i][m]
      <4>1. m >= Floor
        BY <1>1, <1>2, <3>2, <3>4
      <4>2. QED
        BY <1>2, <2>1, <2>2, <2>3, <3>4, <4>1
    <3>5. \A i \in Jobs, m \in Minutes : runs'[i][m] <= 1 + forgotten'[i][m]
      BY <1>2, <2>2, <2>3
    <3>6. QED
      BY <1>5, <3>3, <3>4, <3>5
  <2>4. CASE Forget /\ UNCHANGED saved
    <3>1. /\ mem' = saved
          /\ \A i \in Jobs, m \in Minutes :
               forgotten'[i][m] = forgotten[i][m] + IF m = minute /\ Unsaved(i) THEN 1 ELSE 0
      BY <2>4 DEF Forget
    <3>2. QED
      BY <1>5, <1>12, <2>1, <2>2, <2>4, <3>1
  <2>5. CASE mem' = saved /\ UNCHANGED <<saved, forgotten>> /\ \A i \in Jobs : mem[i] # minute
    <3>1. \A i \in Jobs : ~ Unsaved(i)
      BY <2>1, <2>5 DEF Unsaved
    <3>2. \A i \in Jobs, m \in Minutes :
            forgotten'[i][m] = forgotten[i][m] + IF m = minute /\ Unsaved(i) THEN 1 ELSE 0
      <4>1. ASSUME NEW i \in Jobs, NEW m \in Minutes
            PROVE  forgotten'[i][m] = forgotten[i][m] + 0 /\ ~ Unsaved(i)
        BY <1>1, <2>5, <3>1
      <4>2. QED
        BY <4>1
    <3>3. QED
      BY <1>5, <1>12, <2>1, <2>2, <2>5, <3>2
  <2>6. QED
    BY <1>13, <2>3, <2>4, <2>5 DEF TickEnds, SaveLastRun
<1>14. CASE Exit
  <2>1. /\ mem' = saved /\ minute' = 0 /\ cur' = None /\ UNCHANGED <<saved, now, runs>>
        /\ \A i \in Jobs, m \in Minutes :
             forgotten'[i][m] = forgotten[i][m] + IF m = minute /\ Unsaved(i) THEN 1 ELSE 0
    BY <1>14 DEF Exit, Forget, fileVars
  <2>2. QED
    BY <1>4, <1>5, <1>12, <2>1
<1>15. ASSUME NEW j \in Jobs, Skip(j) PROVE Accounted'
  <2>1. UNCHANGED <<saved, mem, minute, runs, forgotten, cur>>
    BY <1>15 DEF Skip, fileVars, runVars
  <2>2. QED
    BY <1>6, <2>1
<1>16. CASE UNCHANGED <<saved, tickVars, runVars>>
  <2>1. UNCHANGED <<saved, mem, minute, runs, forgotten, cur>>
    BY <1>16 DEF tickVars, runVars
  <2>2. QED
    BY <1>6, <2>1
<1>17. QED
  BY <1>5, <1>7, <1>9, <1>10, <1>11, <1>13, <1>14, <1>15, <1>16, TickSteps

(* Every step keeps the credit of reminders: what lets one fire again is there
   before the step or raises what is allowed, and a firing uses it up. *)
LEMMA CreditedStep ==
  ASSUME TypeOK, Stationed, Credited, [Next]_vars
  PROVE  Credited'
<1> SUFFICES ASSUME ~ lost', NEW i \in OneShots
             PROVE  fired'[i] <= allowed'[i] /\ (MayFire(i)' => fired'[i] + 1 <= allowed'[i])
  BY DEF Credited
<1>1. /\ ~ lost /\ i \in Jobs /\ None \notin Jobs /\ Tick \notin Callers /\ Tick \in Processes
      /\ fired[i] \in Nat /\ allowed[i] \in Nat
      /\ base \in [Processes -> CronFile \cup {None}] /\ file \in CronFile
      /\ pc \in [Processes -> {"idle", "read", "merge", "work", "loop", "run", "reread", "remerge",
                               "burn", "flush"}]
  BY FileStep, CronAssumption, NameAssumption DEF TypeOK, Processes
<1>2. fired[i] <= allowed[i] /\ (MayFire(i) => fired[i] + 1 <= allowed[i])
  BY <1>1 DEF Credited
<1>3. /\ AtJob <=> cur \in Jobs
      /\ cur \notin todo
      /\ Burning => cur \in OneShots
  BY DEF Stationed
<1> DEFINE Kept == fired'[i] <= allowed'[i] /\ (MayFire(i)' => fired'[i] + 1 <= allowed'[i])
<1>4. ASSUME fired'[i] = fired[i],
             \/ allowed'[i] = allowed[i] /\ (MayFire(i)' => MayFire(i))
             \/ allowed'[i] = allowed[i] + 1
      PROVE  Kept
  BY <1>1, <1>2, <1>4
<1>5. ASSUME UNCHANGED <<file, todo, cur, fired, allowed>>, pc'[Tick] = pc[Tick],
             base'[Tick] = base[Tick]
      PROVE  Kept
  BY <1>4, <1>5 DEF MayFire, On, Armed, Burning
<1>6. ASSUME NEW p \in Processes, EnsureCronFile(p) PROVE Kept
  <2>1. UNCHANGED <<file, todo, cur, fired, allowed>>
    BY <1>6 DEF EnsureCronFile, fileVars, tickVars, runVars
  <2>2. CASE p # Tick
    BY <1>1, <1>5, <1>6, <2>1, <2>2 DEF EnsureCronFile
  <2>3. CASE p = Tick
    <3>1. /\ base'[Tick] = file
          /\ \/ pc[Tick] = "read" /\ pc'[Tick] \in {"merge", "work"}
             \/ pc[Tick] = "reread" /\ pc'[Tick] \in {"remerge", "burn"}
      BY <1>1, <1>6, <2>3 DEF EnsureCronFile
    <3>2. MayFire(i)' => MayFire(i)
      BY <2>1, <3>1 DEF MayFire, On, Armed, Burning
    <3>3. QED
      BY <1>4, <2>1, <3>2
  <2>4. QED
    BY <2>2, <2>3
<1>7. ASSUME NEW p \in Processes, WriteMerged(p) PROVE Kept
  <2>1. /\ base[p] = file /\ file' = Merge(base[p]) /\ base' = [base EXCEPT ![p] = Merge(base[p])]
        /\ UNCHANGED <<todo, cur, fired, allowed>>
    BY <1>7 DEF WriteMerged, Write, tickVars, runVars
  <2>2. Merge(base[p]).jobs[i] = base[p].jobs[i]
    BY <1>1, <2>1, MergeTyped DEF TypeOK
  <2>3. On(file', i) = On(file, i)
    BY <2>1, <2>2 DEF On
  <2>4. /\ p # Tick => pc'[Tick] = pc[Tick] /\ base'[Tick] = base[Tick]
        /\ p = Tick => \/ pc[Tick] = "merge" /\ pc'[Tick] = "work"
                       \/ pc[Tick] = "remerge" /\ pc'[Tick] = "burn"
        /\ p = Tick => On(base'[Tick], i) = On(base[Tick], i)
    BY <1>1, <1>7, <2>1, <2>2 DEF WriteMerged, On
  <2>5. MayFire(i)' => MayFire(i)
    BY <2>1, <2>3, <2>4 DEF MayFire, Armed, Burning
  <2>6. QED
    BY <1>4, <2>1, <2>5
<1>8. ASSUME NEW p \in Processes, ReadFails(p) PROVE Kept
  <2>1. UNCHANGED <<file, todo, cur, fired, allowed>>
    BY <1>8 DEF ReadFails, fileVars, tickVars, runVars
  <2>2. CASE p # Tick
    BY <1>1, <1>5, <1>8, <2>1, <2>2 DEF ReadFails
  <2>3. CASE p = Tick
    <3>1. /\ base'[Tick].jobs = NoJobs
          /\ \/ pc[Tick] \in {"read", "merge"} /\ pc'[Tick] = "work"
             \/ pc[Tick] \in {"reread", "remerge"} /\ pc'[Tick] = "burn"
      BY <1>1, <1>8, <2>3 DEF ReadFails
    <3>2. ~ On(base'[Tick], i)
      BY <1>1, <3>1 DEF On, NoJobs
    <3>3. MayFire(i)' => MayFire(i)
      BY <2>1, <3>1, <3>2 DEF MayFire, Armed, Burning
    <3>4. QED
      BY <1>4, <2>1, <3>3
  <2>4. QED
    BY <2>2, <2>3
<1>9. ASSUME NEW c \in Callers, Ask(c) \/ NoEdit(c) PROVE Kept
  BY <1>1, <1>5, <1>9 DEF Ask, NoEdit, Done, fileVars, tickVars, runVars
<1>10. ASSUME NEW c \in Callers, AddJob(c) \/ RemoveJob(c) \/ UpdateJob(c) PROVE Kept
  <2>1. PICK job \in Job \cup {None}, disabled \in (SUBSET Defaults) \cup {None} :
          EditOf(c, job, disabled)
    BY <1>10, EditShape
  <2>2. /\ base[c] = file /\ req[c].job \in Jobs
        /\ file'.jobs[req[c].job] = job
        /\ \A j \in Jobs \ {req[c].job} : file'.jobs[j] = base[c].jobs[j]
    BY <2>1, EditTyped DEF EditOf, Edited, Write
  <2>3. /\ UNCHANGED <<todo, cur, fired>> /\ pc'[Tick] = pc[Tick] /\ base'[Tick] = base[Tick]
        /\ allowed' = [allowed EXCEPT ![req[c].job] =
             IF job # None /\ job.on /\ (Found(c) => ~ base[c].jobs[req[c].job].on) THEN @ + 1 ELSE @]
    BY <1>1, <2>1 DEF EditOf, Edited, Done, tickVars, runVars
  <2>4. CASE i # req[c].job
    <3>1. On(file', i) = On(file, i) /\ allowed'[i] = allowed[i]
      BY <1>1, <2>2, <2>3, <2>4 DEF On, TypeOK
    <3>2. MayFire(i)' => MayFire(i)
      BY <2>3, <3>1 DEF MayFire, On, Armed, Burning
    <3>3. QED
      BY <1>4, <2>3, <3>1, <3>2
  <2>5. CASE i = req[c].job
    <3>1. allowed'[i] = IF On(file', i) /\ ~ On(file, i) THEN allowed[i] + 1 ELSE allowed[i]
      BY <1>1, <2>2, <2>3, <2>5 DEF On, Found, TypeOK
    <3>2. MayFire(i)' => MayFire(i) \/ (On(file', i) /\ ~ On(file, i))
      BY <2>3 DEF MayFire, On, Armed, Burning
    <3>3. QED
      BY <1>4, <2>3, <3>1, <3>2
  <2>6. QED
    BY <2>4, <2>5
<1>11. CASE TickStarts
  <2>1. /\ UNCHANGED <<file, base, todo, cur, fired, allowed>>
        /\ pc'[Tick] = pc[Tick] \/ (pc[Tick] = "idle" /\ pc'[Tick] = "read")
    BY <1>1, <1>11 DEF TickStarts, fileVars, tickVars, runVars
  <2>2. MayFire(i)' => MayFire(i)
    BY <2>1 DEF MayFire, On, Armed, Burning
  <2>3. QED
    BY <1>4, <2>1, <2>2
<1>12. CASE Cleanup
  <2> DEFINE jobs == [j \in Jobs |-> IF j \in Completed(base[Tick]) THEN None ELSE base[Tick].jobs[j]]
  <2>1. /\ pc[Tick] = "work" /\ pc'[Tick] = "loop" /\ UNCHANGED <<cur, fired, allowed>>
        /\ todo' \in SUBSET {j \in Jobs : jobs[j] # None /\ jobs[j].on}
        /\ file' = file \/ file' = [base[Tick] EXCEPT !.jobs = jobs]
    BY <1>1, <1>12 DEF Cleanup, Write
  <2>2. base[Tick] \in CronFile /\ cur \notin Jobs
    BY <1>1, <1>3, <2>1 DEF Stationed, AtJob
  <2>3. file'.jobs = file.jobs \/ file'.jobs = jobs
    BY <2>1, <2>2 DEF CronFile
  <2>4. jobs[i] # None /\ jobs[i].on => On(base[Tick], i)
    BY <1>1 DEF On
  <2>5. i \in todo' => On(base[Tick], i)
    BY <2>1, <2>4
  <2>6. On(file', i) => On(file, i) \/ On(base[Tick], i)
    BY <2>3, <2>4 DEF On
  <2> HIDE DEF jobs
  <2>7. MayFire(i)' => MayFire(i)
    BY <1>1, <2>1, <2>2, <2>5, <2>6 DEF MayFire, On, Armed, Burning
  <2>8. QED
    BY <1>4, <2>1, <2>7
<1>13. ASSUME NEW j \in Jobs, Skip(j) PROVE Kept
  <2>1. /\ UNCHANGED <<file, base, pc, cur, fired, allowed>> /\ todo' \subseteq todo
    BY <1>13 DEF Skip, fileVars, runVars
  <2>2. MayFire(i)' => MayFire(i)
    BY <2>1 DEF MayFire, On, Armed, Burning
  <2>3. QED
    BY <1>4, <2>1, <2>2
<1>14. ASSUME NEW j \in Jobs, RunJob(j) PROVE Kept
  <2>1. /\ UNCHANGED <<file, base, fired, allowed>> /\ todo' = todo \ {j} /\ cur' = j /\ j \in todo
        /\ pc[Tick] = "loop" /\ pc'[Tick] = "run"
    BY <1>1, <1>14 DEF RunJob, fileVars
  <2>2. MayFire(i)' => MayFire(i)
    BY <2>1 DEF MayFire, On, Armed, Burning
  <2>3. QED
    BY <1>4, <2>1, <2>2
<1>15. CASE RunFails
  <2>1. /\ UNCHANGED <<file, base, todo, fired, allowed>> /\ cur' = None
        /\ pc[Tick] = "run" /\ pc'[Tick] = "loop"
    BY <1>1, <1>15 DEF RunFails, Recorded, fileVars, runVars
  <2>2. MayFire(i)' => MayFire(i)
    BY <2>1 DEF MayFire, On, Armed, Burning
  <2>3. QED
    BY <1>4, <2>1, <2>2
<1>16. CASE RunSucceeds
  <2>1. /\ UNCHANGED <<file, base, todo, allowed>> /\ pc[Tick] = "run" /\ cur \in Jobs
        /\ fired' = [fired EXCEPT ![cur] = @ + 1]
        /\ IF cur \in OneShots THEN cur' = cur /\ pc'[Tick] = "reread"
                               ELSE cur' = None /\ pc'[Tick] = "loop"
    BY <1>1, <1>3, <1>16 DEF RunSucceeds, Recorded, fileVars, AtJob
  <2>2. CASE i = cur
    <3>1. MayFire(i) /\ ~ MayFire(i)'
      BY <1>3, <2>1, <2>2 DEF MayFire, On, Armed, Burning
    <3>2. fired'[i] = fired[i] + 1 /\ allowed'[i] = allowed[i]
      BY <2>1, <2>2 DEF TypeOK
    <3>3. QED
      BY <1>1, <1>2, <3>1, <3>2
  <2>3. CASE i # cur
    <3>1. fired'[i] = fired[i]
      BY <1>1, <2>1, <2>3 DEF TypeOK
    <3>2. MayFire(i)' => MayFire(i)
      BY <1>1, <2>1, <2>3 DEF MayFire, On, Armed, Burning
    <3>3. QED
      BY <1>4, <2>1, <3>1, <3>2
  <2>4. QED
    BY <2>2, <2>3
<1>17. CASE SaveOneShot
  <2>1. /\ base[Tick] = file /\ file.jobs[cur] \in {None, held[cur]} /\ file' = Burnt(file)
        /\ UNCHANGED <<todo, fired, allowed>> /\ cur' = None
        /\ pc[Tick] = "burn" /\ pc'[Tick] = "loop"
    BY <1>1, <1>17 DEF SaveOneShot, Recorded, runVars
  <2>2. cur \in Jobs /\ held[cur] \in Job
    BY <1>3, <2>1 DEF AtJob, Stationed, TypeOK
  <2>3. i # cur => On(file', i) = On(file, i)
    BY <1>1, <2>1, <2>2 DEF Burnt, On, CronFile
  <2>4. ~ On(file', cur)
    BY <1>1, <2>1, <2>2 DEF Burnt, On, CronFile, Job
  <2>5. MayFire(i)' => MayFire(i)
    BY <2>1, <2>3, <2>4 DEF MayFire, Armed, Burning
  <2>6. QED
    BY <1>4, <2>1, <2>5
<1>18. CASE SaveFails
  <2>1. /\ UNCHANGED <<file, fired>> /\ allowed' = [allowed EXCEPT ![cur] = @ + 1] /\ todo' = {}
        /\ cur' = None /\ pc[Tick] = "burn" /\ pc'[Tick] = "flush"
    BY <1>1, <1>18 DEF SaveFails, fileVars
  <2>2. allowed'[i] = IF i = cur THEN allowed[i] + 1 ELSE allowed[i]
    BY <1>1, <2>1 DEF TypeOK
  <2>3. i # cur => (MayFire(i)' => MayFire(i))
    BY <2>1 DEF MayFire, On, Armed, Burning
  <2>4. QED
    BY <1>4, <2>1, <2>2, <2>3
<1>19. CASE TickEnds
  <2>1. /\ UNCHANGED <<file, fired, allowed, cur>> /\ todo' = {}
        /\ pc[Tick] \in {"flush", "loop"} /\ pc'[Tick] = "idle"
    BY <1>1, <1>19 DEF TickEnds
  <2>2. MayFire(i)' => MayFire(i)
    BY <2>1 DEF MayFire, On, Armed, Burning
  <2>3. QED
    BY <1>4, <2>1, <2>2
<1>20. CASE Exit
  <2>1. /\ UNCHANGED <<file, fired>> /\ todo' = {} /\ cur' = None /\ pc'[Tick] = "idle"
    BY <1>20 DEF Exit, fileVars, Idle
  <2>2. allowed'[i] = allowed[i] + IF i = cur /\ Burning THEN 1 ELSE 0
    BY <1>1, <1>20 DEF Exit, Burning
  <2>3. ~ (i = cur /\ Burning) => (MayFire(i)' => MayFire(i))
    BY <1>1, <2>1 DEF MayFire, On, Armed, Burning
  <2>4. QED
    BY <1>1, <1>4, <2>1, <2>2, <2>3
<1>21. CASE MinutePasses \/ Stop \/ Start \/ UNCHANGED vars
  BY <1>5, <1>21 DEF MinutePasses, Stop, Start, vars, fileVars, tickVars, runVars
<1>22. CASE TickAborts
  <2>1. /\ UNCHANGED <<file, todo, cur, fired, allowed>>
        /\ pc[Tick] = "work" /\ pc'[Tick] = "idle"
    BY <1>1, <1>22 DEF TickAborts, fileVars, tickVars, runVars
  <2>2. MayFire(i)' => MayFire(i)
    BY <2>1 DEF MayFire, On, Armed, Burning
  <2>3. QED
    BY <1>4, <2>1, <2>2
<1>23. QED
  BY <1>6, <1>7, <1>8, <1>9, <1>10, <1>11, <1>12, <1>13, <1>14, <1>15, <1>16, <1>17, <1>18, <1>19,
     <1>20, <1>21, <1>22 DEF Next, Processes

(* What each step does to the file and to what was asked for. *)
LEMMA FileChanges ==
  ASSUME TypeOK, Stationed, [Next]_vars
  PROVE  \/ UNCHANGED <<file, wanted, builtIn>>
         \/ Start
         \/ \E p \in Processes : WriteMerged(p)
         \/ \E c \in Callers, job \in Job \cup {None}, disabled \in (SUBSET Defaults) \cup {None} :
              EditOf(c, job, disabled)
         \/ Cleanup
         \/ SaveOneShot
<1>1. ASSUME NEW p \in Processes, EnsureCronFile(p) \/ ReadFails(p)
      PROVE  UNCHANGED <<file, wanted, builtIn>>
  BY <1>1 DEF EnsureCronFile, ReadFails, fileVars, procVars
<1>2. ASSUME NEW c \in Callers, Ask(c) \/ NoEdit(c)
      PROVE  UNCHANGED <<file, wanted, builtIn>>
  BY <1>2 DEF Ask, NoEdit, Done, fileVars, procVars
<1>3. ASSUME NEW i \in Jobs, Skip(i) \/ RunJob(i)
      PROVE  UNCHANGED <<file, wanted, builtIn>>
  BY <1>3 DEF Skip, RunJob, fileVars, procVars
<1>4. CASE \/ MinutePasses \/ TickStarts \/ TickAborts \/ RunFails \/ RunSucceeds \/ SaveFails
           \/ TickEnds \/ Stop \/ Exit \/ UNCHANGED vars
  BY <1>4 DEF MinutePasses, TickStarts, TickAborts, RunFails, RunSucceeds, SaveFails, TickEnds, Stop,
              Exit, vars, fileVars, procVars
<1>5. ASSUME NEW c \in Callers, AddJob(c) \/ RemoveJob(c) \/ UpdateJob(c)
      PROVE  \E job \in Job \cup {None}, disabled \in (SUBSET Defaults) \cup {None} :
               EditOf(c, job, disabled)
  BY <1>5, EditShape
<1>6. QED
  BY <1>1, <1>2, <1>3, <1>4, <1>5 DEF Next, Processes

(* Every step keeps the trace of deletions: a merge leaves no built-in job that
   is neither there nor recorded, and an edit takes a record away only with the
   job that it adds. *)
LEMMA TracedStep ==
  ASSUME TypeOK, Stationed, Traced, [Next]_vars
  PROVE  Traced'
<1>1. /\ lost => lost'
      /\ file \in CronFile /\ builtIn \subseteq Defaults /\ wanted \in [Jobs -> Job \cup {None, Untouched}]
      /\ Defaults \subseteq Jobs /\ \A i \in OneShots : i \notin Defaults
  BY FileStep, CronAssumption DEF TypeOK
<1>2. CASE UNCHANGED <<file, wanted, builtIn>>
  BY <1>1, <1>2 DEF Traced
<1>3. CASE Start
  <2>1. /\ UNCHANGED <<file, wanted, lost>> /\ builtIn' \in {builtIn, Defaults}
    BY <1>3 DEF Start, fileVars
  <2>2. QED
    BY <1>1, <2>1 DEF Traced
<1>4. ASSUME NEW p \in Processes, WriteMerged(p) PROVE Traced'
  <2>1. /\ file' = Merge(base[p]) /\ UNCHANGED <<wanted, builtIn>> /\ base[p] \in CronFile
    BY <1>4 DEF WriteMerged, Write, procVars, Stationed
  <2>2. \A i \in builtIn \ file'.disabled : file'.jobs[i] # None
    BY <1>1, <2>1, MergeTyped
  <2>3. QED
    BY <2>1, <2>2 DEF Traced
<1>5. ASSUME NEW c \in Callers, NEW job \in Job \cup {None},
             NEW disabled \in (SUBSET Defaults) \cup {None}, EditOf(c, job, disabled)
      PROVE  Traced'
  <2> DEFINE k == req[c].job
  <2>1. /\ file'.disabled = disabled /\ k \in Jobs /\ file'.jobs[k] = job
        /\ \A i \in Jobs \ {k} : file'.jobs[i] = base[c].jobs[i]
    BY <1>5, EditTyped
  <2>2. /\ wanted' = [wanted EXCEPT ![k] = job] /\ UNCHANGED builtIn
        /\ ~ lost' => ~ lost /\ base[c] = file
        /\ k \notin Defaults \ builtIn
    BY <1>5 DEF EditOf, Edited, Write, Done, procVars
  <2>3. disabled # None =>
          /\ base[c].disabled # None
          /\ \A i \in base[c].disabled : i \in disabled \/ i = k
          /\ job = None /\ k \in builtIn => k \in disabled
    BY <1>5 DEF EditOf
  <2> HIDE DEF k
  <2>4. \A i \in Jobs \ {k} : wanted'[i] = wanted[i]
    BY <1>1, <2>2
  <2>5. ASSUME NEW i \in Defaults \ builtIn' PROVE wanted'[i] = Untouched
    BY <1>1, <2>2, <2>4 DEF Traced
  <2>6. ASSUME ~ lost', file'.disabled # None, NEW i \in builtIn' \ file'.disabled,
               file'.jobs[i] = None
        PROVE  wanted'[i] = Untouched
    <3>1. i # k
      BY <2>1, <2>2, <2>3, <2>6
    <3>2. /\ i \in builtIn \ file.disabled /\ file.jobs[i] = None /\ file.disabled # None
          /\ wanted'[i] = wanted[i]
      BY <1>1, <2>1, <2>2, <2>3, <2>4, <2>6, <3>1
    <3>3. QED
      BY <2>2, <2>6, <3>2 DEF Traced
  <2>7. QED
    BY <2>5, <2>6 DEF Traced
<1>6. CASE Cleanup
  <2> DEFINE jobs == [j \in Jobs |-> IF j \in Completed(base[Tick]) THEN None ELSE base[Tick].jobs[j]]
  <2>1. /\ UNCHANGED <<wanted, builtIn>> /\ pc[Tick] = "work"
        /\ \/ UNCHANGED <<file, lost>>
           \/ Write(Tick, [base[Tick] EXCEPT !.jobs = jobs])
    BY <1>6 DEF Cleanup, procVars
  <2>2. CASE UNCHANGED <<file, lost>>
    BY <1>2, <2>1, <2>2
  <2>3. CASE Write(Tick, [base[Tick] EXCEPT !.jobs = jobs])
    <3>1. file' = [base[Tick] EXCEPT !.jobs = jobs] /\ (~ lost' => ~ lost /\ base[Tick] = file)
      BY <2>3 DEF Write
    <3>2. ~ lost' => file'.jobs = jobs /\ file'.disabled = file.disabled
      BY <1>1, <3>1 DEF CronFile
    <3>3. \A i \in Defaults : jobs[i] = base[Tick].jobs[i]
      BY <1>1 DEF Completed
    <3> HIDE DEF jobs
    <3>4. QED
      BY <1>1, <2>1, <3>1, <3>2, <3>3 DEF Traced
  <2>4. QED
    BY <2>1, <2>2, <2>3
<1>7. CASE SaveOneShot
  <2>1. /\ UNCHANGED <<wanted, builtIn>> /\ file' = Burnt(base[Tick])
        /\ ~ lost' => ~ lost /\ base[Tick] = file
    BY <1>7 DEF SaveOneShot, procVars
  <2>2. cur \in Jobs /\ held[cur] \in Job
    BY <1>7 DEF SaveOneShot, Stationed, AtJob, TypeOK
  <2>3. [held[cur] EXCEPT !.on = FALSE] # None
    <3>1. [held[cur] EXCEPT !.on = FALSE] \in Job
      BY <2>2 DEF Job
    <3>2. QED
      BY <3>1, NameAssumption
  <2>4. ~ lost' => /\ file'.disabled = file.disabled
                   /\ \A i \in Jobs : file'.jobs[i] = None => file.jobs[i] = None
    BY <1>1, <2>1, <2>2, <2>3 DEF Burnt, CronFile
  <2>5. QED
    BY <1>1, <2>1, <2>4 DEF Traced
<1>8. QED
  BY <1>2, <1>3, <1>4, <1>5, <1>6, <1>7, FileChanges

(* A job that has fired has fired for good. *)
LEMMA FiredStays ==
  ASSUME TypeOK, Stationed, [Next]_vars, NEW i \in Jobs
  PROVE  fired[i] > 0 => fired'[i] > 0
<1>1. fired[i] \in Nat
  BY DEF TypeOK
<1>2. ASSUME NEW j \in Jobs, Skip(j) \/ RunJob(j) PROVE fired' = fired
  BY <1>2 DEF Skip, RunJob, runVars
<1>3. CASE RunSucceeds
  <2>1. fired' = [fired EXCEPT ![cur] = @ + 1]
    BY <1>3 DEF RunSucceeds
  <2>2. fired'[i] \in {fired[i], fired[i] + 1}
    BY <2>1 DEF TypeOK
  <2>3. QED
    BY <1>1, <2>2
<1>4. CASE Cleanup \/ RunFails \/ SaveOneShot \/ SaveFails \/ TickEnds \/ Exit
  BY <1>4 DEF Cleanup, RunFails, SaveOneShot, SaveFails, TickEnds, Exit, runVars
<1>5. QED
  BY <1>2, <1>3, <1>4, TickSteps DEF runVars

(* Every step leaves the edits that were acknowledged in the file. *)
LEMMA EditsStickStep ==
  ASSUME TypeOK, Stationed, Traced, EditsStick, [Next]_vars
  PROVE  EditsStick'
<1> SUFFICES ASSUME ~ lost', NEW i \in Jobs
             PROVE  \/ wanted'[i] \in {Untouched, file'.jobs[i]}
                    \/ /\ i \in OneShots /\ wanted'[i] # None
                       /\ wanted'[i].on => fired'[i] > 0
                       /\ file'.jobs[i] \in {None, [wanted'[i] EXCEPT !.on = FALSE]}
  BY DEF EditsStick
<1> DEFINE Kept == \/ wanted'[i] \in {Untouched, file'.jobs[i]}
                   \/ /\ i \in OneShots /\ wanted'[i] # None
                      /\ wanted'[i].on => fired'[i] > 0
                      /\ file'.jobs[i] \in {None, [wanted'[i] EXCEPT !.on = FALSE]}
<1>1. /\ ~ lost /\ file \in CronFile /\ builtIn \subseteq Defaults
      /\ wanted \in [Jobs -> Job \cup {None, Untouched}]
  BY FileStep DEF TypeOK
<1>2. \/ wanted[i] \in {Untouched, file.jobs[i]}
      \/ /\ i \in OneShots /\ wanted[i] # None
         /\ wanted[i].on => fired[i] > 0
         /\ file.jobs[i] \in {None, [wanted[i] EXCEPT !.on = FALSE]}
  BY <1>1 DEF EditsStick
<1>3. fired[i] > 0 => fired'[i] > 0
  BY FiredStays
<1>4. ASSUME wanted'[i] = wanted[i], file'.jobs[i] = file.jobs[i] PROVE Kept
  BY <1>2, <1>3, <1>4
<1>5. CASE Start
  BY <1>4, <1>5 DEF Start, fileVars
<1>6. ASSUME NEW p \in Processes, WriteMerged(p) PROVE Kept
  <2>1. /\ file' = Merge(base[p]) /\ base[p] = file /\ wanted' = wanted
    BY <1>6 DEF WriteMerged, Write
  <2>2. \/ file'.jobs[i] = file.jobs[i]
        \/ i \in builtIn \ file.disabled /\ file.disabled # None /\ file.jobs[i] = None
    BY <1>1, <2>1, MergeTyped
  <2>3. CASE i \in builtIn \ file.disabled /\ file.disabled # None /\ file.jobs[i] = None
    <3>1. wanted[i] = Untouched
      BY <1>1, <2>3 DEF Traced
    <3>2. QED
      BY <2>1, <3>1
  <2>4. QED
    BY <1>4, <2>1, <2>2, <2>3
<1>7. ASSUME NEW c \in Callers, NEW job \in Job \cup {None},
             NEW disabled \in (SUBSET Defaults) \cup {None}, EditOf(c, job, disabled)
      PROVE  Kept
  <2>1. /\ req[c].job \in Jobs /\ file'.jobs[req[c].job] = job
        /\ \A j \in Jobs \ {req[c].job} : file'.jobs[j] = base[c].jobs[j]
    BY <1>7, EditTyped
  <2>2. wanted' = [wanted EXCEPT ![req[c].job] = job] /\ base[c] = file
    BY <1>7 DEF EditOf, Edited, Write
  <2>3. CASE i = req[c].job
    BY <1>1, <2>1, <2>2, <2>3
  <2>4. CASE i # req[c].job
    BY <1>1, <1>4, <2>1, <2>2, <2>4
  <2>5. QED
    BY <2>3, <2>4
<1>8. CASE Cleanup
  <2> DEFINE jobs == [j \in Jobs |-> IF j \in Completed(base[Tick]) THEN None ELSE base[Tick].jobs[j]]
  <2>1. wanted' = wanted
    BY <1>8 DEF Cleanup
  <2>2. CASE UNCHANGED file
    BY <1>4, <2>1, <2>2
  <2>3. CASE Write(Tick, [base[Tick] EXCEPT !.jobs = jobs])
    <3>1. file' = [file EXCEPT !.jobs = jobs] /\ base[Tick] = file
      BY <2>3 DEF Write
    <3>2. file'.jobs[i] = IF i \in Completed(file) THEN None ELSE file.jobs[i]
      BY <1>1, <3>1 DEF CronFile
    <3>3. CASE i \in Completed(file)
      <4>1. i \in OneShots /\ file.jobs[i] # None /\ ~ file.jobs[i].on /\ file'.jobs[i] = None
        BY <3>2, <3>3 DEF Completed
      <4>2. QED
        BY <1>2, <1>3, <2>1, <4>1
    <3>4. QED
      BY <1>4, <2>1, <3>2, <3>3
  <2>4. QED
    BY <1>8, <2>2, <2>3 DEF Cleanup
<1>9. CASE SaveOneShot
  <2>1. /\ file' = Burnt(file) /\ base[Tick] = file /\ file.jobs[cur] \in {None, held[cur]}
        /\ wanted' = wanted /\ pc[Tick] = "burn"
    BY <1>9 DEF SaveOneShot
  <2>2. cur \in Jobs /\ held[cur] \in Job /\ cur \in OneShots /\ fired[cur] > 0
    BY <2>1 DEF Stationed, AtJob, Burning, TypeOK
  <2>3. CASE file.jobs[cur] = None \/ i # cur
    <3>1. file'.jobs[i] = file.jobs[i]
      BY <1>1, <2>1, <2>3 DEF Burnt, CronFile
    <3>2. QED
      BY <1>4, <2>1, <3>1
  <2>4. CASE file.jobs[cur] = held[cur] /\ held[cur] # None /\ i = cur
    <3>1. file'.jobs[i] = [file.jobs[i] EXCEPT !.on = FALSE] /\ file.jobs[i] \in Job
      BY <1>1, <2>1, <2>2, <2>4 DEF Burnt, CronFile
    <3>2. CASE wanted[i] = Untouched
      BY <2>1, <3>2
    <3>3. CASE wanted[i] = file.jobs[i]
      BY <1>3, <2>1, <2>2, <2>4, <3>1, <3>3
    <3>4. CASE /\ wanted[i] # None /\ wanted[i] # Untouched
               /\ file.jobs[i] \in {None, [wanted[i] EXCEPT !.on = FALSE]}
      <4>1. wanted[i] \in Job
        BY <1>1, <3>4
      <4>2. file.jobs[i] = [wanted[i] EXCEPT !.on = FALSE]
        BY <2>4, <3>4
      <4>3. [file.jobs[i] EXCEPT !.on = FALSE] = [wanted[i] EXCEPT !.on = FALSE]
        BY <4>1, <4>2 DEF Job
      <4>4. QED
        BY <1>3, <2>1, <2>2, <2>4, <3>1, <3>4, <4>3
    <3>5. QED
      BY <1>2, <3>2, <3>3, <3>4
  <2>5. QED
    BY <2>1, <2>3, <2>4
<1>10. CASE UNCHANGED <<file, wanted, builtIn>>
  BY <1>4, <1>10
<1>11. QED
  BY <1>5, <1>6, <1>7, <1>8, <1>9, <1>10, FileChanges

--------------------------------------------------------------------------------
(* The theorems. *)

(* The inductive invariant holds in every state the scheduler reaches: the types
   of its records, where each reader of the file stands, the account of runs,
   the credit of reminders, and what the file keeps of edits. *)
THEOREM CronInvariance == Spec => []IInv
<1>1. IInv /\ [Next]_vars => IInv'
  BY PlacesStep, AccountedStep, CreditedStep, TracedStep, EditsStickStep DEF IInv
<1>2. QED
  BY InvInit, <1>1, PTL DEF Spec

(* The file, the copies that the tick and the callers hold of it, and the
   records of runs keep their types. *)
THEOREM CronTypes == Spec => []TypeOK
BY CronInvariance, PTL DEF IInv

(* No job runs twice for one minute, in one tick or in two, unless its record was
   not kept (the process ended, the tick threw, or last-run.json could not be
   written) or not read back: tick asks last-run, which it reads at its start
   and keeps at its end. *)
THEOREM JobsRunOncePerMinute == Spec => []OncePerMinute
<1>1. IInv => OncePerMinute
  BY DEF IInv, Accounted
<1>2. QED
  BY CronInvariance, <1>1, PTL

(* Through merges of the built-in jobs, new releases, clean-ups and the switching
   off of reminders, the file says what was last asked for each job, as long as
   nobody writes over what he has not read: addJob, removeJob, updateJob and
   mergeDefaultCronJobs. *)
THEOREM UserEditsStick == Spec => []EditsStick
BY CronInvariance, PTL DEF IInv

(* With the same proviso, a reminder fires once for each time it is added or
   switched on, and once more for each end of the process and failed write
   between its turn and saveCronFile. *)
THEOREM RemindersFireOnce == Spec => []FiresOnce
<1>1. IInv => FiresOnce
  BY DEF IInv, Credited, FiresOnce
<1>2. QED
  BY CronInvariance, <1>1, PTL

================================================================================
