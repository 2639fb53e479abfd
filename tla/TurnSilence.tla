------------------------------ MODULE TurnSilence -----------------------------
(***************************************************************************)
(* TurnQueue with the clock of its watchdog (resolveLivenessIdle): a turn   *)
(* is given up when its process has put out nothing at all for longer than  *)
(* the threshold.  Every piece of output starts the time anew, whether or   *)
(* not it is a message, so nothing ends a turn that goes on with messages   *)
(* and without a result.                                                    *)
(***************************************************************************)
EXTENDS TurnQueue

VARIABLE
  silent  \* the watchdog finds that nothing has come for longer than it allows

InitSilence == Init /\ silent = FALSE

(* The watchdog runs while a submit waits for its turn (livenessTimer). *)
Watched == \E s \in Submits : pc[s] = "turn"

(* A process puts out something that is no result: a message, part of one, or
   something on stderr. *)
Chunk ==
  /\ silent /\ \E p \in Procs : up[p] # "none"
  /\ silent' = FALSE
  /\ UNCHANGED vars

FallsSilent ==
  /\ ~ silent /\ Watched
  /\ silent' = TRUE
  /\ UNCHANGED vars

(* A result is output. *)
Heard ==
  /\ \E p \in Procs : Results(p)
  /\ silent' = FALSE

Expired(s) == silent /\ IdleTimeout(s)

(* Everything else.  A turn begins with the time at zero. *)
Rest ==
  /\ \/ \E s \in Submits : Submit(s) \/ SubmitStep(s) \/ Expired(s) \/ TurnStep(s)
     \/ \E p \in Procs : CrashProc(p) \/ Ending(p)
     \/ Backstop
     \/ LifeStep
  /\ silent' = (silent /\ Watched')

NextSilence == Heard \/ Rest \/ Chunk \/ FallsSilent

(* Awaits of the gateway's own return and its timers fire, that of the watchdog
   when it finds silence; a shutdown comes to its end.  Of the process nothing is
   assumed: it need not answer, nor ever be silent. *)
Fairness ==
  /\ \A s \in Submits :
       /\ WF_vars(SubmitStep(s))
       /\ SF_vars(Expired(s))
       /\ WF_vars(SpawnOk(s) \/ SpawnFails(s))
       /\ WF_vars(Retry(s) \/ GiveUp(s))
       /\ WF_vars(FlushExit(s))
  /\ \A p \in Procs : WF_vars(Ending(p))

FairSpec == InitSilence /\ [][NextSilence]_<<vars, silent>> /\ Fairness

------------------------------------------------------------------------------
(* Properties.                                                              *)

(* No turn is kept going for ever by output without a result. *)
Quietens == \A s \in Submits : []<>(silent \/ pc[s] # "turn")

(* Every message that was accepted ends, whatever the process, the watch and the
   owner of the session do, unless a turn before it goes on for ever with
   output that never is a result (sessionManager.ts:983-1006, 1207-1224). *)
QueueDrains == Quietens => \A s \in Submits : pc[s] = "waiting" ~> pc[s] = "back"

================================================================================
