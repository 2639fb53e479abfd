------------------------------- MODULE ClientSync ------------------------------
(***************************************************************************)
(* The browser's copy of a chat session and the server's (sync.js,          *)
(* sessions.js, the frame handlers of websocket.js, sessionsDb.ts).         *)
(*                                                                          *)
(* The server keeps a row with a version (updated_at), and the tape: the    *)
(* messages and answers of the session in their order.  Messages from       *)
(* before the tape stay in the row and never change.  A tab shows the       *)
(* session, receives the frames of its turns as they happen, writes the row *)
(* back with the version it knows (PUT, refused with 409 if the row has     *)
(* moved on), and reads row and tape again (hydration) when it learns that  *)
(* it has missed something.  Of the tape it reads the last turns only; the   *)
(* user may have older ones loaded.  Titles are left out: of an edit the     *)
(* model has that there is something to save.                               *)
(*                                                                          *)
(* One tab with the session in view, and the others as all that they may do *)
(* to it: tabs meet only at the server, and what a tab shows is its own.    *)
(* The session exists, and is on the tape, from the start.  The local       *)
(* database, reloads and the deletion of sessions are left out.             *)
(***************************************************************************)
EXTENDS Naturals, Sequences, FiniteSets, Functions

CONSTANTS
  Turns,      \* a message and its answer
  Legacy,     \* messages from before the tape
  None,       \* nothing
  PageTurns,  \* turns of a page of the tape (`timeline?turns=5`)
  MaxParts,   \* bound: answers that come in parts
  MaxWrites,  \* bound: versions of the row that are written
  MaxReads,   \* bound: lists, hydrations and older pages
  MaxUpsets   \* bound: edits in the tab, requests that fail, connections that break

ASSUME SyncAssumption ==
  /\ None \notin Turns
  /\ {PageTurns, MaxParts, MaxWrites, MaxReads, MaxUpsets} \subseteq Nat

(* No message from before the tape is one of the tape. *)
ASSUME LegacyAssumption ==
  Legacy \cap ((Turns \cup {None}) \X {"message", "part", "final"}) = {}

VARIABLES
  row,     \* the version of the row
  tape,    \* the tape
  onWire,  \* turns whose message is on its way
  due,     \* frames on their way to the tab
  sess,    \* the session in the tab (state.sessions)
  saving,  \* a save is scheduled, or waits for the one before it
  old,     \* a save of an object that a hydration has replaced
  put,     \* the PUT under way
  hyd,     \* the hydration
  older,   \* an older page, on its way (loadOlderTape)
  list,    \* the list of sessions, on its way
  (* history *)
  sent,       \* turns whose message the tab has sent
  overruled,  \* what it lost when it took over the row's messages without the tape
  reads, upsets

serverVars == <<row, tape>>
saveVars   == <<saving, old>>
histVars   == <<sent, overruled>>
bounds     == <<reads, upsets>>
vars == <<serverVars, onWire, due, sess, saveVars, put, hyd, older, list, histVars, bounds>>

Items == Legacy \cup ((Turns \cup {None}) \X {"message", "part", "final"})
Message(u) == <<u, "message">>
Earlier == <<None, "final">>  \* an answer of before
OnTape == {i[1] : i \in Range(tape)}  \* turns that have begun
Started == {u \in Turns : Message(u) \in Range(tape)}
Finished == {u \in Turns : <<u, "final">> \in Range(tape)}

TypeOK ==
  /\ row \in Nat
  /\ tape \in Seq(Items \ Legacy)
  /\ onWire \subseteq Turns /\ due \in Seq(Items \ Legacy)
  /\ sess \in [synced : Nat, seq : Nat, shown : SUBSET Items,
               pages : SUBSET Items, folded : SUBSET (Turns \cup {None}),
               dirty : BOOLEAN, needsFetch : BOOLEAN, broken : BOOLEAN,
               streaming : Turns \cup {None}, inFlight : Turns \cup {None}]
  /\ saving \in BOOLEAN
  /\ old \in Nat \cup {None}
  /\ put = None \/ put \in [live : BOOLEAN, base : Nat, touched : BOOLEAN,
                           answer : {"none", "ok", "conflict"}, ver : Nat]
  /\ hyd = None \/ hyd \in [ver : Nat, seq : Nat, page : (SUBSET Items) \cup {None},
                           folded : SUBSET (Turns \cup {None})]
  /\ older = None \/ older \in [page : SUBSET Items, folded : SUBSET (Turns \cup {None})]
  /\ list = None \/ list \in [ver : Nat, seq : Nat]
  /\ sent \subseteq Turns /\ overruled \subseteq Items

(* A tab that has the whole session, or knows it from the list only. *)
Init ==
  /\ row = 1
  /\ tape = <<Earlier>>
  /\ onWire = {} /\ due = <<>>
  /\ \E cold \in BOOLEAN :
       sess = [synced |-> 1, seq |-> 1,
               shown |-> IF cold THEN {} ELSE Legacy \cup {Earlier},
               pages |-> {}, folded |-> {},
               dirty |-> FALSE, needsFetch |-> cold, broken |-> FALSE,
               streaming |-> None, inFlight |-> None]
  /\ saving = FALSE /\ old = None
  /\ put = None /\ hyd = None /\ older = None /\ list = None
  /\ sent = {} /\ overruled = {}
  /\ reads = 0 /\ upsets = 0

------------------------------------------------------------------------------
(* Saves.                                                                   *)

(* scheduleSave of the session s: not before it is hydrated.  A PUT that is
   under way takes note (lastAt). *)
ScheduleSave(s) ==
  IF s.needsFetch
  THEN sess' = s /\ UNCHANGED <<saving, put>>
  ELSE /\ sess' = [s EXCEPT !.dirty = TRUE]
       /\ saving' = TRUE
       /\ put' = IF put = None THEN None ELSE [put EXCEPT !.touched = TRUE]

Request(live, base) ==
  [live |-> live, base |-> base, touched |-> FALSE, answer |-> "none", ver |-> 0]

(* _doSave, one at a time, after the timer of the save or when the page is
   hidden (flushPendingSaves).  No session is sent that is not hydrated. *)
DoSave ==
  /\ saving \/ sess.dirty
  /\ put = None
  /\ saving' = FALSE
  /\ put' = IF sess.needsFetch THEN None ELSE Request(TRUE, sess.synced)
  /\ UNCHANGED <<serverVars, onWire, due, sess, old, hyd, older, list, histVars, bounds>>

DoSaveOld ==
  /\ old # None /\ put = None
  /\ put' = Request(FALSE, old)
  /\ old' = None
  /\ UNCHANGED <<serverVars, onWire, due, sess, saving, hyd, older, list, histVars, bounds>>

(* upsertClientSession: the messages of a session on the tape are not the
   browser's to change. *)
Upsert ==
  /\ put # None /\ put.answer = "none"
  /\ IF row > put.base
     THEN /\ put' = [put EXCEPT !.answer = "conflict", !.ver = row]
          /\ UNCHANGED row
     ELSE /\ row <= MaxWrites
          /\ row' = row + 1
          /\ put' = [put EXCEPT !.answer = "ok", !.ver = row + 1]
  /\ UNCHANGED <<tape, onWire, due, sess, saveVars, hyd, older, list, histVars, bounds>>

PutOk ==
  /\ put # None /\ put.answer = "ok"
  /\ sess' = IF put.live
             THEN [sess EXCEPT !.synced = put.ver, !.dirty = FALSE]
             ELSE sess
  /\ put' = None
  /\ UNCHANGED <<serverVars, onWire, due, saveVars, hyd, older, list, histVars, bounds>>

(* After a 409 the row is read.  _localDominates: the tab has all messages of
   the row; of the tape it is not asked. *)
Dominates == Legacy \subseteq sess.shown

EditedMeanwhile == sess.dirty /\ put.touched

(* The tab keeps its messages and tries again over the row's version. *)
KeepLocal ==
  /\ put # None /\ put.answer = "conflict" /\ Dominates
  /\ sess' = [sess EXCEPT !.synced = put.ver, !.dirty = TRUE]
  /\ saving' = (saving \/ ~ sess.needsFetch)
  /\ put' = None
  /\ UNCHANGED <<serverVars, onWire, due, old, hyd, older, list, histVars, bounds>>

ServerWins ==
  /\ put # None /\ put.answer = "conflict" /\ ~ Dominates
  /\ IF EditedMeanwhile THEN UNCHANGED <<sess, overruled>>
     ELSE /\ sess' = [sess EXCEPT !.synced = put.ver, !.shown = Legacy, !.dirty = FALSE,
                                  !.needsFetch = FALSE, !.streaming = None]
          /\ overruled' = overruled \cup (sess.shown \ Legacy)
  /\ put' = None
  /\ UNCHANGED <<serverVars, onWire, due, saveVars, hyd, older, list, sent, bounds>>

(* The request, its answer or the read after a 409 is lost: the session stays
   dirty. *)
PutFails ==
  /\ put # None /\ upsets < MaxUpsets
  /\ upsets' = upsets + 1
  /\ put' = None
  /\ UNCHANGED <<serverVars, onWire, due, sess, saveVars, hyd, older, list, histVars, reads>>

------------------------------------------------------------------------------
(* What users do.                                                           *)

(* An editor that was opened before may end while the session is not
   hydrated. *)
Rename ==
  /\ upsets < MaxUpsets
  /\ upsets' = upsets + 1
  /\ ScheduleSave(sess)
  /\ UNCHANGED <<serverVars, onWire, due, old, hyd, older, list, histVars, reads>>

DeleteMessage(i) ==
  /\ upsets < MaxUpsets /\ i \in Legacy \cap sess.shown
  /\ upsets' = upsets + 1
  /\ ScheduleSave([sess EXCEPT !.shown = @ \ {i}])
  /\ UNCHANGED <<serverVars, onWire, due, old, hyd, older, list, histVars, reads>>

(* send: a session that is not hydrated, or has a turn of this tab, takes no
   message. *)
Send(u) ==
  /\ u \notin sent \cup onWire \cup Started
  /\ ~ sess.needsFetch /\ sess.inFlight = None
  /\ sent' = sent \cup {u}
  /\ onWire' = onWire \cup {u}
  /\ ScheduleSave([sess EXCEPT !.shown = @ \cup {Message(u)}, !.inFlight = u,
                                  !.streaming = None])
  /\ UNCHANGED <<serverVars, due, old, hyd, older, list, overruled, bounds>>

(* What the other tabs do: they write the row and send messages. *)
OthersPut ==
  /\ row <= MaxWrites
  /\ row' = row + 1
  /\ UNCHANGED <<tape, onWire, due, sess, saveVars, put, hyd, older, list, histVars, bounds>>

OthersSend(u) ==
  /\ u \notin sent \cup onWire \cup Started
  /\ onWire' = onWire \cup {u}
  /\ UNCHANGED <<serverVars, due, sess, saveVars, put, hyd, older, list, histVars, bounds>>

------------------------------------------------------------------------------
(* Turns and their frames.                                                  *)

(* The server takes messages to the tape as they come. *)
Arrive(u) ==
  /\ u \in onWire
  /\ onWire' = onWire \ {u}
  /\ tape' = Append(tape, Message(u))
  /\ UNCHANGED <<row, due, sess, saveVars, put, hyd, older, list, histVars, bounds>>

(* Turns run one after the other, in the order of their messages. *)
Running(u) ==
  \E n \in DOMAIN tape :
    /\ tape[n] = Message(u) /\ u \notin Finished
    /\ \A m \in 1..n - 1 : tape[m][2] = "message" => tape[m][1] \in Finished

(* A frame goes to the tape and then to the tabs. *)
Frame(u, kind) ==
  /\ Running(u) /\ <<u, kind>> \notin Range(tape)
  /\ kind = "part" => Cardinality({n \in DOMAIN tape : tape[n][2] = "part"}) < MaxParts
  /\ tape' = Append(tape, <<u, kind>>)
  /\ due' = Append(due, <<u, kind>>)
  /\ UNCHANGED <<row, onWire, sess, saveVars, put, hyd, older, list, histVars, bounds>>

(* handleOutbound: while a message of its own is unanswered the tab does not
   take frames of another's turn, and reads the session later. *)
NotMine ==
  /\ due # <<>>
  /\ sess.inFlight \notin {None, Head(due)[1]}
  /\ due' = Tail(due)
  /\ sess' = [sess EXCEPT !.needsFetch = TRUE]
  /\ UNCHANGED <<serverVars, onWire, saveVars, put, hyd, older, list, histVars, bounds>>

HandleOutbound ==
  /\ due # <<>>
  /\ LET u == Head(due)[1]
         final == Head(due)[2] = "final"
     IN  /\ sess.inFlight \in {None, u}
         /\ ScheduleSave([sess EXCEPT !.shown = @ \cup {Head(due)},
                                         !.streaming = IF final THEN None ELSE u,
                                         !.inFlight = IF final THEN None ELSE @])
  /\ due' = Tail(due)
  /\ UNCHANGED <<serverVars, onWire, old, hyd, older, list, histVars, bounds>>

(* handleResumeFailed, or a turn_status that the turn is over: frames are
   gone, and the tab knows. *)
StreamBreaks ==
  /\ upsets < MaxUpsets
  /\ upsets' = upsets + 1
  /\ due' = <<>>
  /\ sess' = [sess EXCEPT !.needsFetch = TRUE, !.broken = TRUE,
                          !.inFlight = IF @ \in Finished THEN None ELSE @]
  /\ UNCHANGED <<serverVars, onWire, saveVars, put, hyd, older, list, histVars, reads>>

------------------------------------------------------------------------------
(* Hydration and the list of sessions.                                      *)

(* Slip: what the tab is in the middle of is not asked. *)
CanHydrateSlip == TRUE

(* _canHydrateNow: not while the tab receives an answer, unless frames of it
   are known to be lost. *)
CanHydrate == sess.broken \/ sess.streaming = None

(* hydrateSession reads the row and the end of the tape. *)
Hydrate ==
  /\ ~ sess.dirty /\ hyd = None /\ CanHydrate
  /\ reads < MaxReads /\ reads' = reads + 1
  /\ hyd' = [ver |-> row, seq |-> Len(tape), page |-> None, folded |-> {}]

(* The session is opened, or asked for again after a refusal. *)
HydrateNeeded ==
  /\ sess.needsFetch
  /\ Hydrate
  /\ UNCHANGED <<serverVars, onWire, due, sess, saveVars, put, older, list, histVars, upsets>>

(* listClientSessionTapePage: of some turns of the tape, those that began last,
   with all their frames. *)
First(u) == CHOOSE n \in DOMAIN tape : tape[n][1] = u /\ \A m \in 1..n - 1 : tape[m][1] # u
Newest(us) == {u \in us : Cardinality({v \in us : First(v) > First(u)}) < PageTurns}
Page(us) == {i \in Range(tape) : i[1] \in Newest(us)}
Rest(us) == us \ Newest(us)

(* The page of the tape is read after the row. *)
ReadTape ==
  /\ hyd # None /\ hyd.page = None
  /\ hyd' = [hyd EXCEPT !.page = Page(OnTape), !.folded = Rest(OnTape)]
  /\ UNCHANGED <<serverVars, onWire, due, sess, saveVars, put, older, list, histVars, bounds>>

(* Slip: the timeline is taken as the server has it. *)
PendingUsersSlip == {}

(* Messages of the user that have not come from the tape stay in view. *)
PendingUsers == {i \in sess.shown \ (Legacy \cup sess.pages) : i[2] = "message"}
Snapshot == Legacy \cup hyd.page \cup PendingUsers

(* What was read takes the place of the session, which is a new object: a
   save that waited, or an older page on its way, is one of the old object. *)
Adopt ==
  /\ hyd # None /\ hyd.page # None
  /\ hyd' = None
  /\ IF ~ CanHydrate \/ sess.dirty
     THEN UNCHANGED <<sess, saveVars, older, overruled>>
     ELSE /\ sess' = [sess EXCEPT !.synced = hyd.ver, !.seq = hyd.seq, !.shown = Snapshot,
                                  !.pages = hyd.page, !.folded = hyd.folded,
                                  !.needsFetch = FALSE, !.broken = FALSE, !.streaming = None]
          /\ older' = None
          /\ old' = IF saving /\ ~ sess.needsFetch
                    THEN sess.synced ELSE old
          /\ saving' = FALSE
          /\ overruled' = overruled \ Snapshot
  /\ UNCHANGED <<serverVars, onWire, due, put, list, sent, bounds>>

HydrationFails ==
  /\ hyd # None /\ upsets < MaxUpsets
  /\ upsets' = upsets + 1
  /\ hyd' = None
  /\ UNCHANGED <<serverVars, onWire, due, sess, saveVars, put, older, list, histVars, reads>>

(* loadOlderTape: of the turns that are not loaded, the last. *)
LoadOlderTape ==
  /\ sess.folded # {} /\ older = None
  /\ reads < MaxReads /\ reads' = reads + 1
  /\ older' = [page |-> Page(sess.folded), folded |-> Rest(sess.folded)]
  /\ UNCHANGED <<serverVars, onWire, due, sess, saveVars, put, hyd, list, histVars, upsets>>

(* The messages are put together anew: those of before the tape, all pages, and
   what else was in view. *)
MergeOlder ==
  /\ older # None
  /\ sess' = [sess EXCEPT !.shown = @ \cup Legacy \cup sess.pages \cup older.page,
                          !.pages = @ \cup older.page, !.folded = older.folded]
  /\ overruled' = overruled \ sess'.shown
  /\ older' = None
  /\ UNCHANGED <<serverVars, onWire, due, saveVars, put, hyd, list, sent, bounds>>

OlderFails ==
  /\ older # None /\ upsets < MaxUpsets
  /\ upsets' = upsets + 1
  /\ older' = None
  /\ UNCHANGED <<serverVars, onWire, due, sess, saveVars, put, hyd, list, histVars, reads>>

(* syncSessionsFromServer, on focus, on a reconnect, after a broken stream. *)
ListSessions ==
  /\ list = None /\ reads < MaxReads
  /\ reads' = reads + 1
  /\ list' = [ver |-> row, seq |-> Len(tape)]
  /\ UNCHANGED <<serverVars, onWire, due, sess, saveVars, put, hyd, older, histVars, upsets>>

Changed == list.ver > sess.synced \/ list.seq # sess.seq \/ sess.broken

Stale == IF Changed THEN ~ sess.dirty /\ (sess.inFlight = None \/ sess.broken)
                    ELSE sess.needsFetch

SyncHydrates ==
  /\ list # None /\ Stale
  /\ list' = None
  /\ Hydrate
  /\ UNCHANGED <<serverVars, onWire, due, sess, saveVars, put, older, histVars, upsets>>

(* Slip: the number of the list is taken over although nothing is read. *)
SyncEndsSlip ==
  /\ list # None
  /\ ~ Stale \/ sess.dirty \/ hyd # None \/ ~ CanHydrate
  /\ list' = None
  /\ sess' = [sess EXCEPT !.seq = list.seq]
  /\ UNCHANGED <<serverVars, onWire, due, saveVars, put, hyd, older, histVars, bounds>>

SyncEnds ==
  /\ list # None
  /\ ~ Stale \/ sess.dirty \/ hyd # None \/ ~ CanHydrate
  /\ list' = None
  /\ UNCHANGED <<serverVars, onWire, due, sess, saveVars, put, hyd, older, histVars, bounds>>

Next ==
  \/ DoSave \/ DoSaveOld \/ Upsert \/ PutOk \/ KeepLocal \/ ServerWins \/ PutFails
  \/ Rename \/ \E i \in Legacy : DeleteMessage(i)
  \/ OthersPut \/ \E u \in Turns : Send(u) \/ OthersSend(u) \/ Arrive(u)
  \/ \E u \in Turns : Frame(u, "part") \/ Frame(u, "final")
  \/ NotMine \/ HandleOutbound \/ StreamBreaks
  \/ HydrateNeeded \/ ReadTape \/ Adopt \/ HydrationFails
  \/ LoadOlderTape \/ MergeOlder \/ OlderFails
  \/ ListSessions \/ SyncHydrates \/ SyncEnds

Spec == Init /\ [][Next]_vars

------------------------------------------------------------------------------
(* Properties.                                                              *)

(* A tab that does not say it is incomplete shows all of the tape up to the
   number it compares with the list, but for the turns of older pages, which it
   offers to load: what it lacks of the others, the next list tells. *)
ShowsWhatItKnows ==
  ~ sess.needsFetch =>
    \A n \in 1..sess.seq :
      tape[n] \in sess.shown \cup overruled \/ tape[n][1] \in sess.folded

(* A message that its user has sent stays in the view of the tab, whatever is
   read from the server before it is on the tape, until it is on the tape and in
   one of the older pages. *)
OwnMessagesStay ==
  \A u \in sent :
    Message(u) \in sess.shown \cup overruled \/ u \in sess.folded \cap Started

(* While a tab receives an answer nothing that it shows is taken away by what
   it read before: "it would clobber the tail". *)
LiveViewGrows ==
  [][sess.streaming # None /\ ~ sess.broken =>
       sess.shown \ Legacy \subseteq sess'.shown \cup overruled']_vars

================================================================================
