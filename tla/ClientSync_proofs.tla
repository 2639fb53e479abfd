---------------------------- MODULE ClientSync_proofs ----------------------------
(* What the run of ClientSync shows for two turns and a few reads and writes, *)
(* for any turns and messages, pages of any size, and any number of reads,    *)
(* writes and upsets.                                                         *)
EXTENDS ClientSync, SequenceTheorems, TLAPS

--------------------------------------------------------------------------------
(* The inductive invariant. *)

(* The tab shows, offers to load, or has been told to drop all of the tape up to
   its number. *)
Covered ==
  \A n \in 1..sess.seq : tape[n] \in sess.shown \cup overruled \/ tape[n][1] \in sess.folded

(* A tab that does not cover its number has never read the session: it says that
   it is incomplete, and nothing of it is under way to the server. *)
Covering ==
  /\ sess.seq <= Len(tape)
  /\ Covered \/ (sess.needsFetch /\ put = None /\ old = None)

(* A turn is on the tape with its message first. *)
Begun == OnTape \cap Turns \subseteq Started

(* The pages of the tab have come from the tape, and the turns that it offers to
   load are on the tape. *)
PagesOnTape == sess.pages \subseteq Range(tape) /\ sess.folded \subseteq OnTape

(* An older page has what will no longer be offered when it is merged. *)
OlderCovers ==
  older # None =>
    /\ older.page \subseteq Range(tape) /\ older.folded \subseteq sess.folded
    /\ \A n \in 1..sess.seq : tape[n][1] \in sess.folded \ older.folded => tape[n] \in older.page
    /\ \A u \in Turns : u \in sess.folded \ older.folded => Message(u) \in older.page

(* A turn whose message the tab has read, or may read of an older page. *)
Read(u) ==
  \/ Message(u) \in sess.pages
  \/ older # None /\ Message(u) \in older.page
  \/ u \in sess.folded

(* The page of a hydration, with the turns left for older pages, has the tape up
   to the number it was read with, and every message read before. *)
PageCovers ==
  hyd # None =>
    /\ hyd.seq <= Len(tape)
    /\ hyd.page # None =>
         /\ \A n \in 1..hyd.seq : tape[n] \in hyd.page \/ tape[n][1] \in hyd.folded
         /\ hyd.page \subseteq Range(tape) /\ hyd.folded \subseteq OnTape
         /\ \A u \in Turns : Read(u) => Message(u) \in hyd.page \/ u \in hyd.folded

IInv ==
  TypeOK /\ Begun /\ PagesOnTape /\ Covering /\ OlderCovers /\ PageCovers /\ OwnMessagesStay

--------------------------------------------------------------------------------
(* Types. *)

Folded == SUBSET (Turns \cup {None})
Session == [synced : Nat, seq : Nat, shown : SUBSET Items, pages : SUBSET Items, folded : Folded,
            dirty : BOOLEAN, needsFetch : BOOLEAN, broken : BOOLEAN,
            streaming : Turns \cup {None}, inFlight : Turns \cup {None}]
Put == [live : BOOLEAN, base : Nat, touched : BOOLEAN,
        answer : {"none", "ok", "conflict"}, ver : Nat]
Hyd == [ver : Nat, seq : Nat, page : (SUBSET Items) \cup {None}, folded : Folded]
Older == [page : SUBSET Items, folded : Folded]

(* Messages, parts and answers are items of the tape. *)
LEMMA OfTape ==
  ASSUME NEW u \in Turns \cup {None}, NEW kind \in {"message", "part", "final"}
  PROVE  <<u, kind>> \in Items \ Legacy
BY LegacyAssumption DEF Items

(* Scheduling a save keeps the session and the request under way typed. *)
LEMMA SaveTyped ==
  ASSUME NEW s \in Session, ScheduleSave(s), saving \in BOOLEAN, put = None \/ put \in Put
  PROVE  /\ sess' \in Session /\ saving' \in BOOLEAN /\ (put' = None \/ put' \in Put)
         /\ sess'.shown = s.shown /\ sess'.seq = s.seq /\ sess'.needsFetch = s.needsFetch
         /\ sess'.pages = s.pages /\ sess'.folded = s.folded
         /\ put = None => put' = None
<1>1. CASE s.needsFetch
  BY <1>1 DEF ScheduleSave
<1>2. CASE ~ s.needsFetch
  <2>1. /\ sess' = [s EXCEPT !.dirty = TRUE] /\ saving' = TRUE
        /\ put' = IF put = None THEN None ELSE [put EXCEPT !.touched = TRUE]
    BY <1>2 DEF ScheduleSave
  <2>2. put' = None \/ put' \in Put
    BY <2>1 DEF Put
  <2>3. QED
    BY <2>1, <2>2 DEF Session
<1>3. QED
  BY <1>1, <1>2

(* A page is of the tape, and what is left is of the turns asked for. *)
LEMMA OfPage ==
  ASSUME tape \in Seq(Items \ Legacy)
  PROVE  /\ OnTape \in Folded /\ Range(tape) \subseteq Items
         /\ DOMAIN tape = 1..Len(tape) /\ Len(tape) \in Nat
         /\ \A us : Page(us) \subseteq Range(tape) /\ Rest(us) \subseteq us
         /\ \A us : \A i \in Range(tape) : i[1] \in us => i \in Page(us) \/ i[1] \in Rest(us)
<1>1. DOMAIN tape = 1..Len(tape) /\ Len(tape) \in Nat
  OBVIOUS
<1>2. \A n \in 1..Len(tape) : tape[n] \in Items \ Legacy
  OBVIOUS
<1>3. Range(tape) \subseteq Items \ Legacy
  BY <1>1, <1>2 DEF Range
<1>4. ASSUME NEW i \in Items \ Legacy PROVE i[1] \in Turns \cup {None}
  BY <1>4 DEF Items
<1>5. OnTape \in Folded
  BY <1>3, <1>4 DEF OnTape, Folded
<1>6. QED
  BY <1>1, <1>3, <1>5 DEF Page, Rest, Newest

(* The invariant holds at first. *)
LEMMA InvInit == Init => IInv
<1> SUFFICES ASSUME Init PROVE IInv
  OBVIOUS
<1>1. Earlier \in Items \ Legacy
  BY OfTape DEF Earlier
<1>2. tape \in Seq(Items \ Legacy) /\ Len(tape) = 1 /\ tape[1] = Earlier
  BY <1>1 DEF Init
<1>3. PICK cold \in BOOLEAN :
        sess = [synced |-> 1, seq |-> 1,
                shown |-> IF cold THEN {} ELSE Legacy \cup {Earlier},
                pages |-> {}, folded |-> {},
                dirty |-> FALSE, needsFetch |-> cold, broken |-> FALSE,
                streaming |-> None, inFlight |-> None]
  BY DEF Init
<1>4. (IF cold THEN {} ELSE Legacy \cup {Earlier}) \in SUBSET Items
  BY <1>1 DEF Items
<1>5. sess \in Session
  BY <1>3, <1>4 DEF Session, Folded
<1>6. TypeOK
  <2>1. saving \in BOOLEAN
    BY DEF Init
  <2>2. row \in Nat /\ due \in Seq(Items \ Legacy) /\ old = None /\ put = None /\ hyd = None
        /\ older = None /\ list = None /\ onWire = {} /\ sent = {} /\ overruled = {}
    BY DEF Init
  <2>3. QED
    BY <1>2, <1>5, <2>1, <2>2 DEF TypeOK, Session, Folded
<1>7. Covering
  BY <1>2, <1>3 DEF Init, Covering, Covered
<1>8. Begun
  <2>1. Range(tape) = {Earlier}
    BY <1>2 DEF Init, Range
  <2>2. OnTape = {None}
    BY <2>1 DEF OnTape, Earlier
  <2>3. QED
    BY <2>2, SyncAssumption DEF Begun
<1>9. QED
  BY <1>3, <1>6, <1>7, <1>8 DEF Init, IInv, PagesOnTape, OlderCovers, PageCovers, OwnMessagesStay

(* Every step keeps types. *)
LEMMA TypeStep == TypeOK /\ [Next]_vars => TypeOK'
<1> SUFFICES ASSUME TypeOK, [Next]_vars PROVE TypeOK'
  OBVIOUS
<1>1. /\ row \in Nat /\ tape \in Seq(Items \ Legacy)
      /\ onWire \subseteq Turns /\ due \in Seq(Items \ Legacy)
      /\ sess \in Session /\ saving \in BOOLEAN /\ old \in Nat \cup {None}
      /\ put = None \/ put \in Put
      /\ hyd = None \/ hyd \in Hyd
      /\ older = None \/ older \in Older
      /\ list = None \/ list \in [ver : Nat, seq : Nat]
      /\ sent \subseteq Turns /\ overruled \subseteq Items
  BY DEF TypeOK, Session, Put, Hyd, Older, Folded
<1>2. Legacy \subseteq Items
  BY DEF Items
<1> DEFINE Server  == row' \in Nat /\ tape' \in Seq(Items \ Legacy)
           Traffic == onWire' \subseteq Turns /\ due' \in Seq(Items \ Legacy)
           Tab     == sess' \in Session /\ saving' \in BOOLEAN /\ old' \in Nat \cup {None}
           Saves   == put' = None \/ put' \in Put
           Reads   == /\ hyd' = None \/ hyd' \in Hyd
                      /\ older' = None \/ older' \in Older
                      /\ list' = None \/ list' \in [ver : Nat, seq : Nat]
           Seen    == sent' \subseteq Turns /\ overruled' \subseteq Items
           Typed   == Server /\ Traffic /\ Tab /\ Saves /\ Reads /\ Seen
<1>3. ASSUME Typed PROVE TypeOK'
  BY <1>3 DEF TypeOK, Session, Put, Hyd, Older, Folded
<1> USE DEF serverVars, saveVars, histVars, bounds
<1>4. CASE DoSave
  <2>1. put' = None \/ put' \in Put
    BY <1>1, <1>4 DEF DoSave, Request, Put, Session
  <2>2. QED
    BY <1>1, <1>3, <1>4, <2>1 DEF DoSave
<1>5. CASE DoSaveOld
  <2>1. put' \in Put
    BY <1>1, <1>5 DEF DoSaveOld, Request, Put
  <2>2. QED
    BY <1>1, <1>3, <1>5, <2>1 DEF DoSaveOld
<1>6. CASE Upsert
  <2>1. put \in Put
    BY <1>1, <1>6 DEF Upsert
  <2>2. CASE row > put.base
    BY ZenonT(40), <1>1, <1>3, <1>6, <2>1, <2>2 DEF Upsert, Put
  <2>3. CASE ~ row > put.base
    <3>1. row' = row + 1 /\ put' = [put EXCEPT !.answer = "ok", !.ver = row + 1]
      BY <1>6, <2>3 DEF Upsert
    <3>2. row' \in Nat
      BY <1>1, <3>1
    <3>3. put' = [put EXCEPT !.answer = "ok", !.ver = row']
      BY <3>1
    <3>4. put' \in Put
      BY <2>1, <3>2, <3>3 DEF Put
    <3>5. QED
      BY <1>1, <1>3, <1>6, <3>2, <3>4 DEF Upsert
  <2>4. QED
    BY <2>2, <2>3
<1>7. CASE PutOk
  <2>1. sess' \in Session
    BY <1>1, <1>7 DEF PutOk, Put, Session
  <2>2. QED
    BY <1>1, <1>3, <1>7, <2>1 DEF PutOk
<1>8. CASE KeepLocal
  <2>1. sess' \in Session /\ saving' \in BOOLEAN
    BY <1>1, <1>8 DEF KeepLocal, Put, Session
  <2>2. QED
    BY <1>1, <1>3, <1>8, <2>1 DEF KeepLocal
<1>9. CASE ServerWins
  <2>1. sess' \in Session
    <3>1. put.ver \in Nat
      BY <1>1, <1>9 DEF ServerWins, Put
    <3>2. [sess EXCEPT !.synced = put.ver, !.shown = Legacy, !.dirty = FALSE,
                       !.needsFetch = FALSE, !.streaming = None] \in Session
      BY <1>1, <1>2, <3>1 DEF Session
    <3>3. QED
      BY <1>1, <1>9, <3>2 DEF ServerWins
  <2>2. overruled' \subseteq Items
    BY <1>1, <1>9 DEF ServerWins, Session
  <2>3. QED
    BY <1>1, <1>3, <1>9, <2>1, <2>2 DEF ServerWins
<1>10. CASE PutFails \/ OthersPut
  BY <1>1, <1>3, <1>10 DEF PutFails, OthersPut
<1>11. CASE Rename
  <2>1. Tab /\ Saves
    BY <1>1, <1>11, SaveTyped DEF Rename
  <2>2. QED
    BY <1>1, <1>3, <1>11, <2>1 DEF Rename
<1>12. ASSUME NEW i \in Legacy, DeleteMessage(i) PROVE TypeOK'
  <2>1. [sess EXCEPT !.shown = @ \ {i}] \in Session
    BY <1>1 DEF Session
  <2>2. Tab /\ Saves
    BY <1>1, <1>12, <2>1, SaveTyped DEF DeleteMessage
  <2>3. QED
    BY <1>1, <1>3, <1>12, <2>2 DEF DeleteMessage
<1>13. ASSUME NEW u \in Turns, Send(u) PROVE TypeOK'
  <2>1. Message(u) \in Items
    BY OfTape DEF Message
  <2>2. [sess EXCEPT !.shown = @ \cup {Message(u)}, !.inFlight = u, !.streaming = None] \in Session
    BY <1>1, <2>1 DEF Session
  <2>3. Tab /\ Saves
    BY <1>1, <1>13, <2>2, SaveTyped DEF Send
  <2>4. QED
    BY <1>1, <1>3, <1>13, <2>3 DEF Send
<1>14. ASSUME NEW u \in Turns, OthersSend(u) PROVE TypeOK'
  BY <1>1, <1>3, <1>14 DEF OthersSend
<1>15. ASSUME NEW u \in Turns, Arrive(u) PROVE TypeOK'
  <2>1. Message(u) \in Items \ Legacy
    BY OfTape DEF Message
  <2>2. tape' \in Seq(Items \ Legacy)
    BY <1>1, <1>15, <2>1 DEF Arrive
  <2>3. QED
    BY <1>1, <1>3, <1>15, <2>2 DEF Arrive
<1>16. ASSUME NEW u \in Turns, NEW kind \in {"part", "final"}, Frame(u, kind) PROVE TypeOK'
  <2>1. <<u, kind>> \in Items \ Legacy
    BY OfTape
  <2>2. tape' \in Seq(Items \ Legacy) /\ due' \in Seq(Items \ Legacy)
    BY <1>1, <1>16, <2>1 DEF Frame
  <2>3. QED
    BY <1>1, <1>3, <1>16, <2>2 DEF Frame
<1>17. CASE NotMine
  <2>1. sess' \in Session
    BY <1>1, <1>17 DEF NotMine, Session
  <2>2. due' \in Seq(Items \ Legacy)
    BY <1>1, <1>17 DEF NotMine
  <2>3. QED
    BY <1>1, <1>3, <1>17, <2>1, <2>2 DEF NotMine
<1>18. CASE HandleOutbound
  <2> DEFINE u == Head(due)[1]
             final == Head(due)[2] = "final"
  <2>1. due # <<>> /\ Head(due) \in Items \ Legacy /\ due' = Tail(due)
    BY <1>1, <1>18 DEF HandleOutbound
  <2>2. u \in Turns \cup {None}
    BY <2>1 DEF Items
  <2>3. [sess EXCEPT !.shown = @ \cup {Head(due)},
                     !.streaming = IF final THEN None ELSE u,
                     !.inFlight = IF final THEN None ELSE @] \in Session
    BY <1>1, <2>1, <2>2 DEF Session
  <2>4. Tab /\ Saves
    BY <1>1, <1>18, <2>3, SaveTyped DEF HandleOutbound
  <2>5. due' \in Seq(Items \ Legacy)
    BY <1>1, <2>1
  <2>6. QED
    BY <1>1, <1>3, <1>18, <2>4, <2>5 DEF HandleOutbound
<1>19. CASE StreamBreaks
  <2>1. sess' \in Session
    BY <1>1, <1>19 DEF StreamBreaks, Session
  <2>2. QED
    BY <1>1, <1>3, <1>19, <2>1 DEF StreamBreaks
<1>20. ASSUME Hydrate PROVE hyd' \in Hyd
  <2>1. Len(tape) \in Nat
    BY <1>1
  <2>2. QED
    BY <1>1, <1>20, <2>1 DEF Hydrate, Hyd, Folded
<1>21. CASE HydrateNeeded
  BY <1>1, <1>3, <1>20, <1>21 DEF HydrateNeeded
<1>22. CASE ReadTape
  <2>1. Page(OnTape) \subseteq Items /\ Rest(OnTape) \in Folded
    BY <1>1, OfPage DEF Folded
  <2>2. Reads
    BY <1>1, <1>22, <2>1 DEF ReadTape, Hyd
  <2>3. QED
    BY <1>1, <1>3, <1>22, <2>2 DEF ReadTape
<1>23. CASE Adopt
  <2>1. hyd \in Hyd /\ hyd.page \subseteq Items
    BY <1>1, <1>23 DEF Adopt, Hyd
  <2>2. Snapshot \subseteq Items
    BY <1>1, <1>2, <2>1 DEF Snapshot, PendingUsers, Session
  <2>3. sess' \in Session
    <3>1. CASE UNCHANGED sess
      BY <1>1, <3>1
    <3>2. CASE ~ UNCHANGED sess
      <4>1. sess' = [sess EXCEPT !.synced = hyd.ver, !.seq = hyd.seq, !.shown = Snapshot,
                                 !.pages = hyd.page, !.folded = hyd.folded,
                                 !.needsFetch = FALSE, !.broken = FALSE, !.streaming = None]
        BY <1>23, <3>2 DEF Adopt
      <4>2. hyd.ver \in Nat /\ hyd.seq \in Nat /\ hyd.folded \in Folded
        BY <2>1 DEF Hyd
      <4>3. QED
        BY <1>1, <2>1, <2>2, <4>1, <4>2 DEF Session
    <3>3. QED
      BY <3>1, <3>2
  <2>4. /\ saving' \in BOOLEAN /\ old' \in Nat \cup {None} /\ overruled' \subseteq Items
        /\ older' = None \/ older' \in Older
    BY <1>1, <1>23 DEF Adopt, Session
  <2>5. QED
    BY <1>1, <1>3, <1>23, <2>3, <2>4 DEF Adopt
<1>24. CASE HydrationFails \/ OlderFails \/ SyncEnds
  BY <1>1, <1>3, <1>24 DEF HydrationFails, OlderFails, SyncEnds
<1>25. CASE ListSessions
  <2>1. list' \in [ver : Nat, seq : Nat]
    BY <1>1, <1>25 DEF ListSessions
  <2>2. QED
    BY <1>1, <1>3, <1>25, <2>1 DEF ListSessions
<1>26. CASE SyncHydrates
  BY <1>1, <1>3, <1>20, <1>26 DEF SyncHydrates
<1>27. CASE LoadOlderTape
  <2>1. older' \in Older
    <3>1. sess.folded \in Folded
      BY <1>1 DEF Session
    <3>2. Page(sess.folded) \subseteq Items /\ Rest(sess.folded) \in Folded
      BY <1>1, <3>1, OfPage DEF Folded
    <3>3. QED
      BY <1>27, <3>2 DEF LoadOlderTape, Older
  <2>2. QED
    BY <1>1, <1>3, <1>27, <2>1 DEF LoadOlderTape
<1>28. CASE MergeOlder
  <2>1. older \in Older
    BY <1>1, <1>28 DEF MergeOlder
  <2>2. sess' \in Session
    <3>1. /\ sess.shown \cup Legacy \cup sess.pages \cup older.page \in SUBSET Items
          /\ sess.pages \cup older.page \in SUBSET Items /\ older.folded \in Folded
      BY <1>1, <1>2, <2>1 DEF Session, Older
    <3>2. QED
      BY <1>1, <1>28, <3>1 DEF MergeOlder, Session
  <2>3. overruled' \subseteq Items
    BY <1>1, <1>28 DEF MergeOlder
  <2>4. QED
    BY <1>1, <1>3, <1>28, <2>2, <2>3 DEF MergeOlder
<1>29. CASE UNCHANGED vars
  BY <1>1, <1>3, <1>29 DEF vars
<1>30. QED
  BY <1>4, <1>5, <1>6, <1>7, <1>8, <1>9, <1>10, <1>11, <1>12, <1>13, <1>14, <1>15, <1>16, <1>17,
     <1>18, <1>19, <1>21, <1>22, <1>23, <1>24, <1>25, <1>26, <1>27, <1>28, <1>29 DEF Next

--------------------------------------------------------------------------------
(* The tape and what was read of it. *)

(* The tape only grows. *)
LEMMA TapeGrows ==
  ASSUME TypeOK, [Next]_vars
  PROVE  /\ Len(tape) \in Nat /\ Len(tape') \in Nat /\ Len(tape) <= Len(tape')
         /\ \A i \in 1..Len(tape) : tape'[i] = tape[i] /\ tape[i] \notin Legacy
         /\ Range(tape) \subseteq Range(tape') /\ OnTape \subseteq OnTape' /\ Started \subseteq Started'
<1> SUFFICES /\ Len(tape) \in Nat /\ Len(tape') \in Nat /\ Len(tape) <= Len(tape')
             /\ \A i \in 1..Len(tape) : tape'[i] = tape[i] /\ tape[i] \notin Legacy
  <2>1. DOMAIN tape = 1..Len(tape) /\ DOMAIN tape' = 1..Len(tape')
    BY TypeStep DEF TypeOK
  <2>2. Range(tape) \subseteq Range(tape')
    BY <2>1 DEF Range
  <2>3. QED
    BY <2>2 DEF OnTape, Started
<1>1. tape \in Seq(Items \ Legacy)
  BY DEF TypeOK
<1>2. \A i \in 1..Len(tape) : tape[i] \notin Legacy
  BY <1>1
<1>3. ASSUME NEW u \in Turns, NEW kind \in {"message", "part", "final"},
             tape' = Append(tape, <<u, kind>>)
      PROVE  /\ Len(tape') \in Nat /\ Len(tape) <= Len(tape')
             /\ \A i \in 1..Len(tape) : tape'[i] = tape[i]
  BY <1>1, <1>3
<1>4. ASSUME NEW u \in Turns, Arrive(u) \/ Frame(u, "part") \/ Frame(u, "final")
      PROVE  \E kind \in {"message", "part", "final"} : tape' = Append(tape, <<u, kind>>)
  BY <1>4 DEF Arrive, Frame, Message
<1>5. CASE UNCHANGED tape
  BY <1>1, <1>2, <1>5
<1>6. CASE \E u \in Turns : Arrive(u) \/ Frame(u, "part") \/ Frame(u, "final")
  BY <1>1, <1>2, <1>3, <1>4, <1>6
<1>7. QED
  BY <1>5, <1>6
  DEF Next, vars, serverVars, DoSave, DoSaveOld, Upsert, PutOk, KeepLocal, ServerWins, PutFails,
      Rename, DeleteMessage, OthersPut, Send, OthersSend, NotMine, HandleOutbound, StreamBreaks,
      HydrateNeeded, ReadTape, Adopt, HydrationFails, LoadOlderTape, MergeOlder, OlderFails,
      ListSessions, SyncHydrates, SyncEnds

(* Every turn of the tape has begun with its message. *)
LEMMA BegunStep ==
  ASSUME TypeOK, Begun, [Next]_vars
  PROVE  Begun'
<1>1. tape \in Seq(Items \ Legacy) /\ DOMAIN tape = 1..Len(tape) /\ Len(tape) \in Nat
  BY DEF TypeOK
<1>2. Started \subseteq Started'
  BY TapeGrows
<1>3. ASSUME NEW u \in Turns, NEW kind \in {"message", "part", "final"},
             tape' = Append(tape, <<u, kind>>)
      PROVE  Range(tape') = Range(tape) \cup {<<u, kind>>}
  <2>1. /\ Len(tape') = Len(tape) + 1 /\ DOMAIN tape' = 1..Len(tape) + 1
        /\ tape'[Len(tape) + 1] = <<u, kind>> /\ \A n \in 1..Len(tape) : tape'[n] = tape[n]
    BY <1>1, <1>3
  <2>2. 1..Len(tape) + 1 = 1..Len(tape) \cup {Len(tape) + 1}
    BY <1>1
  <2>3. Range(tape') \subseteq Range(tape) \cup {<<u, kind>>}
    BY <1>1, <2>1, <2>2 DEF Range
  <2>4. Range(tape) \subseteq Range(tape')
    BY TapeGrows
  <2>5. <<u, kind>> \in Range(tape')
    BY <1>1, <2>1, <2>2 DEF Range
  <2>6. QED
    BY <2>3, <2>4, <2>5
<1>4. ASSUME NEW u \in Turns, Arrive(u) PROVE Begun'
  <2>1. Range(tape') = Range(tape) \cup {Message(u)} /\ Message(u)[1] = u
    BY <1>3, <1>4 DEF Arrive, Message
  <2>2. OnTape' = OnTape \cup {u} /\ u \in Started'
    BY <2>1, Zenon DEF OnTape, Started, Message
  <2>3. QED
    BY <1>2, <2>2 DEF Begun
<1>5. ASSUME NEW u \in Turns, NEW kind \in {"part", "final"}, Frame(u, kind) PROVE Begun'
  <2>1. Range(tape') = Range(tape) \cup {<<u, kind>>} /\ <<u, kind>>[1] = u
    BY <1>3, <1>5 DEF Frame
  <2>2. OnTape' = OnTape \cup {u}
    BY <2>1, Zenon DEF OnTape
  <2>3. u \in Started
    BY <1>5 DEF Frame, Running, Started, Range
  <2>4. QED
    BY <1>2, <2>2, <2>3 DEF Begun
<1>6. CASE UNCHANGED tape
  BY <1>6 DEF Begun, OnTape, Started
<1>7. QED
  BY <1>4, <1>5, <1>6
  DEF Next, vars, serverVars, DoSave, DoSaveOld, Upsert, PutOk, KeepLocal, ServerWins, PutFails,
      Rename, DeleteMessage, OthersPut, Send, OthersSend, NotMine, HandleOutbound, StreamBreaks,
      HydrateNeeded, ReadTape, Adopt, HydrationFails, LoadOlderTape, MergeOlder, OlderFails,
      ListSessions, SyncHydrates, SyncEnds

--------------------------------------------------------------------------------
(* The view of the tab. *)

(* What a step keeps of the view: the number and the pages; and it drops no item of
   the tape without recording it. *)
Grows ==
  /\ sess'.seq = sess.seq /\ sess'.pages = sess.pages /\ sess'.folded = sess.folded
  /\ \A i \in sess.shown \cup overruled : i \in Legacy \/ i \in sess'.shown \cup overruled'
  /\ sess.needsFetch /\ put = None /\ old = None => sess'.needsFetch /\ put' = None /\ old' = None

(* So do all steps but the adoption of a hydration and the merging of a page. *)
LEMMA ViewGrows ==
  ASSUME TypeOK, [Next]_vars, ~ Adopt, ~ MergeOlder
  PROVE  Grows
<1>1. sess \in Session /\ saving \in BOOLEAN /\ (put = None \/ put \in Put)
  BY DEF TypeOK, Session, Put, Folded
<1>2. CASE UNCHANGED <<sess, overruled, old, put>>
  BY <1>2 DEF Grows
<1>3. ASSUME NEW s \in Session, ScheduleSave(s), UNCHANGED <<overruled, old>>,
             s.seq = sess.seq, \A i \in sess.shown : i \in Legacy \/ i \in s.shown,
             s.needsFetch = sess.needsFetch, s.pages = sess.pages, s.folded = sess.folded
      PROVE  Grows
  BY <1>1, <1>3, SaveTyped DEF Grows
<1>4. CASE DoSave \/ DoSaveOld \/ Upsert \/ PutFails
  <2>1. UNCHANGED <<sess, overruled>> /\ (old = None => old' = None)
    BY <1>4 DEF DoSave, DoSaveOld, Upsert, PutFails, saveVars, histVars
  <2>2. CASE DoSave
    BY <2>1, <2>2 DEF DoSave, Grows
  <2>3. CASE DoSaveOld
    BY <2>1, <2>3 DEF DoSaveOld, Grows
  <2>4. CASE Upsert
    BY <2>1, <2>4 DEF Upsert, Grows
  <2>5. CASE PutFails
    BY <2>1, <2>5 DEF PutFails, Grows
  <2>6. QED
    BY <1>4, <2>2, <2>3, <2>4, <2>5
<1>5. CASE PutOk \/ KeepLocal
  <2>1. /\ UNCHANGED <<overruled, old>> /\ put # None /\ sess'.seq = sess.seq
        /\ sess'.shown = sess.shown /\ sess'.pages = sess.pages /\ sess'.folded = sess.folded
    BY <1>1, <1>5 DEF PutOk, KeepLocal, saveVars, histVars, Session
  <2>2. QED
    BY <2>1 DEF Grows
<1>6. CASE ServerWins
  <2>1. put # None /\ UNCHANGED old
    BY <1>6 DEF ServerWins, saveVars
  <2>2. CASE UNCHANGED <<sess, overruled>>
    BY <2>1, <2>2 DEF Grows
  <2>3. CASE ~ EditedMeanwhile
    <3>1. /\ sess' = [sess EXCEPT !.synced = put.ver, !.shown = Legacy, !.dirty = FALSE,
                                  !.needsFetch = FALSE, !.streaming = None]
          /\ overruled' = overruled \cup (sess.shown \ Legacy)
      BY <1>6, <2>3 DEF ServerWins
    <3>2. /\ sess'.seq = sess.seq /\ sess'.pages = sess.pages /\ sess'.folded = sess.folded
          /\ sess'.shown = Legacy
      BY <1>1, <3>1 DEF Session
    <3>3. QED
      BY <2>1, <3>1, <3>2 DEF Grows
  <2>4. QED
    BY <1>6, <2>2, <2>3 DEF ServerWins
<1>7. CASE Rename
  BY <1>1, <1>3, <1>7 DEF Rename, histVars
<1>8. ASSUME NEW i \in Legacy, DeleteMessage(i) PROVE Grows
  <2> DEFINE s == [sess EXCEPT !.shown = @ \ {i}]
  <2>1. /\ s \in Session /\ s.seq = sess.seq /\ s.shown = sess.shown \ {i} /\ s.needsFetch = sess.needsFetch
        /\ s.pages = sess.pages /\ s.folded = sess.folded
    BY <1>1 DEF Session
  <2>2. ScheduleSave(s) /\ UNCHANGED <<overruled, old>>
    BY <1>8 DEF DeleteMessage, histVars
  <2> HIDE DEF s
  <2>3. QED
    BY <1>3, <2>1, <2>2
<1>9. ASSUME NEW u \in Turns, Send(u) PROVE Grows
  <2> DEFINE s == [sess EXCEPT !.shown = @ \cup {Message(u)}, !.inFlight = u, !.streaming = None]
  <2>0. Message(u) \in Items
    BY OfTape DEF Message
  <2>1. /\ s \in Session /\ s.seq = sess.seq /\ s.shown = sess.shown \cup {Message(u)}
        /\ s.needsFetch = sess.needsFetch /\ s.pages = sess.pages /\ s.folded = sess.folded
    BY <1>1, <2>0 DEF Session
  <2>2. ScheduleSave(s) /\ UNCHANGED <<overruled, old>>
    BY <1>9 DEF Send
  <2> HIDE DEF s
  <2>3. QED
    BY <1>3, <2>1, <2>2
<1>10. CASE HandleOutbound
  <2> DEFINE u == Head(due)[1]
             final == Head(due)[2] = "final"
             s == [sess EXCEPT !.shown = @ \cup {Head(due)},
                               !.streaming = IF final THEN None ELSE u,
                               !.inFlight = IF final THEN None ELSE @]
  <2>1. Head(due) \in Items \ Legacy
    BY <1>10 DEF HandleOutbound, TypeOK
  <2>2. u \in Turns \cup {None}
    BY <2>1 DEF Items
  <2>3. /\ s \in Session /\ s.seq = sess.seq /\ s.shown = sess.shown \cup {Head(due)}
        /\ s.needsFetch = sess.needsFetch /\ s.pages = sess.pages /\ s.folded = sess.folded
    BY <1>1, <2>1, <2>2 DEF Session
  <2>4. ScheduleSave(s) /\ UNCHANGED <<overruled, old>>
    BY <1>10 DEF HandleOutbound, histVars
  <2> HIDE DEF s
  <2>5. QED
    BY <1>3, <2>3, <2>4
<1>11. CASE NotMine \/ StreamBreaks
  <2>1. /\ UNCHANGED <<overruled, old, put>> /\ sess'.seq = sess.seq /\ sess'.shown = sess.shown
        /\ sess'.needsFetch /\ sess'.pages = sess.pages /\ sess'.folded = sess.folded
    BY <1>1, <1>11 DEF NotMine, StreamBreaks, saveVars, histVars, Session
  <2>2. QED
    BY <2>1 DEF Grows
<1>12. QED
  BY <1>2, <1>4, <1>5, <1>6, <1>7, <1>8, <1>9, <1>10, <1>11
  DEF Next, vars, saveVars, histVars, OthersPut, OthersSend, Arrive, Frame, HydrateNeeded, ReadTape,
      HydrationFails, LoadOlderTape, OlderFails, ListSessions, SyncHydrates, SyncEnds

(* What the adoption of a hydration makes of the view, if it is not refused. *)
LEMMA Adopted ==
  ASSUME TypeOK, PageCovers, Adopt
  PROVE  \/ UNCHANGED <<sess, put, old, older, overruled>>
         \/ /\ sess'.seq = hyd.seq /\ sess'.shown = Snapshot /\ overruled' = overruled \ Snapshot
            /\ sess'.pages = hyd.page /\ sess'.folded = hyd.folded /\ older' = None
            /\ hyd.page \subseteq Snapshot /\ hyd.seq \in Nat /\ hyd.seq <= Len(tape)
            /\ \A n \in 1..hyd.seq : tape[n] \in hyd.page \/ tape[n][1] \in hyd.folded
            /\ hyd.page \subseteq Range(tape) /\ hyd.folded \subseteq OnTape
            /\ \A u \in Turns : Read(u) => Message(u) \in hyd.page \/ u \in hyd.folded
            /\ CanHydrate
<1>1. sess \in Session /\ hyd \in Hyd
  BY DEF TypeOK, Session, Adopt, Hyd, Folded
<1>2. CASE ~ CanHydrate \/ sess.dirty
  BY <1>2 DEF Adopt, saveVars
<1>3. CASE ~ (~ CanHydrate \/ sess.dirty)
  <2>1. /\ sess' = [sess EXCEPT !.synced = hyd.ver, !.seq = hyd.seq, !.shown = Snapshot,
                                !.pages = hyd.page, !.folded = hyd.folded,
                                !.needsFetch = FALSE, !.broken = FALSE, !.streaming = None]
        /\ overruled' = overruled \ Snapshot /\ older' = None
    BY <1>3 DEF Adopt
  <2>2. /\ sess'.seq = hyd.seq /\ sess'.shown = Snapshot
        /\ sess'.pages = hyd.page /\ sess'.folded = hyd.folded
    BY <1>1, <2>1 DEF Session
  <2>3. /\ hyd.seq <= Len(tape)
        /\ \A n \in 1..hyd.seq : tape[n] \in hyd.page \/ tape[n][1] \in hyd.folded
        /\ hyd.page \subseteq Range(tape) /\ hyd.folded \subseteq OnTape
        /\ \A u \in Turns : Read(u) => Message(u) \in hyd.page \/ u \in hyd.folded
    BY DEF Adopt, PageCovers
  <2>4. hyd.seq \in Nat /\ hyd.page \subseteq Snapshot
    BY <1>1 DEF Hyd, Snapshot
  <2>5. QED
    BY <1>3, <2>1, <2>2, <2>3, <2>4
<1>4. QED
  BY <1>2, <1>3

(* What the merging of an older page makes of it. *)
LEMMA Merged ==
  ASSUME TypeOK, OlderCovers, MergeOlder
  PROVE  /\ sess'.seq = sess.seq /\ sess'.needsFetch = sess.needsFetch
         /\ sess'.shown = sess.shown \cup Legacy \cup sess.pages \cup older.page
         /\ sess'.pages = sess.pages \cup older.page /\ sess'.folded = older.folded
         /\ overruled' = overruled \ sess'.shown
         /\ older # None /\ older' = None /\ UNCHANGED <<tape, hyd, put, old, sent>>
         /\ older.page \subseteq Range(tape) /\ older.folded \subseteq sess.folded
         /\ \A n \in 1..sess.seq : tape[n][1] \in sess.folded \ older.folded => tape[n] \in older.page
         /\ \A u \in Turns : u \in sess.folded \ older.folded => Message(u) \in older.page
<1>1. sess \in Session
  BY DEF TypeOK, Session, Folded
<1>2. /\ sess'.seq = sess.seq /\ sess'.needsFetch = sess.needsFetch
      /\ sess'.shown = sess.shown \cup Legacy \cup sess.pages \cup older.page
      /\ sess'.pages = sess.pages \cup older.page /\ sess'.folded = older.folded
  BY <1>1 DEF MergeOlder, Session
<1>3. QED
  BY <1>2 DEF MergeOlder, OlderCovers, serverVars, saveVars

(* A step changes the older page that is under way only if it reads, merges, drops
   or loses one. *)
LEMMA OlderKept ==
  ASSUME [Next]_vars
  PROVE  UNCHANGED older \/ older' = None \/ LoadOlderTape
BY DEF Next, vars, DoSave, DoSaveOld, Upsert, PutOk, KeepLocal, ServerWins, PutFails, Rename,
       DeleteMessage, OthersPut, Send, OthersSend, Arrive, Frame, NotMine, HandleOutbound,
       StreamBreaks, HydrateNeeded, ReadTape, Adopt, HydrationFails, MergeOlder, OlderFails,
       ListSessions, SyncHydrates, SyncEnds

(* Of the turns offered, an older page takes some with all their frames. *)
LEMMA OlderRead ==
  ASSUME TypeOK, Begun, PagesOnTape, Covering, LoadOlderTape
  PROVE  /\ UNCHANGED <<sess, tape>>
         /\ older'.page \subseteq Range(tape) /\ older'.folded \subseteq sess.folded
         /\ \A n \in 1..sess.seq : tape[n][1] \in sess.folded \ older'.folded => tape[n] \in older'.page
         /\ \A u \in Turns : u \in sess.folded \ older'.folded => Message(u) \in older'.page
         /\ \A i \in older'.page : i[1] \in sess.folded
<1>1. /\ older' = [page |-> Page(sess.folded), folded |-> Rest(sess.folded)]
      /\ UNCHANGED <<sess, tape>>
  BY DEF LoadOlderTape, serverVars
<1>2. /\ DOMAIN tape = 1..Len(tape) /\ Len(tape) \in Nat
      /\ Page(sess.folded) \subseteq Range(tape) /\ Rest(sess.folded) \subseteq sess.folded
      /\ \A i \in Range(tape) :
           i[1] \in sess.folded => i \in Page(sess.folded) \/ i[1] \in Rest(sess.folded)
  BY OfPage DEF TypeOK
<1>3. older'.page = Page(sess.folded) /\ older'.folded = Rest(sess.folded)
  BY <1>1
<1>4. ASSUME NEW n \in 1..sess.seq PROVE tape[n] \in Range(tape)
  <2>1. sess.seq \in Nat /\ sess.seq <= Len(tape)
    BY DEF TypeOK, Covering
  <2>2. n \in DOMAIN tape
    BY <1>2, <1>4, <2>1
  <2>3. QED
    BY <2>2 DEF Range
<1>5. ASSUME NEW u \in Turns, u \in sess.folded
      PROVE  Message(u) \in Range(tape) /\ Message(u)[1] = u
  BY <1>5 DEF PagesOnTape, Begun, Started, Message
<1>6. \A i \in older'.page : i[1] \in sess.folded
  BY <1>3 DEF Page, Newest
<1>7. QED
  BY <1>1, <1>2, <1>3, <1>4, <1>5, <1>6

(* Every step keeps the pages of the tab of the tape, and an older page complete. *)
LEMMA LoadedStep ==
  ASSUME TypeOK, Begun, PagesOnTape, Covering, OlderCovers, PageCovers, [Next]_vars
  PROVE  PagesOnTape' /\ OlderCovers'
<1>1. /\ Len(tape) \in Nat /\ \A n \in 1..Len(tape) : tape'[n] = tape[n]
      /\ Range(tape) \subseteq Range(tape') /\ OnTape \subseteq OnTape'
  BY TapeGrows
<1>2. sess.seq \in Nat /\ sess.seq <= Len(tape)
  BY DEF TypeOK, Covering
<1>3. \A n \in 1..sess.seq : tape'[n] = tape[n]
  BY <1>1, <1>2
<1>4. CASE sess'.seq = sess.seq /\ sess'.pages = sess.pages /\ sess'.folded = sess.folded
  <2>1. PagesOnTape'
    BY <1>1, <1>4 DEF PagesOnTape
  <2>2. SUFFICES ASSUME older' # None PROVE OlderCovers'
    BY <2>1 DEF OlderCovers
  <2>3. /\ older'.page \subseteq Range(tape) /\ older'.folded \subseteq sess.folded
        /\ \A n \in 1..sess.seq :
             tape[n][1] \in sess.folded \ older'.folded => tape[n] \in older'.page
        /\ \A u \in Turns : u \in sess.folded \ older'.folded => Message(u) \in older'.page
    <3>1. CASE LoadOlderTape
      BY <3>1, OlderRead
    <3>2. CASE UNCHANGED older
      BY <2>2, <3>2 DEF OlderCovers
    <3>3. QED
      BY <2>2, <3>1, <3>2, OlderKept
  <2>4. \A n \in 1..sess'.seq :
          tape'[n][1] \in sess'.folded \ older'.folded => tape'[n] \in older'.page
    BY <1>3, <1>4, <2>3
  <2>5. older'.page \subseteq Range(tape') /\ older'.folded \subseteq sess'.folded
    BY <1>1, <1>4, <2>3
  <2>6. \A u \in Turns : u \in sess'.folded \ older'.folded => Message(u) \in older'.page
    BY <1>4, <2>3
  <2>7. QED
    BY <2>4, <2>5, <2>6 DEF OlderCovers, Message
<1>5. CASE MergeOlder
  BY <1>5, Merged DEF PagesOnTape, OlderCovers, OnTape
<1>6. CASE Adopt /\ ~ UNCHANGED <<sess, put, old, older, overruled>>
  <2>1. /\ sess'.pages = hyd.page /\ sess'.folded = hyd.folded /\ older' = None
        /\ hyd.page \subseteq Range(tape) /\ hyd.folded \subseteq OnTape
    BY <1>6, Adopted
  <2>2. QED
    BY <1>1, <2>1 DEF PagesOnTape, OlderCovers
<1>7. QED
  BY <1>4, <1>5, <1>6, ViewGrows DEF Grows

(* Every step keeps the page of a hydration complete: the row is read before the
   page of the tape, and what is read later of older pages is known to it. *)
LEMMA PageStep ==
  ASSUME TypeOK, Begun, PagesOnTape, Covering, OlderCovers, PageCovers, [Next]_vars
  PROVE  PageCovers'
<1>1. /\ Len(tape) \in Nat /\ Len(tape') \in Nat /\ Len(tape) <= Len(tape')
      /\ \A n \in 1..Len(tape) : tape'[n] = tape[n]
      /\ Range(tape) \subseteq Range(tape') /\ OnTape \subseteq OnTape'
  BY TapeGrows
<1>2. hyd # None => hyd \in Hyd /\ hyd.seq \in Nat
  BY DEF TypeOK, Hyd, Folded
<1>3. ASSUME ~ Adopt, NEW u \in Turns, Read(u)' PROVE Read(u)
  <2>1. CASE MergeOlder
    BY <1>3, <2>1, Merged DEF Read, Message
  <2>2. CASE LoadOlderTape
    <3>1. Message(u)[1] = u
      BY DEF Message
    <3>2. QED
      BY <1>3, <2>2, <3>1, OlderRead DEF Read, Message
  <2>3. CASE ~ MergeOlder /\ ~ LoadOlderTape
    <3>1. sess'.pages = sess.pages /\ sess'.folded = sess.folded
      BY <1>3, <2>3, ViewGrows DEF Grows
    <3>2. QED
      BY <1>3, <2>3, <3>1, OlderKept DEF Read, Message
  <2>4. QED
    BY <2>1, <2>2, <2>3
<1>4. CASE UNCHANGED hyd /\ ~ Adopt
  <2>1. SUFFICES ASSUME hyd # None PROVE PageCovers'
    BY <1>4 DEF PageCovers
  <2>2. hyd.seq <= Len(tape') /\ \A n \in 1..hyd.seq : tape'[n] = tape[n]
    BY <1>1, <1>2, <2>1 DEF PageCovers
  <2>3. hyd.page # None =>
          /\ \A n \in 1..hyd.seq : tape[n] \in hyd.page \/ tape[n][1] \in hyd.folded
          /\ hyd.page \subseteq Range(tape') /\ hyd.folded \subseteq OnTape'
          /\ \A u \in Turns : Read(u)' => Message(u) \in hyd.page \/ u \in hyd.folded
    BY <1>1, <1>3, <1>4, <2>1 DEF PageCovers
  <2>4. QED
    BY <1>4, <2>1, <2>2, <2>3 DEF PageCovers, Message
<1>5. CASE hyd' = None
  BY <1>5 DEF PageCovers
<1>6. ASSUME Hydrate, UNCHANGED tape PROVE PageCovers'
  BY <1>1, <1>6 DEF Hydrate, PageCovers
<1>7. CASE ReadTape
  <2>1. /\ hyd # None /\ hyd' = [hyd EXCEPT !.page = Page(OnTape), !.folded = Rest(OnTape)]
        /\ UNCHANGED <<tape, sess, older>>
    BY <1>7 DEF ReadTape, serverVars
  <2>2. /\ hyd'.seq = hyd.seq /\ hyd'.page = Page(OnTape) /\ hyd'.folded = Rest(OnTape)
        /\ hyd.seq <= Len(tape)
    BY <1>2, <2>1 DEF PageCovers, Hyd
  <2>3. /\ DOMAIN tape = 1..Len(tape)
        /\ Page(OnTape) \subseteq Range(tape) /\ Rest(OnTape) \subseteq OnTape
        /\ \A i \in Range(tape) : i[1] \in OnTape => i \in Page(OnTape) \/ i[1] \in Rest(OnTape)
    BY OfPage DEF TypeOK
  <2>4. \A i \in Range(tape) : i \in Page(OnTape) \/ i[1] \in Rest(OnTape)
    BY <2>3 DEF OnTape
  <2>5. \A n \in 1..hyd.seq : tape[n] \in Page(OnTape) \/ tape[n][1] \in Rest(OnTape)
    <3>1. \A n \in 1..hyd.seq : n \in DOMAIN tape
      BY <1>1, <1>2, <2>1, <2>2, <2>3
    <3>2. QED
      BY <2>4, <3>1 DEF Range
  <2>6. ASSUME NEW u \in Turns, Read(u)
        PROVE  Message(u) \in Page(OnTape) \/ u \in Rest(OnTape)
    <3>1. Message(u) \in Range(tape)
      BY <2>6 DEF Read, PagesOnTape, OlderCovers, Begun, Started
    <3>2. Message(u)[1] = u
      BY DEF Message
    <3>3. QED
      BY <2>4, <3>1, <3>2
  <2>7. \A u \in Turns : Read(u)' => Read(u)
    BY <2>1 DEF Read
  <2>8. QED
    BY <2>1, <2>2, <2>3, <2>5, <2>6, <2>7 DEF PageCovers, OnTape, Message
<1>8. QED
  BY <1>4, <1>5, <1>6, <1>7
  DEF Next, vars, serverVars, DoSave, DoSaveOld, Upsert, PutOk, KeepLocal, ServerWins, PutFails,
      Rename, DeleteMessage, OthersPut, Send, OthersSend, Arrive, Frame, NotMine, HandleOutbound,
      StreamBreaks, HydrateNeeded, Adopt, HydrationFails, LoadOlderTape, MergeOlder, OlderFails,
      ListSessions, SyncHydrates, SyncEnds

(* Every step keeps what the tab shows in agreement with its number. *)
LEMMA CoverStep ==
  ASSUME TypeOK, Covering, OlderCovers, PageCovers, [Next]_vars
  PROVE  Covering'
<1>1. /\ Len(tape) \in Nat /\ Len(tape') \in Nat /\ Len(tape) <= Len(tape')
      /\ \A n \in 1..Len(tape) : tape'[n] = tape[n] /\ tape[n] \notin Legacy
  BY TapeGrows
<1>2. sess.seq \in Nat /\ sess.seq <= Len(tape)
  BY DEF TypeOK, Covering
<1>3. \A n \in 1..sess.seq : tape'[n] = tape[n] /\ tape[n] \notin Legacy
  BY <1>1, <1>2
<1>4. CASE (~ Adopt /\ ~ MergeOlder) \/ UNCHANGED <<sess, put, old, older, overruled>>
  <2>1. Grows
    BY <1>4, ViewGrows DEF Grows
  <2>2. Covered => Covered'
    BY <1>3, <2>1 DEF Covered, Grows
  <2>3. sess'.seq <= Len(tape')
    BY <1>1, <1>2, <2>1 DEF Grows
  <2>4. QED
    BY <2>1, <2>2, <2>3 DEF Covering, Grows
<1>5. CASE MergeOlder
  <2>1. Covered => Covered'
    BY <1>5, Merged DEF Covered
  <2>2. QED
    BY <1>2, <1>5, <2>1, Merged DEF Covering
<1>6. CASE Adopt /\ ~ UNCHANGED <<sess, put, old, older, overruled>>
  <2>1. tape' = tape
    BY <1>6 DEF Adopt, serverVars
  <2>2. /\ sess'.seq = hyd.seq /\ sess'.shown = Snapshot /\ hyd.page \subseteq Snapshot
        /\ sess'.folded = hyd.folded /\ hyd.seq <= Len(tape)
        /\ \A n \in 1..hyd.seq : tape[n] \in hyd.page \/ tape[n][1] \in hyd.folded
    BY <1>6, Adopted
  <2>3. QED
    BY <2>1, <2>2 DEF Covering, Covered
<1>7. QED
  BY <1>4, <1>5, <1>6

(* Every step leaves the messages that the user of the tab has sent in its view, or
   in the older pages that it offers. *)
LEMMA OwnStep ==
  ASSUME TypeOK, Begun, PagesOnTape, OlderCovers, PageCovers, OwnMessagesStay, [Next]_vars
  PROVE  OwnMessagesStay'
<1>1. ASSUME NEW u \in Turns PROVE Message(u) \in Items \ Legacy
  BY OfTape DEF Message
<1>2. sent \subseteq Turns
  BY DEF TypeOK
<1>3. Started \subseteq Started'
  BY TapeGrows
<1>4. ASSUME NEW u \in sent', u \notin sent PROVE Message(u) \in sess'.shown
  <2>1. PICK v \in Turns : Send(v)
    BY <1>4
    DEF Next, vars, histVars, DoSave, DoSaveOld, Upsert, PutOk, KeepLocal, ServerWins, PutFails,
        Rename, DeleteMessage, OthersPut, OthersSend, Arrive, Frame, NotMine, HandleOutbound,
        StreamBreaks, HydrateNeeded, ReadTape, Adopt, HydrationFails, LoadOlderTape, MergeOlder,
        OlderFails, ListSessions, SyncHydrates, SyncEnds
  <2>2. u = v
    BY <1>4, <2>1 DEF Send
  <2> DEFINE s == [sess EXCEPT !.shown = @ \cup {Message(u)}, !.inFlight = u, !.streaming = None]
  <2>3. s \in Session /\ Message(u) \in s.shown
    <3>1. sess \in Session
      BY DEF TypeOK, Session, Folded
    <3>2. sess.shown \cup {Message(u)} \in SUBSET Items
      BY <1>1, <2>2, <3>1 DEF Session
    <3>3. QED
      BY <2>2, <3>1, <3>2 DEF Session
  <2>4. ScheduleSave(s)
    BY <2>1, <2>2 DEF Send
  <2> HIDE DEF s
  <2>5. QED
    BY <2>3, <2>4, SaveTyped DEF TypeOK, Put
<1>5. ASSUME NEW u \in sent
      PROVE  Message(u) \in sess'.shown \cup overruled' \/ u \in sess'.folded \cap Started'
  <2>1. /\ Message(u) \in sess.shown \cup overruled \/ u \in sess.folded \cap Started
        /\ Message(u) \notin Legacy
    BY <1>1, <1>2 DEF OwnMessagesStay
  <2>2. CASE (~ Adopt /\ ~ MergeOlder) \/ UNCHANGED <<sess, put, old, older, overruled>>
    <3>1. Grows
      BY <2>2, ViewGrows DEF Grows
    <3>2. QED
      BY <1>3, <2>1, <3>1 DEF Grows
  <2>3. CASE MergeOlder
    BY <1>2, <1>3, <2>1, <2>3, Merged
  <2>4. CASE Adopt /\ ~ UNCHANGED <<sess, put, old, older, overruled>>
    <3>1. /\ sess'.shown = Snapshot /\ overruled' = overruled \ Snapshot
          /\ sess'.folded = hyd.folded /\ hyd.page \subseteq Snapshot /\ hyd.folded \subseteq OnTape
          /\ Read(u) => Message(u) \in hyd.page \/ u \in hyd.folded
      BY <1>2, <2>4, Adopted
    <3>2. u \in hyd.folded => u \in Started'
      BY <1>2, <1>3, <3>1 DEF Begun
    <3>3. CASE Read(u)
      BY <3>1, <3>2, <3>3
    <3>4. CASE ~ Read(u)
      <4>1. Message(u) \notin sess.pages /\ u \notin sess.folded
        BY <3>4 DEF Read
      <4>2. Message(u) \in sess.shown => Message(u) \in Snapshot
        BY <2>1, <4>1 DEF Snapshot, PendingUsers, Message
      <4>3. QED
        BY <2>1, <3>1, <4>1, <4>2
    <3>5. QED
      BY <3>3, <3>4
  <2>5. QED
    BY <2>2, <2>3, <2>4
<1>6. QED
  BY <1>4, <1>5 DEF OwnMessagesStay

(* While an answer comes in nothing of the tape is taken out of the view. *)
LEMMA LiveStep ==
  ASSUME TypeOK, OlderCovers, PageCovers, [Next]_vars, sess.streaming # None, ~ sess.broken
  PROVE  sess.shown \ Legacy \subseteq sess'.shown \cup overruled'
<1>1. CASE (~ Adopt /\ ~ MergeOlder) \/ UNCHANGED <<sess, put, old, older, overruled>>
  BY <1>1, ViewGrows DEF Grows
<1>2. CASE MergeOlder
  BY <1>2, Merged
<1>3. CASE Adopt /\ ~ UNCHANGED <<sess, put, old, older, overruled>>
  BY <1>3, Adopted DEF CanHydrate
<1>4. QED
  BY <1>1, <1>2, <1>3

--------------------------------------------------------------------------------
(* The theorems. *)

(* The inductive invariant holds in every state of the tab and the server: their
   types, what the view covers or offers to load, what a page and an older page
   have, and the user's own messages. *)
THEOREM SyncInvariance == Spec => []IInv
<1>1. IInv /\ [Next]_vars => IInv'
  BY TypeStep, BegunStep, LoadedStep, PageStep, CoverStep, OwnStep DEF IInv
<1>2. QED
  BY InvInit, <1>1, PTL DEF Spec

(* The row, the tape, the session in the tab and the requests under way keep
   their types. *)
THEOREM SyncTypes == Spec => []TypeOK
BY SyncInvariance, PTL DEF IInv

(* For pages of any size: of the tape up to the number that it compares with the
   list, a tab that does not ask to be hydrated shows all turns but those of the
   older pages, which it offers to load, and what a 409 told it to drop
   (syncSessionsFromServer, hydrateSession, loadOlderTape, pushSessionToServer). *)
THEOREM TabsShowWhatTheyKnow == Spec => []ShowsWhatItKnows
<1>1. IInv => ShowsWhatItKnows
  BY DEF IInv, Covering, Covered, ShowsWhatItKnows
<1>2. QED
  BY SyncInvariance, <1>1, PTL

(* What the user has sent stays in the view through every hydration, although
   the tape does not have it yet (the pending users of hydrateSession), or its
   turn is on the tape and in an older page. *)
THEOREM SentMessagesStay == Spec => []OwnMessagesStay
BY SyncInvariance, PTL DEF IInv

(* A hydration that was read before an answer began takes nothing of the answer
   away when it is adopted (_canHydrateNow). *)
THEOREM LiveViewsGrow == Spec => LiveViewGrows
<1>1. IInv /\ [Next]_vars =>
        [sess.streaming # None /\ ~ sess.broken =>
           sess.shown \ Legacy \subseteq sess'.shown \cup overruled']_vars
  BY LiveStep DEF IInv
<1>2. QED
  BY SyncInvariance, <1>1, PTL DEF Spec, LiveViewGrows

================================================================================
