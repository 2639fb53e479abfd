------------------------------ MODULE FrameStream ------------------------------
(***************************************************************************)
(* How the frames of one web chat session reach its tabs: the ordered       *)
(* delivery chain of the gateway (server.ts), the numbering and the ring    *)
(* of recent frames (outboundRing.ts), the transcript tape a frame is       *)
(* committed to before it is shown (appendClientSessionTapeFrame), and the  *)
(* tab's cursor, hello and resume (websocket.js).  One gateway process,     *)
(* without Redis.                                                           *)
(*                                                                          *)
(* Frames are known by the order in which they were handed to the chain;    *)
(* made[i] is the turn frame i belongs to, or 0 for a status frame, which   *)
(* is numbered and shown but not taped.                                     *)
(***************************************************************************)
EXTENDS Naturals, Sequences, Functions

CONSTANTS
  Tabs,         \* browser tabs that show the session
  None,         \* nothing
  MaxFrames,    \* bound: frames handed to the chain
  MaxTurns,     \* bound: messages sent by tabs
  MaxHellos,    \* bound: hellos sent by tabs
  MaxEntries,   \* capacity of the ring (RingConfig.maxEntries)
  MaxFailures,  \* bound: tape appends that fail
  MaxRestarts,  \* bound: restarts of the gateway
  MaxResets     \* bound: resets of the session (/clear)

ASSUME StreamAssumption ==
  /\ None \notin Nat
  /\ {MaxFrames, MaxTurns, MaxHellos, MaxFailures, MaxRestarts, MaxResets}
       \subseteq Nat
  /\ MaxEntries \in Nat \ {0}

VARIABLES
  (* the gateway's memory *)
  session,   \* the session manager knows the session, or can resume it
  waiting,   \* submitted turns that have not started
  turn,      \* the running turn, 0 if none
  chain,     \* the delivery chain: operations in order
  sending,   \* the frame whose delivery is under way
  poisoned,  \* an append failed: durable frames are dropped until a retry
  lastSeq,   \* the last number allocated
  ring,      \* recent frames, oldest first
  (* the database *)
  tape,      \* frames on the transcript tape, in order
  (* each tab *)
  conn,      \* its websocket: down, open, or registered for the session
  hello,     \* the cursor in a hello the gateway has not processed
  wire,      \* what the gateway sent to it
  cursor,    \* _lastFrameSeq
  (* history *)
  started,   \* turns started
  made,      \* the turn of every frame handed to the chain
  numbered,  \* frames stored under the current numbering
  era,       \* numberings begun: restarts and resets
  anchor,    \* the numbering a cursor comes from, and how much the tab was told it missed
  applied,   \* frames a tab has processed, in order
  turns, hellos, failures, resets

memVars  == <<session, waiting, turn, chain, sending, poisoned, lastSeq, ring>>
tabVars  == <<conn, hello, wire, cursor>>
histVars == <<started, made, numbered, era, anchor, applied>>
bounds   == <<turns, hellos, failures, resets>>
vars     == <<memVars, tape, tabVars, histVars, bounds>>

Frame   == [seq : Nat, id : Nat]
(* An operation of the chain: the delivery of frame id, or the commit of a  *)
(* message from a tab. *)
Deliver(i) == [op |-> "deliver", id |-> i]
Commit     == [op |-> "commit", id |-> 0]

Shown(f)  == [kind |-> "frame", seq |-> f.seq, id |-> f.id]
Failed(n) == [kind |-> "resume_failed", seq |-> n, id |-> 0]

Durable(i) == made[i] # 0

TypeOK ==
  /\ session \in BOOLEAN /\ poisoned \in BOOLEAN
  /\ waiting \in 0..MaxTurns /\ turn \in 0..MaxTurns
  /\ \A k \in DOMAIN chain : chain[k] = Commit \/ chain[k].id \in DOMAIN made
  /\ sending = None \/ (sending.frame \in Frame /\ sending.taped \in BOOLEAN)
  /\ lastSeq \in 0..MaxFrames
  /\ Range(ring) \subseteq Frame /\ Len(ring) <= MaxEntries
  /\ Range(tape) \subseteq DOMAIN made
  /\ conn \in [Tabs -> {"down", "open", "registered"}]
  /\ hello \in [Tabs -> {None} \cup 0..MaxFrames]
  /\ cursor \in [Tabs -> 0..MaxFrames]
  /\ \A t \in Tabs : \A k \in DOMAIN wire[t] :
       wire[t][k].kind = "resume_failed" \/ wire[t][k].id \in DOMAIN made

Init ==
  /\ session = FALSE /\ waiting = 0 /\ turn = 0
  /\ chain = <<>> /\ sending = None /\ poisoned = FALSE
  /\ lastSeq = 0 /\ ring = <<>> /\ tape = <<>>
  /\ conn = [t \in Tabs |-> "down"]
  /\ hello = [t \in Tabs |-> None]
  /\ wire = [t \in Tabs |-> <<>>]
  /\ cursor = [t \in Tabs |-> 0]
  /\ started = 0 /\ made = <<>> /\ numbered = {} /\ era = 0
  /\ anchor = [t \in Tabs |-> [era |-> 0, told |-> 0]]
  /\ applied = [t \in Tabs |-> <<>>]
  /\ turns = 0 /\ hellos = 0 /\ failures = 0 /\ resets = 0

(***************************************************************************)
(* Turns                                                                    *)
(***************************************************************************)
HandOver(t) ==
  /\ Len(made) < MaxFrames
  /\ made' = Append(made, t)
  /\ chain' = Append(chain, Deliver(Len(made) + 1))

Behind(t) == \E f \in numbered : f.seq > cursor[t]

(* A tab sends a message: its websocket is registered for the session at   *)
(* once and without a replay, the message is committed in the order of the  *)
(* chain. *)
SendMessage(t) ==
  /\ conn[t] # "down" /\ turns < MaxTurns
  /\ conn' = [conn EXCEPT ![t] = "registered"]
  /\ chain' = Append(chain, Commit)
  /\ turns' = turns + 1
  /\ anchor' = IF conn[t] = "open" /\ Behind(t)
                 THEN [anchor EXCEPT ![t].era = None]
                 ELSE anchor
  /\ UNCHANGED <<session, waiting, turn, sending, poisoned, lastSeq, ring, tape,
                 hello, wire, cursor, started, made, numbered, era, applied, hellos, failures, resets>>

(* The commit of a message: refused while a turn of a poisoned session is  *)
(* running, otherwise the probe that ends the poisoning or renews it. *)
AtCommit == sending = None /\ chain # <<>> /\ Head(chain) = Commit

CommitMessage ==
  /\ AtCommit
  /\ chain' = Tail(chain)
  /\ IF poisoned /\ session /\ turn # 0
       THEN UNCHANGED <<poisoned, waiting, session>>
       ELSE /\ poisoned' = FALSE
            /\ waiting' = waiting + 1
            /\ session' = TRUE
  /\ UNCHANGED <<turn, sending, lastSeq, ring, tape, tabVars, histVars, bounds>>

CommitFails ==
  /\ AtCommit /\ failures < MaxFailures
  /\ ~(poisoned /\ session /\ turn # 0)
  /\ chain' = Tail(chain)
  /\ poisoned' = TRUE
  /\ failures' = failures + 1
  /\ UNCHANGED <<session, waiting, turn, sending, lastSeq, ring, tape, tabVars,
                 histVars, turns, hellos, resets>>

StartTurn ==
  /\ waiting > 0 /\ turn = 0
  /\ waiting' = waiting - 1
  /\ started' = started + 1
  /\ turn' = started'
  /\ UNCHANGED <<session, chain, sending, poisoned, lastSeq, ring, tape, tabVars,
                 made, numbered, era, anchor, applied, bounds>>

EndTurn ==
  /\ turn # 0
  /\ turn' = 0
  /\ UNCHANGED <<session, waiting, chain, sending, poisoned, lastSeq, ring, tape,
                 tabVars, histVars, bounds>>

Emit ==
  /\ turn # 0
  /\ HandOver(turn)
  /\ UNCHANGED <<session, waiting, turn, sending, poisoned, lastSeq, ring, tape,
                 tabVars, started, numbered, era, anchor, applied, bounds>>

(***************************************************************************)
(* Deliveries: number, commit to the tape, keep in the ring, send           *)
(***************************************************************************)
AtDelivery == sending = None /\ chain # <<>> /\ Head(chain) # Commit

(* Once an append has failed, durable frames are dropped, or a tape with a  *)
(* hole would be shown. *)
SkipPoisoned ==
  /\ AtDelivery /\ poisoned /\ Durable(Head(chain).id)
  /\ chain' = Tail(chain)
  /\ UNCHANGED <<session, waiting, turn, sending, poisoned, lastSeq, ring, tape,
                 tabVars, histVars, bounds>>

AllocateFrameSeq ==
  /\ AtDelivery /\ ~(poisoned /\ Durable(Head(chain).id))
  /\ chain' = Tail(chain)
  /\ lastSeq' = lastSeq + 1
  /\ sending' = [frame |-> [seq |-> lastSeq + 1, id |-> Head(chain).id],
                 taped |-> FALSE]
  /\ UNCHANGED <<session, waiting, turn, poisoned, ring, tape, tabVars, histVars,
                 bounds>>

\* A plausible bug: a frame is sent without waiting for its append.
UntapedSlip == sending # None /\ ~sending.taped /\ Durable(sending.frame.id)
               /\ ~session

Untaped == sending # None /\ ~sending.taped /\ Durable(sending.frame.id)

AppendTape ==
  /\ Untaped
  /\ tape' = Append(tape, sending.frame.id)
  /\ sending' = [sending EXCEPT !.taped = TRUE]
  /\ UNCHANGED <<session, waiting, turn, chain, poisoned, lastSeq, ring, tabVars,
                 histVars, bounds>>

AppendFails ==
  /\ Untaped /\ failures < MaxFailures
  /\ poisoned' = TRUE
  /\ sending' = None
  /\ failures' = failures + 1
  /\ UNCHANGED <<session, waiting, turn, chain, lastSeq, ring, tape, tabVars,
                 histVars, turns, hellos, resets>>

(* _store, with the pruning of prune by size. *)
Stored(f) ==
  LET grown == Append(ring, f)
  IN  IF Len(grown) > MaxEntries THEN Tail(grown) ELSE grown

Send ==
  /\ sending # None /\ ~Untaped
  /\ ring' = Stored(sending.frame)
  /\ wire' = [t \in Tabs |-> IF conn[t] = "registered"
                               THEN Append(wire[t], Shown(sending.frame))
                               ELSE wire[t]]
  /\ numbered' = numbered \cup {sending.frame}
  /\ sending' = None
  /\ UNCHANGED <<session, waiting, turn, chain, poisoned, lastSeq, tape, conn,
                 hello, cursor, started, made, era, anchor, applied, bounds>>

(***************************************************************************)
(* Tabs                                                                     *)
(***************************************************************************)
(* A tab connects, or comes back to the foreground, and says hello. *)
SendHello(t) ==
  /\ hello[t] = None /\ hellos < MaxHellos
  /\ hello' = [hello EXCEPT ![t] = cursor[t]]
  /\ hellos' = hellos + 1
  /\ UNCHANGED <<memVars, tape, wire, cursor, turns, failures, resets>>

Connect(t) ==
  /\ conn[t] = "down"
  /\ SendHello(t)
  /\ conn' = [conn EXCEPT ![t] = "open"]
  /\ anchor' = IF cursor[t] = 0
                 THEN [anchor EXCEPT ![t] = [era |-> era, told |-> 0]]
                 ELSE anchor
  /\ UNCHANGED <<started, made, numbered, era, applied>>

Foreground(t) ==
  /\ conn[t] # "down"
  /\ SendHello(t)
  /\ UNCHANGED <<conn, histVars>>

\* A plausible bug: the replay is one frame short of the gap.
HitSlip(kept, from) ==
  \/ from = lastSeq
  \/ from < lastSeq /\ kept # <<>> /\ kept[1].seq <= from + 2

(* peekReplay: the frames of a ring after a cursor (a function, and not     *)
(* SelectSeq, of which nothing can be proved), or the admission that some   *)
(* of them are gone. *)
After(kept, from) ==
  LET later[n \in 0..Len(kept)] ==
        IF n = 0 THEN <<>>
        ELSE IF kept[n].seq > from THEN Append(later[n - 1], kept[n])
        ELSE later[n - 1]
  IN  later[Len(kept)]

Hit(kept, from) ==
  \/ from = lastSeq
  \/ from < lastSeq /\ kept # <<>> /\ kept[1].seq <= from + 1

Replay(kept, from) ==
  IF ~Hit(kept, from) THEN <<Failed(lastSeq)>>
  ELSE IF from = lastSeq THEN <<>>
  ELSE LET missed == After(kept, from)
       IN  [k \in DOMAIN missed |-> Shown(missed[k])]

(* autoResumeFromHello: prune what is too old, register the tab, replay     *)
(* what it missed, and queue a status frame. *)
AutoResumeFromHello(t) ==
  /\ hello[t] # None /\ session
  /\ \E n \in 0..Len(ring) : ring' = SubSeq(ring, n + 1, Len(ring))
  /\ hello' = [hello EXCEPT ![t] = None]
  /\ conn' = [conn EXCEPT ![t] = "registered"]
  /\ wire' = [wire EXCEPT ![t] = @ \o Replay(ring', hello[t])]
  /\ HandOver(0)
  /\ UNCHANGED <<session, waiting, turn, sending, poisoned, lastSeq, tape,
                 cursor, started, numbered, era, anchor, applied, bounds>>

(* A hello for a session the gateway does not know is skipped. *)
IgnoreHello(t) ==
  /\ hello[t] # None /\ ~session
  /\ hello' = [hello EXCEPT ![t] = None]
  /\ UNCHANGED <<memVars, tape, conn, wire, cursor, histVars, bounds>>

Incoming(t, kind) == wire[t] # <<>> /\ Head(wire[t]).kind = kind

\* A plausible bug: the cursor accepts a frame with its own number.
StaleSlip(t, f) == f.seq < cursor[t]

(* The cursor drops what is not ahead of it. *)
Stale(t, f) == f.seq <= cursor[t]

ReceiveFrame(t) ==
  /\ Incoming(t, "frame")
  /\ LET f == Head(wire[t])
     IN  IF Stale(t, f)
           THEN UNCHANGED <<cursor, applied>>
           ELSE /\ cursor' = [cursor EXCEPT ![t] = f.seq]
                /\ applied' = [applied EXCEPT ![t] = Append(@, f.id)]
  /\ wire' = [wire EXCEPT ![t] = Tail(@)]
  /\ UNCHANGED <<memVars, tape, conn, hello, started, made, numbered, era, anchor,
                 bounds>>

HandleResumeFailed(t) ==
  /\ Incoming(t, "resume_failed")
  /\ LET to == Head(wire[t]).seq
     IN  /\ cursor' = [cursor EXCEPT ![t] = to]
         /\ anchor' = [anchor EXCEPT ![t] = [era |-> era, told |-> to]]
  /\ wire' = [wire EXCEPT ![t] = Tail(@)]
  /\ UNCHANGED <<memVars, tape, conn, hello, started, made, numbered, era, applied, bounds>>

(* A connection breaks: what is on the wire is lost. *)
Disconnect(t) ==
  /\ conn[t] # "down"
  /\ conn' = [conn EXCEPT ![t] = "down"]
  /\ hello' = [hello EXCEPT ![t] = None]
  /\ wire' = [wire EXCEPT ![t] = <<>>]
  /\ UNCHANGED <<memVars, tape, cursor, histVars, bounds>>

(***************************************************************************)
(* Resets and restarts: the numbers start again                             *)
(***************************************************************************)
BeginNumbering ==
  /\ lastSeq' = 0 /\ ring' = <<>> /\ poisoned' = FALSE
  /\ era' = era + 1 /\ numbered' = {}

(* A tab sends /clear: the session is destroyed, its ring and its numbers   *)
(* are cleared.  Operations already on the chain stay there, and a turn      *)
(* that was killed may still hand over its last frame. *)
Reset(t) ==
  /\ conn[t] # "down" /\ resets < MaxResets
  /\ session' = FALSE
  /\ BeginNumbering
  /\ resets' = resets + 1
  /\ UNCHANGED <<waiting, turn, chain, sending, tape, tabVars, started, made, anchor,
                 applied, turns, hellos, failures>>

(* The gateway restarts.  The resume map may still know the session. *)
Restart ==
  /\ era - resets < MaxRestarts
  /\ BeginNumbering
  /\ waiting' = 0 /\ turn' = 0
  /\ chain' = <<>> /\ sending' = None
  /\ conn' = [t \in Tabs |-> "down"]
  /\ hello' = [t \in Tabs |-> None]
  /\ wire' = [t \in Tabs |-> <<>>]
  /\ session' \in {FALSE, session}
  /\ UNCHANGED <<tape, cursor, started, made, anchor, applied, bounds>>

GatewayStep ==
  \/ CommitMessage \/ CommitFails \/ StartTurn \/ EndTurn \/ Emit
  \/ SkipPoisoned \/ AllocateFrameSeq \/ AppendTape \/ AppendFails \/ Send
  \/ Restart

TabStep(t) ==
  \/ SendMessage(t) \/ Connect(t) \/ Foreground(t) \/ AutoResumeFromHello(t)
  \/ IgnoreHello(t) \/ ReceiveFrame(t) \/ HandleResumeFailed(t) \/ Disconnect(t)
  \/ Reset(t)

Next == GatewayStep \/ \E t \in Tabs : TabStep(t)

Spec == Init /\ [][Next]_vars

(***************************************************************************)
(* Properties                                                               *)
(***************************************************************************)
(* No tab is shown, and no ring replays, an answer that the transcript      *)
(* does not have: a durable frame is committed before anyone can see it,    *)
(* failures, restarts and resets included (_deliverWebchatAsync). *)
Visible(t) ==
  Range(applied[t]) \cup {m.id : m \in {n \in Range(wire[t]) : n.kind = "frame"}}

TapedFirst ==
  \A i \in {f.id : f \in Range(ring)} \cup UNION {Visible(t) : t \in Tabs} :
    Durable(i) => i \in Range(tape)

(* The transcript keeps frames in the order they were made, and a tab       *)
(* processes them in that order and none twice, whatever is replayed, lost  *)
(* and renumbered (_enqueueSessionDelivery, the cursor of websocket.js).    *)
Increasing(s) == \A k \in DOMAIN s : \A n \in 1..(k - 1) : s[n] < s[k]

InOrder ==
  resets = 0 => Increasing(tape) /\ \A t \in Tabs : Increasing(applied[t])

(* A tab that resumed misses nothing without being told: every frame of the *)
(* current numbering was processed, is on its way, or lies under the `to`   *)
(* of a resume_failed (peekReplay, autoResumeFromHello).  Not claimed of a  *)
(* cursor that comes from an older numbering, nor of a tab that sent a      *)
(* message before it was resumed. *)
ToldOf(t, f) ==
  \/ f.seq <= anchor[t].told
  \/ \E m \in Range(wire[t]) : m.kind = "resume_failed" /\ f.seq <= m.seq

NoSilentGap ==
  resets = 0 =>
    \A t \in Tabs :
      conn[t] = "registered" /\ anchor[t].era = era =>
        \A f \in numbered : f.id \in Visible(t) \/ ToldOf(t, f)

================================================================================
