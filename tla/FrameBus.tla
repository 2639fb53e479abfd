------------------------------- MODULE FrameBus --------------------------------
(***************************************************************************)
(* The frames of one web chat session when Redis carries them from one      *)
(* gateway process to the others (redisSessionBus.ts): numbers from a       *)
(* shared counter, a list of recent frames that survives a restart, and a   *)
(* channel on which every process hears of the frames of the others; and    *)
(* what server.ts makes of it: the ring of each process, frames that wait   *)
(* for a gap to close, and the resume of a tab.                             *)
(*                                                                          *)
(* The transcript tape is shared; a tab that is told of a failed resume     *)
(* reads it.  Poisoned sessions and resets are in FrameStream.              *)
(***************************************************************************)
EXTENDS Naturals, SequencesExt

CONSTANTS
  Gates,        \* gateway processes
  Tabs,         \* browser tabs that show the session
  None,         \* nothing
  MaxEntries,   \* frames a process keeps (RingConfig.maxEntries)
  MaxReplay,    \* frames Redis keeps (maxReplayFrames)
  MaxPending,   \* frames that may wait for a gap (REDIS_PENDING_FRAMES_MAX)
  MaxEvents     \* bound: together, frames handed over, connections of tabs, messages
                \*   of the channel lost, frames not published, Redis calls not
                \*   answered in time, restarts of processes, expiries of the keys

ASSUME BusAssumption ==
  /\ None \notin Gates
  /\ MaxEvents \in Nat
  /\ {MaxEntries, MaxReplay, MaxPending} \subseteq Nat \ {0}

VARIABLES
  (* Redis *)
  counter,   \* the number given last
  list,      \* recent frames
  (* each gateway process *)
  last,      \* the last number it knows
  ring,      \* its recent frames
  pending,   \* frames of others that came before their predecessors
  timer,     \* the gap timer runs
  sending,   \* its frame that has a number and is not out yet
  outbox,    \* its frames on their way to Redis
  inbox,     \* frames on the channel that it has not handled
  (* each tab *)
  at,        \* the process its socket is registered with
  asking,    \* the resume that waits for Redis: cursor and what the ring has
  cursor,    \* _lastFrameSeq
  (* history *)
  seen,      \* frames a tab has applied or read from the tape
  issued,    \* frames that were given a number
  taped,     \* frames on the tape
  excused,   \* frames kept from a tab by one of the known causes of a gap
  harm,      \* what has happened to the numbers
  events     \* how much of the bound is used up

redisVars == <<counter, list>>
gateVars  == <<last, ring, pending, timer, sending, outbox, inbox>>
tabVars   == <<at, asking, cursor, seen>>
histVars  == <<issued, taped, excused>>
vars      == <<redisVars, gateVars, tabVars, histVars, harm, events>>

(* A number was not reserved in time, the counter has expired, a process has
   forgotten frames or never heard of some. *)
Harms == {"slow", "expired", "unheard"}

(* Bound: once a process has counted for itself nothing is claimed, so nothing
   further is asked for, or fails. *)
InTime == "slow" \notin harm

Happens ==
  /\ InTime /\ events < MaxEvents
  /\ events' = events + 1

(* Something goes wrong, with what it does to the numbers. *)
Fault(hs) == Happens /\ harm' = harm \cup hs

Frame == [seq : Nat \ {0}, id : 1..MaxEvents, by : Gates]
Failed(n) == [seq |-> n, id |-> 0]

(* Every variable has its type, and the three buffers their limits. *)
TypeOK ==
  /\ counter \in Nat
  /\ Range(list) \subseteq Frame /\ Len(list) <= MaxReplay
  /\ last \in [Gates -> Nat]
  /\ \A g \in Gates : Range(ring[g]) \subseteq Frame /\ Len(ring[g]) <= MaxEntries
  /\ \A g \in Gates : pending[g] \subseteq Frame /\ Cardinality(pending[g]) <= MaxPending
  /\ timer \in [Gates -> BOOLEAN]
  /\ \A g \in Gates : sending[g] = None \/ sending[g].frame \in Frame
  /\ \A g \in Gates : Range(outbox[g]) \cup Range(inbox[g]) \subseteq Frame
  /\ at \in [Tabs -> Gates \cup {None}]
  /\ \A t \in Tabs : asking[t] # None => at[t] # None
  /\ cursor \in [Tabs -> Nat]
  /\ seen \in [Tabs -> SUBSET (1..MaxEvents)]
  /\ taped \subseteq issued /\ issued \subseteq Frame
  /\ excused \in [Tabs -> SUBSET (1..MaxEvents)] /\ harm \subseteq Harms

Init ==
  /\ counter = 0 /\ list = <<>>
  /\ last = [g \in Gates |-> 0]
  /\ ring = [g \in Gates |-> <<>>]
  /\ pending = [g \in Gates |-> {}]
  /\ timer = [g \in Gates |-> FALSE]
  /\ sending = [g \in Gates |-> None]
  /\ outbox = [g \in Gates |-> <<>>]
  /\ inbox = [g \in Gates |-> <<>>]
  /\ at = [t \in Tabs |-> None]
  /\ asking = [t \in Tabs |-> None]
  /\ cursor = [t \in Tabs |-> 0]
  /\ seen = [t \in Tabs |-> {}]
  /\ issued = {} /\ taped = {}
  /\ excused = [t \in Tabs |-> {}] /\ harm = {}
  /\ events = 0

------------------------------------------------------------------------------
(* Sequences of frames, and the ring.                                       *)

BySeq(fs) == SetToSortSeq(fs, LAMBDA f, g : f.seq < g.seq)
After(fs, n) == SelectSeq(fs, LAMBDA f : f.seq > n)
Newest(fs, n) == SubSeq(fs, Len(fs) - Min({Len(fs), n}) + 1, Len(fs))
Highest(fs) == IF fs = {} THEN 0 ELSE Max({f.seq : f \in fs})

(* What a tab makes of what it is sent.  A frame that is not ahead of the
   cursor is dropped; told of a failure, it sets the cursor and reads the
   transcript anew. *)
Receive(tab, f) ==
  IF f.id = 0
  THEN [cursor |-> f.seq, seen |-> tab.seen \cup {e.id : e \in taped}]
  ELSE IF f.seq > tab.cursor
       THEN [cursor |-> f.seq, seen |-> tab.seen \cup {f.id}]
       ELSE tab

Send(tabs, frames) ==
  LET after(t) == FoldLeft(Receive, [cursor |-> cursor[t], seen |-> seen[t]], frames)
  IN  /\ cursor' = [t \in Tabs |-> IF t \in tabs THEN after(t).cursor ELSE cursor[t]]
      /\ seen' = [t \in Tabs |-> IF t \in tabs THEN after(t).seen ELSE seen[t]]

(* Those whose socket is registered with g, and those of them whose resume
   waits for Redis. *)
At(g) == {t \in Tabs : at[t] = g}
Asking(g) == {t \in At(g) : asking[t] # None}

(* History: of the frames that a known cause keeps from the tabs, those that
   they have not seen all the same.  A cursor skips those it passes. *)
Excused(kept) == excused' = [t \in Tabs |-> (excused[t] \cup kept[t]) \ seen'[t]]
Between(from, to) == {f.id : f \in {e \in issued : from < e.seq /\ e.seq <= to}}
Skipped(t) == Between(cursor[t], cursor'[t])

(* storeExternal, of frames in order: what is not ahead of the last number is
   not kept. *)
StoreExternal(g, frames) ==
  LET new == After(frames, last[g])
  IN  /\ ring' = [ring EXCEPT ![g] = Newest(@ \o new, MaxEntries)]
      /\ last' = [last EXCEPT ![g] = Max({@, Highest(Range(frames))})]

(* peekReplay: the frames of a ring after a cursor, or the admission that
   some of them are gone. *)
Peek(kept, upto, from) ==
  [ok   |-> \/ from = upto
            \/ from < upto /\ kept # <<>> /\ kept[1].seq <= from + 1,
   sent |-> IF from < upto THEN After(kept, from) ELSE <<>>,
   to   |-> upto]

(* Frames that follow a cursor without a hole. *)
Whole(fs, from) == \A k \in DOMAIN fs : fs[k].seq = from + k

(* validateReplay: the frames of the list after a cursor, which must follow
   it without a hole. *)
Validate(from) ==
  LET frames == SortSeq(list, LAMBDA f, g : f.seq < g.seq)
      rest   == After(frames, from)
      to     == Highest(Range(list))
      twice  == \E k \in DOMAIN frames \ {1} : frames[k].seq = frames[k - 1].seq
  IN  IF list = <<>>
      THEN [ok |-> from = 0, sent |-> <<>>, to |-> 0]
      ELSE [ok |-> ~ twice /\ from <= to /\ Whole(rest, from), sent |-> rest, to |-> to]

------------------------------------------------------------------------------
(* A frame of this process: number, tape, ring, Redis, tabs.                *)

(* Slip: a number that the local one has overtaken is given out all the same. *)
AdvanceSlip(g) == counter + 1
(* advanceFrameSeq: the counter is moved past what the process knows, if the
   one reserved is not past it already. *)
Advance(g) == Max({counter, last[g]}) + 1

Numbered(g, n, backed) ==
  LET f == [seq |-> n, id |-> Cardinality(issued) + 1, by |-> g]
  IN  /\ sending' = [sending EXCEPT ![g] = [frame |-> f, backed |-> backed]]
      /\ issued' = issued \cup {f}

AllocateFrameSeq(g) ==
  /\ Happens
  /\ sending[g] = None
  /\ LET n == Advance(g)
     IN  /\ Numbered(g, n, TRUE)
         /\ counter' = n
  /\ UNCHANGED <<list, last, ring, pending, timer, outbox, inbox, tabVars, taped, excused, harm>>

(* Redis does not answer in time: the process counts for itself.  Redis may
   count or not. *)
AllocateLocally(g) ==
  /\ Fault({"slow"})
  /\ sending[g] = None
  /\ Numbered(g, last[g] + 1, FALSE)
  /\ last' = [last EXCEPT ![g] = @ + 1]
  /\ counter' \in {counter, Advance(g)}
  /\ UNCHANGED <<list, ring, pending, timer, outbox, inbox, tabVars, taped, excused>>

(* A frame comes late for a tab: it, or its process, is past that number. *)
Past(t, f) == cursor[t] >= f.seq \/ (at[t] # None /\ last[at[t]] >= f.seq)

(* The frame is on the tape: it is kept, published and sent.  Known causes: the
   process knows no better than that its predecessors are still to come, or
   the tab waits for Redis to send them. *)
Deliver(g) ==
  /\ sending[g] # None
  /\ LET f == sending[g].frame
     IN  /\ IF sending[g].backed
            THEN /\ StoreExternal(g, <<f>>)
                 /\ outbox' = [outbox EXCEPT ![g] = Append(@, f)]
            ELSE /\ ring' = [ring EXCEPT ![g] = Newest(Append(@, f), MaxEntries)]
                 /\ UNCHANGED <<last, outbox>>
         /\ taped' = taped \cup {f}
         /\ Send(At(g), <<f>>)
         /\ Excused([t \in Tabs |->
              (IF Past(t, f) THEN {f.id} ELSE {})
              \cup (IF t \in Asking(g) \/ last[g] < f.seq - 1 THEN Skipped(t) ELSE {})])
  /\ sending' = [sending EXCEPT ![g] = None]
  /\ UNCHANGED <<redisVars, pending, timer, inbox, at, asking, issued, harm, events>>

(* publishFrameAsync: the list, then the channel. *)
Publish(g) ==
  /\ outbox[g] # <<>>
  /\ list' = Newest(Append(list, Head(outbox[g])), MaxReplay)
  /\ inbox' = [h \in Gates |-> IF h = g THEN inbox[h] ELSE Append(inbox[h], Head(outbox[g]))]
  /\ outbox' = [outbox EXCEPT ![g] = Tail(@)]
  /\ UNCHANGED <<counter, last, ring, pending, timer, sending, tabVars, histVars, harm, events>>

(* Redis refuses it: nobody notices.  It may be on the list or not. *)
PublishFails(g) ==
  /\ outbox[g] # <<>>
  /\ Fault({"unheard"})
  /\ list' \in {list, Newest(Append(list, Head(outbox[g])), MaxReplay)}
  /\ outbox' = [outbox EXCEPT ![g] = Tail(@)]
  /\ UNCHANGED <<counter, last, ring, pending, timer, sending, inbox, tabVars, histVars>>

------------------------------------------------------------------------------
(* A frame of another process.                                              *)

(* Slip: a frame is sent although its predecessor has not come. *)
InTurnSlip(g, fs) == fs
(* Those of a set that follow the last number without a hole. *)
InTurn(g, fs) ==
  {f \in fs : f.seq > last[g] /\ \A n \in last[g] + 1 .. f.seq : \E e \in fs : e.seq = n}

(* What is in turn is kept and sent; the rest waits, and the timer runs.  Known
   cause: a tab waits for Redis to send the predecessors. *)
Drain(g, fs) ==
  LET now == BySeq(InTurn(g, fs))
  IN  /\ StoreExternal(g, now)
      /\ Send(At(g), now)
      /\ pending' = [pending EXCEPT ![g] = fs \ InTurn(g, fs)]
      /\ timer' = [timer EXCEPT ![g] = InTurn(g, fs) # fs]
      /\ Excused([t \in Tabs |-> IF t \in Asking(g) THEN Skipped(t) ELSE {}])

(* _handleRedisSessionFrame: an old number is dropped, too many that wait are
   dropped together. *)
HandleRedisSessionFrame(g) ==
  /\ inbox[g] # <<>>
  /\ inbox' = [inbox EXCEPT ![g] = Tail(@)]
  /\ LET f  == Head(inbox[g])
         fs == {e \in pending[g] : e.seq # f.seq} \cup {f}
     IN  IF f.seq <= last[g]
         THEN UNCHANGED <<last, ring, pending, timer, cursor, seen, excused, harm>>
         ELSE IF Cardinality(fs) > MaxPending
              THEN /\ pending' = [pending EXCEPT ![g] = {}]
                   /\ harm' = harm \cup {"unheard"}
                   /\ UNCHANGED <<last, ring, timer, cursor, seen, excused>>
              ELSE Drain(g, fs) /\ UNCHANGED harm
  /\ UNCHANGED <<redisVars, sending, outbox, at, asking, issued, taped, events>>

(* The channel does not deliver it. *)
Lose(g) ==
  /\ inbox[g] # <<>>
  /\ Fault({"unheard"})
  /\ inbox' = [inbox EXCEPT ![g] = Tail(@)]
  /\ UNCHANGED <<redisVars, last, ring, pending, timer, sending, outbox, tabVars, histVars>>

(* Slip: the gap is closed without a word. *)
GapNoticeSlip(g) == <<>>
GapNotice(g) == <<Failed(Min({f.seq : f \in pending[g]}))>>

(* _flushRedisGap: the gap has not closed in time.  The tabs are told, and
   what waits is kept but not sent. *)
FlushRedisGap(g) ==
  /\ timer[g]
  /\ timer' = [timer EXCEPT ![g] = FALSE]
  /\ IF pending[g] = {}
     THEN UNCHANGED <<last, ring, cursor, seen>>
     ELSE /\ Send(At(g), GapNotice(g))
          /\ StoreExternal(g, BySeq(pending[g]))
  /\ pending' = [pending EXCEPT ![g] = {}]
  /\ Excused([t \in Tabs |-> {}])
  /\ UNCHANGED <<redisVars, sending, outbox, inbox, at, asking, issued, taped, harm, events>>

------------------------------------------------------------------------------
(* Tabs.                                                                    *)

(* autoResumeFromHello, up to the call of Redis: the socket is registered and
   the ring is asked, which drops what is too old.  (It does so when it is
   stored to as well; here age takes frames only when a tab asks.) *)
AutoResumeFromHello(t, g) ==
  /\ at[t] = None
  /\ Happens
  /\ \E n \in 1..Len(ring[g]) + 1 : ring' = [ring EXCEPT ![g] = SubSeq(@, n, Len(@))]
  /\ at' = [at EXCEPT ![t] = g]
  /\ asking' = [asking EXCEPT ![t] =
       [from |-> cursor[t], ring |-> Peek(ring'[g], last[g], cursor[t])]]
  /\ UNCHANGED <<redisVars, last, pending, timer, sending, outbox, inbox, cursor, seen,
                 histVars, harm>>

Answered(t, frames) ==
  /\ Send({t}, frames)
  /\ asking' = [asking EXCEPT ![t] = None]

(* Known causes: a ring with a hole is replayed as if it had none, for peekReplay
   looks at its oldest frame only; and what a process knows of, up to n, it
   will not send to a tab unless it is asked. *)
Holes(t, fs, from) == IF Whole(fs, from) THEN {} ELSE Skipped(t)
Behind(t, n) == Between(cursor'[t], n)

(* Redis has frames the tab misses: they are sent and kept, then the tail
   that only the ring has.  Known causes: the number of the process goes past
   frames that the channel has yet to bring for the other tabs; a tail with a
   hole is not sent, and neither is one that the ring cannot give. *)
ReplayFromRedis(t) ==
  /\ asking[t] # None
  /\ LET g     == at[t]
         redis == Validate(asking[t].from)
         tail  == Peek(ring'[g], last'[g], redis.to)
         early == IF asking[t].ring.ok THEN asking[t].ring.sent ELSE <<>>
     IN  /\ redis.ok /\ redis.sent # <<>>
         /\ StoreExternal(g, redis.sent)
         /\ Answered(t, redis.sent \o (IF tail.ok THEN tail.sent ELSE early))
         /\ Excused([u \in Tabs |->
              IF u # t THEN (IF u \in At(g) THEN Between(last[g], last'[g]) ELSE {})
              ELSE IF tail.ok THEN Holes(t, tail.sent, redis.to)
              ELSE Holes(t, early, asking[t].from) \cup Behind(t, last'[g])])
  /\ UNCHANGED <<redisVars, pending, timer, sending, outbox, inbox, at, issued, taped, harm,
                 events>>

(* Redis says the tab is caught up: the ring may know better, but (known cause)
   a miss of the ring is taken for nothing to send. *)
TrustRedis(t) ==
  /\ asking[t] # None
  /\ LET redis == Validate(asking[t].from)
         local == asking[t].ring
     IN  /\ redis.ok /\ redis.sent = <<>>
         /\ Answered(t, IF local.ok THEN local.sent ELSE <<>>)
         /\ Excused([u \in Tabs |->
              IF u # t THEN {}
              ELSE IF local.ok THEN Holes(t, local.sent, asking[t].from) ELSE Behind(t, last[at[t]])])
  /\ UNCHANGED <<redisVars, gateVars, at, issued, taped, harm, events>>

(* Slip: a hole in the list of Redis is not noticed if the ring has frames. *)
RedisMissSlip(t) ==
  IF asking[t].ring.ok THEN asking[t].ring.sent ELSE <<Failed(asking[t].ring.to)>>
(* Redis knows that frames are missing: the tab is told. *)
RedisMiss(t) ==
  LET local == asking[t].ring
  IN  <<Failed(IF local.ok THEN Validate(asking[t].from).to ELSE local.to)>>

ResumeFails(t) ==
  /\ asking[t] # None
  /\ ~ Validate(asking[t].from).ok
  /\ Answered(t, RedisMiss(t))
  /\ Excused([u \in Tabs |-> {}])
  /\ UNCHANGED <<redisVars, gateVars, at, issued, taped, harm, events>>

(* Redis does not answer in time: the ring decides. *)
ReplayFromRing(t) ==
  /\ asking[t] # None
  /\ Fault({})
  /\ LET local == asking[t].ring
     IN  /\ Answered(t, IF local.ok THEN local.sent ELSE <<Failed(local.to)>>)
         /\ Excused([u \in Tabs |->
              IF u = t /\ local.ok THEN Holes(t, local.sent, asking[t].from) ELSE {}])
  /\ UNCHANGED <<redisVars, gateVars, at, issued, taped>>

Disconnect(t) ==
  /\ at[t] # None
  /\ at' = [at EXCEPT ![t] = None]
  /\ asking' = [asking EXCEPT ![t] = None]
  /\ UNCHANGED <<redisVars, gateVars, cursor, seen, histVars, harm, events>>

------------------------------------------------------------------------------
(* Restarts, and the end of the keys.                                       *)

UnderWay(g) ==
  Range(outbox[g]) \cup (IF sending[g] = None THEN {} ELSE {sending[g].frame})

(* The memory of a process is lost, with what it had not published yet. *)
Restart(g) ==
  /\ Fault({"unheard"})
  /\ last' = [last EXCEPT ![g] = 0]
  /\ ring' = [ring EXCEPT ![g] = <<>>]
  /\ pending' = [pending EXCEPT ![g] = {}]
  /\ timer' = [timer EXCEPT ![g] = FALSE]
  /\ sending' = [sending EXCEPT ![g] = None]
  /\ outbox' = [outbox EXCEPT ![g] = <<>>]
  /\ inbox' = [inbox EXCEPT ![g] = <<>>]
  /\ at' = [t \in Tabs |-> IF at[t] = g THEN None ELSE at[t]]
  /\ asking' = [t \in Tabs |-> IF at[t] = g THEN None ELSE asking[t]]
  /\ UNCHANGED <<redisVars, cursor, seen, histVars>>

(* Nothing has happened for replayTtlMs. *)
Expire ==
  /\ Fault({"expired"})
  /\ counter # 0
  /\ \A g \in Gates : UnderWay(g) = {} /\ inbox[g] = <<>> /\ ~ timer[g]
  /\ \A t \in Tabs : asking[t] = None
  /\ counter' = 0 /\ list' = <<>>
  /\ UNCHANGED <<gateVars, tabVars, histVars>>

Next ==
  \/ \E g \in Gates :
       \/ AllocateFrameSeq(g) \/ AllocateLocally(g) \/ Deliver(g)
       \/ Publish(g) \/ PublishFails(g)
       \/ HandleRedisSessionFrame(g) \/ Lose(g) \/ FlushRedisGap(g)
       \/ Restart(g)
       \/ \E t \in Tabs : AutoResumeFromHello(t, g)
  \/ \E t \in Tabs :
       \/ ReplayFromRedis(t) \/ TrustRedis(t) \/ ResumeFails(t) \/ ReplayFromRing(t)
       \/ Disconnect(t)
  \/ Expire

Spec == Init /\ [][Next]_vars

------------------------------------------------------------------------------
(* Properties.                                                              *)

(* No number is given twice. *)
Distinct == \A f, g \in issued : f.seq = g.seq => f = g

(* outboundRing.ts:9-11: "if it misses, we emit `outbound.resume_failed` and
   the client escalates to REST".  As long as no number is given twice, a tab has
   every frame of the tape whose number its cursor has passed, except those
   that one of these causes has kept from this very tab:
     - its process sent a frame of its own not knowing of the predecessors, or
       sent any frame while the resume of the tab waited for Redis;
     - the frame came out after the tab, or its process, had passed its number;
     - the resume of another tab of its process took the number of the process
       past frames that the channel had yet to bring;
     - its resume was served from a ring with a hole, or Redis was trusted where
       the ring has missed.
   Lost and refused messages, restarts, calls not answered, pruned rings, trimmed
   lists, full buffers and moves from one process to another leave no other gap. *)
NoSilentGap ==
  InTime /\ Distinct =>
    \A t \in Tabs : \A f \in taped :
      f.seq <= cursor[t] => f.id \in seen[t] \cup excused[t]

(* As long as Redis answers in time, no number is given twice, unless the counter
   has expired and, besides, some process did not hear of every frame or has
   forgotten some.  The frames of a ring are in the order of their numbers, as
   peekReplay takes for granted, even then. *)
NumbersInOrder ==
  InTime =>
    /\ ~ ({"expired", "unheard"} \subseteq harm) => Distinct
    /\ \A g \in Gates : \A k \in DOMAIN ring[g] \ {1} : ring[g][k - 1].seq < ring[g][k].seq

================================================================================
