------------------------- MODULE CodexAppServer_proofs -------------------------
(* What the run of CodexAppServer shows for a few prompts and processes, for  *)
(* any number of prompts, names of processes, calls and events.  The          *)
(* inductive invariant says where the attach, the calls and the turn stand,   *)
(* who waits for which line of the process, and what a thread is used for.    *)
EXTENDS CodexAppServer, SequenceTheorems, TLAPS

--------------------------------------------------------------------------------
(* The inductive invariant: types. *)

Ids     == Nat \cup {Goal, None}
Kinds   == {"ok", "refused", "gone", "orphan", "mismatch", "output", "completed", "interrupted"}
Message == [to : Waiters \cup {"thread"}, is : Kinds, id : Ids]
Reply   == [is : {"none", "sent", "failed", "ok", "orphan", "gone", "mismatch", "refused"},
            id : Ids \cup Procs]
Outcome == [is : {"none", "open", "failed", "completed", "interrupted"}, id : Turns \cup {None}]
Pending == [target : Turns \cup {None}, mode : {"public", "orphan"}, again : BOOLEAN,
            over : BOOLEAN, kept : SUBSET [id : Turns, how : {"completed", "interrupted"}]]
Closing == [how : {"none", "open", "dropped", "error", "rollout", "user", "completed", "interrupted"},
            by : Turns \cup {None}]

(* What a line may say to whom. *)
Meant(l) ==
  /\ l.to = "thread" <=> l.is \in {"output", "completed", "interrupted"}
  /\ l.to = "thread" => l.id \in Turns
  /\ l.is = "orphan" => l.to = "attach" /\ l.id = Goal
  /\ l.is = "gone" => l.to = "attach"
  /\ l.is = "mismatch" => l.to = "interrupt" /\ l.id \in Turns

PcTyped == pc \in {"idle", "attach", "send", "starting", "running", "close", "rebuild", "fail"}
CallsTyped ==
  /\ attach \in {"idle", "launch", "init", "spawned", "start", "resume", "orphan"}
  /\ warm \in {"idle", "launch", "init"}
  /\ control \in {"idle", "attach", "send", "sent"}
FlagsTyped ==
  /\ initialized \in BOOLEAN /\ attached \in BOOLEAN /\ held \in BOOLEAN /\ items \in BOOLEAN
  /\ raced \in BOOLEAN /\ overlap \in BOOLEAN /\ down \in BOOLEAN
  /\ upsets \in 0..MaxUpsets
NamesTyped ==
  /\ proc \in Procs \cup {None}
  /\ threads \in Nat
  /\ threadId \in Nat \cup {None}
QueueTyped == queue \in Seq(Prompts) /\ cur \in 0..MaxPrompts
EventsTyped ==
  /\ active \in Turns \cup {None}
  /\ completer \in Outcome
  /\ interrupting \in Pending
  /\ reason \in {"none", "user", "system", "rollout"}
AnswersTyped ==
  /\ answer \in [Waiters -> Reply]
  /\ answer["attach"].is = "orphan" => answer["attach"].id = Goal
  /\ answer["interrupt"].is = "mismatch" => answer["interrupt"].id \in Turns
CodexTyped ==
  /\ alive \in [Procs -> {"none", "up", "told", "dead"}]
  /\ run \in [Procs -> Turns \cup {None}]
  /\ waiting \in [Procs -> Seq(Turns)]
  /\ spoken \subseteq Turns
LinesTyped ==
  /\ out \in [Procs -> Seq(Message)]
  /\ \A p \in Procs : \A k \in DOMAIN out[p] : Meant(out[p][k])
SeenTyped ==
  /\ ends \in [Prompts -> Closing]
  /\ ran \in [Prompts -> Nat \cup {None}]
  /\ heard \subseteq Prompts \X Turns
  /\ stopped \subseteq Prompts /\ noticed \subseteq Prompts

Typed ==
  /\ PcTyped /\ CallsTyped /\ FlagsTyped /\ NamesTyped /\ QueueTyped
  /\ EventsTyped /\ AnswersTyped /\ CodexTyped /\ LinesTyped /\ SeenTyped

--------------------------------------------------------------------------------
(* Where the runner stands. *)

(* The attach, *)
Attaching ==
  /\ attached => attach = "idle" /\ proc # None
  /\ attach = "spawned" => proc # None
  /\ attach \in {"idle", "launch", "spawned"} => answer["attach"] = Nothing
  /\ attach \in {"init", "start", "resume"} => answer["attach"].is # "none"
  /\ attach = "orphan" => answer["attach"] \in {Nothing, Failure}
  /\ attach = "orphan" => (interrupting.target = None <=> answer["attach"].is = "failed")

(* the warm-up and the goal control, *)
Calling ==
  /\ warm # "init" => answer["warm"] = Nothing
  /\ control # "sent" => answer["control"] = Nothing
  /\ control = "send" => proc # None

(* the turn, *)
Turning ==
  /\ pc \notin {"starting", "rebuild"} => answer["turn"] = Nothing
  /\ pc \in {"starting", "rebuild"} => answer["turn"].is \in {"sent", "ok", "refused", "failed"}
  /\ pc = "send" => attached
  /\ pc = "starting" /\ answer["turn"].is # "failed" => attached
  /\ pc \in {"idle", "attach", "send"} => completer = Nothing
  /\ pc \in {"starting", "running"} => completer.is # "none"
  /\ pc \in {"close", "rebuild"} => completer.is \in {"completed", "interrupted"}
  /\ pc = "rebuild" => reason = "rollout"
  /\ completer.is = "open" =>
       pc \in {"starting", "running", "fail"} /\ attached /\ completer.id = None
  /\ completer.is \in {"none", "failed"} => completer.id = None
  /\ active # None => cur # 0

(* and the interrupt. *)
Interrupting ==
  /\ interrupting.target = None => interrupting = NoInterrupt
  /\ answer["interrupt"].is # "none" => interrupting.target # None
  /\ interrupting.target # None => proc # None
  /\ interrupting.target # None /\ interrupting.mode = "public" => cur # 0

(* Who has an answer has it from the process that there is; who waits without
   one is the rebuild of a thread. *)
Came ==
  \A w \in Waiters :
    /\ answer[w].is = "failed" => proc = None
    /\ answer[w].is \notin {"none", "sent", "failed"} => proc # None
    /\ answer[w].is = "sent" /\ proc = None =>
         w = "turn" /\ pc = "rebuild" /\ answer[w].id = None

(* The process answers nobody who does not wait for it, and nobody twice. *)
Asked ==
  proc # None =>
    \A k \in DOMAIN out[proc] : out[proc][k].to # "thread" =>
      /\ answer[out[proc][k].to] = [is |-> "sent", id |-> proc]
      /\ \A j \in DOMAIN out[proc] : out[proc][j].to = out[proc][k].to => j = k

(* The turn that was started is the one of its prompt. *)
Numbered ==
  pc = "starting" =>
    /\ answer["turn"].is = "ok" => answer["turn"].id = cur
    /\ proc # None => \A k \in DOMAIN out[proc] :
         out[proc][k].to = "turn" /\ out[proc][k].is = "ok" => out[proc][k].id = cur

--------------------------------------------------------------------------------
(* Prompts and threads. *)

(* Prompts are closed in their order; those that wait are open, those to come
   have not run. *)
Lined ==
  /\ \A s, t \in Prompts : s < t /\ ends[t].how # "none" => ends[s].how # "none"
  /\ \A k \in DOMAIN queue : cur < queue[k] /\ ends[queue[k]].how = "open"
  /\ \A i, j \in DOMAIN queue : i < j => queue[i] < queue[j]
  /\ \A t \in Prompts : cur < t => ran[t] = None /\ ends[t].how \in {"none", "open", "dropped"}
  /\ pc # "idle" => cur \in Prompts /\ ends[cur].how = "open"
  /\ cur # 0 => ends[cur].how # "none"

(* A thread that was asked for is one no turn has run on. *)
New(n) == n \in 1..threads /\ \A s \in Prompts : ran[s] # n
Expects(w) == (w = "attach" /\ attach = "start") \/ (w = "turn" /\ pc = "rebuild")
Threaded ==
  /\ threadId \in 1..threads \cup {None}
  /\ \A s \in Prompts : ran[s] \in 1..threads \cup {None}
  /\ \A w \in {"attach", "turn"} : Expects(w) =>
       /\ answer[w].is = "ok" => New(answer[w].id)
       /\ proc # None => \A k \in DOMAIN out[proc] :
            out[proc][k].to = w /\ out[proc][k].is = "ok" => New(out[proc][k].id)

(* While a turn or an interrupt may still tell of a lost rollout, the thread is
   the one the turn runs on. *)
Lost(s) == ends[s].how = "rollout" \/ (pc = "rebuild" /\ s = cur)
Caused ==
  /\ reason = "user" => cur \in stopped
  /\ reason = "rollout" => cur \in noticed
  /\ \A s \in Prompts :
       /\ ends[s].how = "user" => s \in stopped
       /\ Lost(s) => /\ s \in noticed
                     /\ ran[s] # None => threadId # ran[s]
                     /\ \A t \in Prompts : s < t /\ ran[t] # None => ran[t] # ran[s]

(* One launch at a time, and no other process than the one it made. *)
OneLaunch ==
  /\ attach = "launch" \/ warm = "launch" => proc = None
  /\ ~ (attach = "launch" /\ warm = "launch")
AllWait ==
  \A w \in Waiters : answer[w].is = "sent" =>
    answer[w].id = proc \/ (w = "turn" /\ pc = "rebuild" /\ answer[w].id = None)
Halted == proc = None /\ queue = <<>> /\ attach # "launch" /\ warm # "launch"
Alone ==
  /\ ~ overlap => (\A p \in Procs : alive[p] = "up" => p = proc) /\ OneLaunch /\ AllWait
  /\ down => Halted

--------------------------------------------------------------------------------
(* Names and lines. *)

(* The names of things are not one another's. *)
LEMMA Names ==
  /\ None # Goal /\ None \notin Nat /\ Goal \notin Nat /\ None \notin Procs /\ Goal \notin Procs
  /\ MaxPrompts \in Nat /\ MaxUpsets \in Nat
  /\ \A s \in Prompts : s \in Nat /\ s # 0 /\ s # None /\ s # Goal /\ s \in Turns
  /\ None \notin Turns /\ Goal \in Turns /\ Turns \subseteq Nat \cup {Goal}
BY NameAssumption, BoundAssumption DEF Prompts, Turns

(* What is put out joins what nobody has read. *)
LEMMA Joined ==
  ASSUME NEW S, NEW s \in Seq(S), NEW r \in Seq(S)
  PROVE  /\ s \o r \in Seq(S)
         /\ DOMAIN s = 1..Len(s) /\ Len(s) \in Nat
         /\ \A k \in DOMAIN s : k \in DOMAIN (s \o r) /\ (s \o r)[k] = s[k]
         /\ \A k \in DOMAIN (s \o r) :
              \/ k \in DOMAIN s /\ (s \o r)[k] = s[k]
              \/ \E j \in DOMAIN r : k = Len(s) + j /\ k \notin DOMAIN s /\ (s \o r)[k] = r[j]
         /\ \A j \in DOMAIN r : Len(s) + j \in DOMAIN (s \o r) /\ (s \o r)[Len(s) + j] = r[j]
<1>1. /\ s \o r \in Seq(S) /\ DOMAIN s = 1..Len(s) /\ Len(s) \in Nat /\ DOMAIN r = 1..Len(r)
      /\ Len(r) \in Nat /\ DOMAIN (s \o r) = 1..(Len(s) + Len(r))
  OBVIOUS
<1>2. \A k \in 1..(Len(s) + Len(r)) : (s \o r)[k] = IF k <= Len(s) THEN s[k] ELSE r[k - Len(s)]
  OBVIOUS
<1>3. ASSUME NEW k \in DOMAIN s PROVE k \in DOMAIN (s \o r) /\ (s \o r)[k] = s[k]
  BY <1>1, <1>2
<1>4. ASSUME NEW k \in DOMAIN (s \o r), k \notin DOMAIN s
      PROVE  \E j \in DOMAIN r : k = Len(s) + j /\ (s \o r)[k] = r[j]
  <2>1. k - Len(s) \in DOMAIN r /\ k = Len(s) + (k - Len(s)) /\ (s \o r)[k] = r[k - Len(s)]
    BY <1>1, <1>2, <1>4
  <2>2. QED
    BY <2>1
<1>5. ASSUME NEW j \in DOMAIN r PROVE Len(s) + j \in DOMAIN (s \o r) /\ (s \o r)[Len(s) + j] = r[j]
  BY <1>1, <1>2
<1>6. QED
  BY <1>1, <1>3, <1>4, <1>5

(* What Tail leaves of a sequence. *)
LEMMA Shrunk ==
  ASSUME NEW S, NEW s \in Seq(S), s # <<>>
  PROVE  /\ Tail(s) \in Seq(S) /\ DOMAIN s = 1..Len(s) /\ Len(s) \in Nat
         /\ 1 \in DOMAIN s /\ Head(s) = s[1] /\ s[1] \in S
         /\ DOMAIN Tail(s) = 1..(Len(s) - 1)
         /\ \A k \in DOMAIN Tail(s) : k + 1 \in DOMAIN s /\ k + 1 # 1 /\ k \in Nat /\ Tail(s)[k] = s[k + 1]
         /\ \A k \in DOMAIN s : k = 1 \/ (k - 1 \in DOMAIN Tail(s) /\ Tail(s)[k - 1] = s[k])
OBVIOUS

(* What a process that ends leaves of its lines. *)
LEMMA CutShort ==
  ASSUME NEW S, NEW s \in Seq(S), NEW n \in 0..Len(s)
  PROVE  /\ SubSeq(s, 1, n) \in Seq(S)
         /\ \A k \in DOMAIN SubSeq(s, 1, n) : k \in DOMAIN s /\ SubSeq(s, 1, n)[k] = s[k]
<1>1. Len(s) \in Nat /\ n \in Nat /\ n <= Len(s) /\ DOMAIN s = 1..Len(s)
  OBVIOUS
<1>2. SubSeq(s, 1, n) = [i \in 1..n |-> s[i]]
  BY <1>1
<1>3. \A i \in 1..n : s[i] \in S /\ i \in DOMAIN s
  BY <1>1
<1>4. QED
  BY <1>1, <1>2, <1>3

(* A line that a process puts out. *)
Puts(p, l) == out' = [out EXCEPT ![p] = @ \o <<l>>]

LEMMA LinePut ==
  ASSUME LinesTyped, NEW p \in Procs, NEW l \in Message, Meant(l), Puts(p, l)
  PROVE  /\ LinesTyped'
         /\ \A q \in Procs \ {p} : out'[q] = out[q]
         /\ \A k \in DOMAIN out[p] : k \in DOMAIN out'[p] /\ out'[p][k] = out[p][k]
         /\ \A k \in DOMAIN out'[p] :
              \/ k \in DOMAIN out[p] /\ out'[p][k] = out[p][k]
              \/ k = Len(out[p]) + 1 /\ out'[p][k] = l
         /\ Len(out[p]) + 1 \in DOMAIN out'[p] /\ out'[p][Len(out[p]) + 1] = l
         /\ DOMAIN out[p] = 1..Len(out[p]) /\ Len(out[p]) \in Nat /\ Len(out[p]) + 1 \notin DOMAIN out[p]
<1>1. out[p] \in Seq(Message) /\ <<l>> \in Seq(Message) /\ out \in [Procs -> Seq(Message)]
  BY DEF LinesTyped
<1>2. out'[p] = out[p] \o <<l>> /\ \A q \in Procs \ {p} : out'[q] = out[q]
  BY <1>1 DEF Puts
<1>3. DOMAIN <<l>> = {1} /\ <<l>>[1] = l
  OBVIOUS
<1>4. /\ out[p] \o <<l>> \in Seq(Message)
      /\ DOMAIN out[p] = 1..Len(out[p]) /\ Len(out[p]) \in Nat
      /\ \A k \in DOMAIN out[p] : k \in DOMAIN out'[p] /\ out'[p][k] = out[p][k]
      /\ \A k \in DOMAIN out'[p] :
           \/ k \in DOMAIN out[p] /\ out'[p][k] = out[p][k]
           \/ k = Len(out[p]) + 1 /\ out'[p][k] = l
      /\ Len(out[p]) + 1 \in DOMAIN out'[p] /\ out'[p][Len(out[p]) + 1] = l
  <2> DEFINE s == out[p]
             r == <<l>>
             t == out'[p]
  <2>1. s \in Seq(Message) /\ r \in Seq(Message) /\ t = s \o r /\ DOMAIN r = {1} /\ r[1] = l
    BY <1>1, <1>2, <1>3
  <2> HIDE DEF s, r, t
  <2>2. /\ s \o r \in Seq(Message) /\ DOMAIN s = 1..Len(s) /\ Len(s) \in Nat
        /\ \A k \in DOMAIN s : k \in DOMAIN t /\ t[k] = s[k]
        /\ \A k \in DOMAIN t : \/ k \in DOMAIN s /\ t[k] = s[k]
                               \/ \E j \in DOMAIN r : k = Len(s) + j /\ t[k] = r[j]
        /\ \A j \in DOMAIN r : Len(s) + j \in DOMAIN t /\ t[Len(s) + j] = r[j]
    <3> DEFINE c == s \o r
    <3>1. t = c
      BY <2>1
    <3>2. /\ c \in Seq(Message) /\ DOMAIN s = 1..Len(s) /\ Len(s) \in Nat
          /\ \A k \in DOMAIN s : k \in DOMAIN c /\ c[k] = s[k]
          /\ \A k \in DOMAIN c :
               \/ k \in DOMAIN s /\ c[k] = s[k]
               \/ \E j \in DOMAIN r : k = Len(s) + j /\ k \notin DOMAIN s /\ c[k] = r[j]
          /\ \A j \in DOMAIN r : Len(s) + j \in DOMAIN c /\ c[Len(s) + j] = r[j]
      <4>1. s \in Seq(Message) /\ r \in Seq(Message)
        BY <2>1
      <4>2. QED
        BY ONLY <4>1, Joined
    <3>3. c = s \o r
      OBVIOUS
    <3> HIDE DEF c
    <3>4. QED
      BY ONLY <3>1, <3>2, <3>3
  <2>3. /\ \A k \in DOMAIN t : \/ k \in DOMAIN s /\ t[k] = s[k]
                               \/ k = Len(s) + 1 /\ t[k] = l
        /\ Len(s) + 1 \in DOMAIN t /\ t[Len(s) + 1] = l
    BY ONLY <2>1, <2>2
  <2>4. QED
    BY ONLY <2>1, <2>2, <2>3 DEF s, r, t
<1>5. out' \in [Procs -> Seq(Message)]
  BY <1>1, <1>4 DEF Puts
<1>6. \A q \in Procs : \A k \in DOMAIN out'[q] : Meant(out'[q][k])
  BY <1>2, <1>4 DEF LinesTyped
<1>7. LinesTyped'
  <2>1. \A q \in Procs : \A k \in DOMAIN out'[q] : Meant(out[q][k])' <=> Meant(out'[q][k])
    BY DEF Meant
  <2>2. QED
    BY <1>5, <1>6, <2>1 DEF LinesTyped
<1>8. QED
  BY <1>2, <1>4, <1>7

(* The first line of a process is read. *)
LEMMA LineRead ==
  ASSUME LinesTyped, NEW p \in Procs, Read(p)
  PROVE  /\ LinesTyped'
         /\ \A q \in Procs \ {p} : out'[q] = out[q]
         /\ 1 \in DOMAIN out[p] /\ First(p) = out[p][1] /\ First(p) \in Message /\ Meant(First(p))
         /\ DOMAIN out[p] = 1..Len(out[p]) /\ Len(out[p]) \in Nat
         /\ \A k \in DOMAIN out'[p] :
              k + 1 \in DOMAIN out[p] /\ k + 1 # 1 /\ k \in Nat /\ out'[p][k] = out[p][k + 1]
         /\ \A k \in DOMAIN out[p] :
              k = 1 \/ (k - 1 \in DOMAIN out'[p] /\ out'[p][k - 1] = out[p][k])
<1>1. out[p] \in Seq(Message) /\ out[p] # <<>> /\ out \in [Procs -> Seq(Message)]
  BY DEF LinesTyped, Read
<1>2. out'[p] = Tail(out[p]) /\ \A q \in Procs \ {p} : out'[q] = out[q]
  BY <1>1 DEF Read
<1>3. /\ Tail(out[p]) \in Seq(Message) /\ DOMAIN out[p] = 1..Len(out[p]) /\ Len(out[p]) \in Nat
      /\ 1 \in DOMAIN out[p] /\ First(p) = out[p][1] /\ First(p) \in Message
      /\ \A k \in DOMAIN out'[p] :
           k + 1 \in DOMAIN out[p] /\ k + 1 # 1 /\ k \in Nat /\ out'[p][k] = out[p][k + 1]
      /\ \A k \in DOMAIN out[p] :
           k = 1 \/ (k - 1 \in DOMAIN out'[p] /\ out'[p][k - 1] = out[p][k])
  BY <1>1, <1>2, Shrunk DEF First
<1>4. out' \in [Procs -> Seq(Message)]
  BY <1>1, <1>3 DEF Read
<1>5. \A q \in Procs : \A k \in DOMAIN out'[q] : Meant(out'[q][k])
  <2>1. ASSUME NEW k \in DOMAIN out'[p] PROVE Meant(out'[p][k])
    <3>1. k + 1 \in DOMAIN out[p] /\ out'[p][k] = out[p][k + 1]
      BY <1>3
    <3>2. QED
      BY <3>1 DEF LinesTyped
  <2>2. QED
    BY <1>2, <2>1 DEF LinesTyped
<1>6. LinesTyped'
  <2>1. \A q \in Procs : \A k \in DOMAIN out'[q] : Meant(out[q][k])' <=> Meant(out'[q][k])
    BY DEF Meant
  <2>2. QED
    BY <1>4, <1>5, <2>1 DEF LinesTyped
<1>7. Meant(First(p))
  BY <1>3 DEF LinesTyped
<1>8. QED
  BY <1>2, <1>3, <1>6, <1>7

(* A process ends, and some of its lines with it. *)
LEMMA LinesCut ==
  ASSUME LinesTyped, NEW p \in Procs, Die(p)
  PROVE  /\ LinesTyped'
         /\ \A q \in Procs \ {p} : out'[q] = out[q]
         /\ \A k \in DOMAIN out'[p] : k \in DOMAIN out[p] /\ out'[p][k] = out[p][k]
<1>1. out[p] \in Seq(Message) /\ out \in [Procs -> Seq(Message)]
  BY DEF LinesTyped
<1>2. PICK n \in 0..Len(out[p]) : out' = [out EXCEPT ![p] = SubSeq(@, 1, n)]
  BY DEF Die
<1>3. out'[p] = SubSeq(out[p], 1, n) /\ \A q \in Procs \ {p} : out'[q] = out[q]
  BY <1>1, <1>2
<1>4. SubSeq(out[p], 1, n) \in Seq(Message) /\ \A k \in DOMAIN out'[p] : k \in DOMAIN out[p] /\ out'[p][k] = out[p][k]
  BY <1>1, <1>3, CutShort
<1>5. out' \in [Procs -> Seq(Message)]
  BY <1>1, <1>2, <1>4
<1>6. \A q \in Procs : \A k \in DOMAIN out'[q] : Meant(out'[q][k])
  BY <1>3, <1>4 DEF LinesTyped
<1>7. LinesTyped'
  <2>1. \A q \in Procs : \A k \in DOMAIN out'[q] : Meant(out[q][k])' <=> Meant(out'[q][k])
    BY DEF Meant
  <2>2. QED
    BY <1>5, <1>6, <2>1 DEF LinesTyped
<1>8. QED
  BY <1>3, <1>4, <1>7

(* A process is launched, and will say that it is initialized. *)
LEMMA Launched ==
  ASSUME LinesTyped, NamesTyped, CodexTyped, NEW w \in {"attach", "warm"}, Launch(w)
  PROVE  /\ LinesTyped'
         /\ proc' \in Procs /\ alive[proc'] = "none" /\ alive' = [alive EXCEPT ![proc'] = "up"]
         /\ run' = [run EXCEPT ![proc'] = None] /\ waiting' = [waiting EXCEPT ![proc'] = <<>>]
         /\ answer' = [answer EXCEPT ![w] = [is |-> "sent", id |-> proc']]
         /\ DOMAIN out'[proc'] = {1} /\ out'[proc'][1] = Line(w, "ok", None)
<1>1. PICK p \in Procs : alive[p] = "none" /\ proc' = p
  BY DEF Launch
<1>2. out' = [out EXCEPT ![p] = <<Line(w, "ok", None)>>]
  BY <1>1 DEF Launch
<1>3. Line(w, "ok", None) \in Message /\ Meant(Line(w, "ok", None))
  BY DEF Line, Message, Meant, Ids, Kinds, Waiters
<1>4. out' \in [Procs -> Seq(Message)] /\ out'[p] = <<Line(w, "ok", None)>>
      /\ \A q \in Procs \ {p} : out'[q] = out[q]
  BY <1>2, <1>3 DEF LinesTyped
<1>5. DOMAIN out'[p] = {1} /\ out'[p][1] = Line(w, "ok", None)
  BY <1>4
<1>6. \A q \in Procs : \A k \in DOMAIN out'[q] : Meant(out'[q][k])
  BY <1>3, <1>4, <1>5 DEF LinesTyped
<1>7. LinesTyped'
  <2>1. \A q \in Procs : \A k \in DOMAIN out'[q] : Meant(out[q][k])' <=> Meant(out'[q][k])
    BY DEF Meant
  <2>2. QED
    BY <1>4, <1>6, <2>1 DEF LinesTyped
<1>8. QED
  BY <1>1, <1>5, <1>7 DEF Launch

(* Two lines at once. *)
PutsBoth(p, l, m) == out' = [out EXCEPT ![p] = @ \o <<l, m>>]

LEMMA PairPut ==
  ASSUME LinesTyped, NEW p \in Procs, NEW l \in Message, NEW m \in Message, Meant(l), Meant(m),
         PutsBoth(p, l, m)
  PROVE  /\ LinesTyped'
         /\ \A q \in Procs \ {p} : out'[q] = out[q]
         /\ \A k \in DOMAIN out[p] : k \in DOMAIN out'[p] /\ out'[p][k] = out[p][k]
         /\ \A k \in DOMAIN out'[p] :
              \/ k \in DOMAIN out[p] /\ out'[p][k] = out[p][k]
              \/ k = Len(out[p]) + 1 /\ out'[p][k] = l
              \/ k = Len(out[p]) + 2 /\ out'[p][k] = m
         /\ Len(out[p]) + 1 \in DOMAIN out'[p] /\ out'[p][Len(out[p]) + 1] = l
         /\ Len(out[p]) + 2 \in DOMAIN out'[p] /\ out'[p][Len(out[p]) + 2] = m
         /\ DOMAIN out[p] = 1..Len(out[p]) /\ Len(out[p]) \in Nat
<1>1. out[p] \in Seq(Message) /\ <<l, m>> \in Seq(Message) /\ out \in [Procs -> Seq(Message)]
  BY DEF LinesTyped
<1>2. out'[p] = out[p] \o <<l, m>> /\ \A q \in Procs \ {p} : out'[q] = out[q]
  BY <1>1 DEF PutsBoth
<1>3. DOMAIN <<l, m>> = {1, 2} /\ <<l, m>>[1] = l /\ <<l, m>>[2] = m
  OBVIOUS
<1>4. /\ out[p] \o <<l, m>> \in Seq(Message)
      /\ DOMAIN out[p] = 1..Len(out[p]) /\ Len(out[p]) \in Nat
      /\ \A k \in DOMAIN out[p] : k \in DOMAIN out'[p] /\ out'[p][k] = out[p][k]
      /\ \A k \in DOMAIN out'[p] :
           \/ k \in DOMAIN out[p] /\ out'[p][k] = out[p][k]
           \/ k = Len(out[p]) + 1 /\ out'[p][k] = l
           \/ k = Len(out[p]) + 2 /\ out'[p][k] = m
      /\ Len(out[p]) + 1 \in DOMAIN out'[p] /\ out'[p][Len(out[p]) + 1] = l
      /\ Len(out[p]) + 2 \in DOMAIN out'[p] /\ out'[p][Len(out[p]) + 2] = m
  <2> DEFINE s == out[p]
             r == <<l, m>>
             t == out'[p]
  <2>1. s \in Seq(Message) /\ r \in Seq(Message) /\ t = s \o r
        /\ DOMAIN r = {1, 2} /\ r[1] = l /\ r[2] = m
    BY <1>1, <1>2, <1>3
  <2> HIDE DEF s, r, t
  <2>2. /\ s \o r \in Seq(Message) /\ DOMAIN s = 1..Len(s) /\ Len(s) \in Nat
        /\ \A k \in DOMAIN s : k \in DOMAIN t /\ t[k] = s[k]
        /\ \A k \in DOMAIN t : \/ k \in DOMAIN s /\ t[k] = s[k]
                               \/ \E j \in DOMAIN r : k = Len(s) + j /\ t[k] = r[j]
        /\ \A j \in DOMAIN r : Len(s) + j \in DOMAIN t /\ t[Len(s) + j] = r[j]
    <3> DEFINE c == s \o r
    <3>1. t = c
      BY <2>1
    <3>2. /\ c \in Seq(Message) /\ DOMAIN s = 1..Len(s) /\ Len(s) \in Nat
          /\ \A k \in DOMAIN s : k \in DOMAIN c /\ c[k] = s[k]
          /\ \A k \in DOMAIN c :
               \/ k \in DOMAIN s /\ c[k] = s[k]
               \/ \E j \in DOMAIN r : k = Len(s) + j /\ k \notin DOMAIN s /\ c[k] = r[j]
          /\ \A j \in DOMAIN r : Len(s) + j \in DOMAIN c /\ c[Len(s) + j] = r[j]
      <4>1. s \in Seq(Message) /\ r \in Seq(Message)
        BY <2>1
      <4>2. QED
        BY ONLY <4>1, Joined
    <3>3. c = s \o r
      OBVIOUS
    <3> HIDE DEF c
    <3>4. QED
      BY ONLY <3>1, <3>2, <3>3
  <2>3. /\ \A k \in DOMAIN t : \/ k \in DOMAIN s /\ t[k] = s[k]
                               \/ k = Len(s) + 1 /\ t[k] = l
                               \/ k = Len(s) + 2 /\ t[k] = m
        /\ Len(s) + 1 \in DOMAIN t /\ t[Len(s) + 1] = l
        /\ Len(s) + 2 \in DOMAIN t /\ t[Len(s) + 2] = m
    BY ONLY <2>1, <2>2
  <2>4. QED
    BY ONLY <2>1, <2>2, <2>3 DEF s, r, t
<1>5. out' \in [Procs -> Seq(Message)]
  BY <1>1, <1>4 DEF PutsBoth
<1>6. \A q \in Procs : \A k \in DOMAIN out'[q] : Meant(out'[q][k])
  BY <1>2, <1>4 DEF LinesTyped
<1>7. LinesTyped'
  <2>1. \A q \in Procs : \A k \in DOMAIN out'[q] : Meant(out[q][k])' <=> Meant(out'[q][k])
    BY DEF Meant
  <2>2. QED
    BY <1>5, <1>6, <2>1 DEF LinesTyped
<1>8. QED
  BY <1>2, <1>4, <1>7

(* What a request to the process brings: of a new thread, *)
Answering(w) == answer' = [answer EXCEPT ![w] = [is |-> "sent", id |-> proc]]
Lines == {l \in Message : Meant(l)}

LEMMA StartThreadSays ==
  ASSUME Typed, NEW w \in {"attach", "turn"}, StartThread(w)
  PROVE  /\ Answering(w)
         /\ UNCHANGED <<alive, run, waiting, spoken, raced>>
         /\ upsets' \in 0..MaxUpsets
         /\ \/ UNCHANGED <<out, threads>>
            \/ /\ Served /\ proc \in Procs
               /\ \E l \in Lines :
                    /\ Puts(proc, l) /\ l.to = w
                    /\ \/ l.is = "refused" /\ UNCHANGED threads
                       \/ l.is = "ok" /\ threads' = threads + 1 /\ l.id = threads + 1
<1>1. Answering(w) /\ UNCHANGED <<alive, run, waiting, spoken, raced>> /\ upsets' \in 0..MaxUpsets
  BY Names DEF StartThread, Unserved, Refuse, Send, Answering, codexVars, Typed, FlagsTyped, Upset
<1>2. CASE Unserved
  BY <1>1, <1>2 DEF Unserved, codexVars
<1>3. CASE Refuse(w)
  <2>1. Line(w, "refused", None) \in Lines
    BY DEF Line, Lines, Message, Meant, Ids, Kinds, Waiters
  <2>2. Puts(proc, Line(w, "refused", None)) /\ UNCHANGED threads /\ Served /\ proc \in Procs
    BY <1>3 DEF Refuse, Puts, Say, Served, Typed, NamesTyped
  <2>3. Line(w, "refused", None).to = w /\ Line(w, "refused", None).is = "refused"
    BY DEF Line
  <2>4. QED
    BY <1>1, <2>1, <2>2, <2>3
<1>4. CASE Served /\ threads' = threads + 1 /\ Say(proc, <<Line(w, "ok", threads + 1)>>)
  <2>1. Line(w, "ok", threads + 1) \in Lines
    BY DEF Line, Lines, Message, Meant, Ids, Kinds, Waiters, Typed, NamesTyped
  <2>2. Puts(proc, Line(w, "ok", threads + 1)) /\ proc \in Procs
    BY <1>4 DEF Puts, Say, Served, Typed, NamesTyped
  <2>3. /\ Line(w, "ok", threads + 1).to = w /\ Line(w, "ok", threads + 1).is = "ok"
        /\ Line(w, "ok", threads + 1).id = threads + 1
    BY DEF Line
  <2>4. QED
    BY <1>1, <1>4, <2>1, <2>2, <2>3
<1>5. QED
  BY <1>2, <1>3, <1>4 DEF StartThread

(* of an old thread, *)
LEMMA ResumeSays ==
  ASSUME Typed, ResumeThread
  PROVE  /\ Answering("attach")
         /\ UNCHANGED <<alive, waiting, threads, spoken, raced>>
         /\ upsets' \in 0..MaxUpsets
         /\ \/ UNCHANGED <<out, run>>
            \/ /\ Served /\ proc \in Procs
               /\ \E l \in Lines :
                    /\ Puts(proc, l) /\ l.to = "attach"
                    /\ \/ l.is \in {"ok", "refused", "gone"} /\ UNCHANGED run
                       \/ l.is = "orphan" /\ run' = [run EXCEPT ![proc] = Goal]
<1>1. Answering("attach") /\ UNCHANGED <<alive, waiting, threads, spoken, raced>> /\ upsets' \in 0..MaxUpsets
  BY Names DEF ResumeThread, Unserved, Refuse, Send, Answering, codexVars, Typed, FlagsTyped, Upset
<1>2. CASE Unserved
  BY <1>1, <1>2 DEF Unserved, codexVars
<1>3. ASSUME NEW is \in {"ok", "refused", "gone", "orphan"}, NEW id \in Nat \cup {Goal, None},
             Served, Say(proc, <<Line("attach", is, id)>>),
             \/ is # "orphan" /\ UNCHANGED run
             \/ is = "orphan" /\ id = Goal /\ run' = [run EXCEPT ![proc] = Goal]
      PROVE  /\ Served /\ proc \in Procs
             /\ \E l \in Lines :
                  /\ Puts(proc, l) /\ l.to = "attach"
                  /\ \/ l.is \in {"ok", "refused", "gone"} /\ UNCHANGED run
                     \/ l.is = "orphan" /\ run' = [run EXCEPT ![proc] = Goal]
  <2>1. Line("attach", is, id) \in Lines
    BY <1>3 DEF Line, Lines, Message, Meant, Ids, Kinds, Waiters
  <2>2. Puts(proc, Line("attach", is, id)) /\ proc \in Procs
    BY <1>3 DEF Puts, Say, Served, Typed, NamesTyped
  <2>3. Line("attach", is, id).to = "attach" /\ Line("attach", is, id).is = is
    BY DEF Line
  <2>4. QED
    BY <1>3, <2>1, <2>2, <2>3
<1>4. CASE Refuse("attach")
  <2>1. Served /\ Say(proc, <<Line("attach", "refused", None)>>) /\ UNCHANGED run
    BY <1>4 DEF Refuse
  <2>2. QED
    BY <1>1, <1>3, <2>1
<1>5. CASE Served /\ Say(proc, <<Line("attach", "ok", threadId)>>) /\ UNCHANGED run
  <2>1. threadId \in Nat \cup {Goal, None}
    BY DEF Typed, NamesTyped
  <2>2. QED
    BY <1>1, <1>3, <1>5, <2>1
<1>6. CASE Served /\ Say(proc, <<Line("attach", "gone", None)>>) /\ UNCHANGED run
  BY <1>1, <1>3, <1>6
<1>7. CASE Served /\ Say(proc, <<Line("attach", "orphan", Goal)>>) /\ run' = [run EXCEPT ![proc] = Goal]
  BY <1>1, <1>3, <1>7
<1>8. QED
  BY <1>2, <1>4, <1>5, <1>6, <1>7 DEF ResumeThread

(* of a turn, *)
LEMMA StartTurnSays ==
  ASSUME Typed, cur \in Prompts, StartTurn
  PROVE  /\ Answering("turn")
         /\ UNCHANGED <<alive, threads, spoken, raced>>
         /\ upsets' \in 0..MaxUpsets
         /\ \/ UNCHANGED <<out, run, waiting>>
            \/ /\ Served /\ proc \in Procs
               /\ \E l \in Lines :
                    /\ Puts(proc, l) /\ l.to = "turn"
                    /\ \/ l.is = "refused" /\ UNCHANGED <<run, waiting>>
                       \/ /\ l.is = "ok" /\ l.id = cur
                          /\ \/ /\ run[proc] = None /\ run' = [run EXCEPT ![proc] = cur]
                                /\ UNCHANGED waiting
                             \/ /\ run[proc] # None /\ UNCHANGED run
                                /\ waiting' = [waiting EXCEPT ![proc] = Append(@, cur)]
<1>1. Answering("turn") /\ UNCHANGED <<alive, threads, spoken, raced>> /\ upsets' \in 0..MaxUpsets
  BY Names DEF StartTurn, Unserved, Refuse, Send, Answering, codexVars, Typed, FlagsTyped, Upset
<1>2. CASE Unserved
  BY <1>1, <1>2 DEF Unserved, codexVars
<1>3. CASE Refuse("turn")
  <2>1. Line("turn", "refused", None) \in Lines
    BY DEF Line, Lines, Message, Meant, Ids, Kinds, Waiters
  <2>2. Puts(proc, Line("turn", "refused", None)) /\ UNCHANGED <<run, waiting>> /\ Served /\ proc \in Procs
    BY <1>3 DEF Refuse, Puts, Say, Served, Typed, NamesTyped
  <2>3. Line("turn", "refused", None).to = "turn" /\ Line("turn", "refused", None).is = "refused"
    BY DEF Line
  <2>4. QED
    BY <1>1, <2>1, <2>2, <2>3
<1>4. CASE /\ Served /\ Say(proc, <<Line("turn", "ok", cur)>>)
           /\ IF run[proc] = None
              THEN run' = [run EXCEPT ![proc] = cur] /\ UNCHANGED waiting
              ELSE waiting' = [waiting EXCEPT ![proc] = Append(@, cur)] /\ UNCHANGED run
  <2>1. Line("turn", "ok", cur) \in Lines
    BY Names DEF Line, Lines, Message, Meant, Ids, Kinds, Waiters
  <2>2. Puts(proc, Line("turn", "ok", cur)) /\ proc \in Procs
    BY <1>4 DEF Puts, Say, Served, Typed, NamesTyped
  <2>3. Line("turn", "ok", cur).to = "turn" /\ Line("turn", "ok", cur).is = "ok" /\ Line("turn", "ok", cur).id = cur
    BY DEF Line
  <2>4. QED
    BY <1>1, <1>4, <2>1, <2>2, <2>3
<1>5. QED
  BY <1>2, <1>3, <1>4 DEF StartTurn

(* and of an interrupt. *)
LEMMA InterruptSays ==
  ASSUME Typed, NEW t \in Turns, NEW answers, AskInterrupt(t, answers)
  PROVE  /\ answer' = [answers EXCEPT !["interrupt"] = [is |-> "sent", id |-> proc]]
         /\ UNCHANGED <<alive, threads, spoken, raced>>
         /\ \/ UNCHANGED <<out, run, waiting>>
            \/ /\ Served /\ proc \in Procs /\ run[proc] = t /\ TurnOver(proc)
               /\ \E l, m \in Lines :
                    /\ PutsBoth(proc, l, m)
                    /\ {l, m} = {Line("interrupt", "ok", None), Line("thread", "interrupted", t)}
            \/ /\ Served /\ proc \in Procs /\ UNCHANGED <<run, waiting>>
               /\ \E l \in Lines :
                    /\ Puts(proc, l) /\ l.to = "interrupt"
                    /\ \/ l.is = "refused" /\ run[proc] = None
                       \/ l.is = "mismatch" /\ l.id = run[proc] /\ run[proc] # None /\ run[proc] # t
<1> DEFINE yes  == Line("interrupt", "ok", None)
           over == Line("thread", "interrupted", t)
           other == IF run[proc] = None THEN Line("interrupt", "refused", None)
                    ELSE Line("interrupt", "mismatch", run[proc])
<1>1. /\ answer' = [answers EXCEPT !["interrupt"] = [is |-> "sent", id |-> proc]]
      /\ UNCHANGED <<alive, threads, spoken, raced>>
  BY DEF AskInterrupt
<1>2. yes \in Lines /\ over \in Lines
  BY Names DEF Line, Lines, Message, Meant, Ids, Kinds, Waiters, Turns
<1>3. CASE ~ Served
  BY <1>1, <1>3 DEF AskInterrupt
<1>4. Served => proc \in Procs /\ run[proc] \in Turns \cup {None}
  BY DEF Served, Typed, NamesTyped, CodexTyped
<1>5. CASE Served /\ run[proc] = t
  <2>1. (Say(proc, <<yes, over>>) \/ Say(proc, <<over, yes>>)) /\ TurnOver(proc)
    BY <1>5 DEF AskInterrupt
  <2>2. PutsBoth(proc, yes, over) \/ PutsBoth(proc, over, yes)
    BY <2>1 DEF Say, PutsBoth
  <2>3. QED
    BY <1>1, <1>2, <1>4, <1>5, <2>1, <2>2
<1>6. CASE Served /\ run[proc] # t
  <2>1. Say(proc, <<other>>) /\ UNCHANGED <<run, waiting>>
    BY <1>6 DEF AskInterrupt
  <2>2. Puts(proc, other)
    BY <2>1 DEF Say, Puts
  <2>3. other \in Lines
    BY <1>4, <1>6, Names DEF Line, Lines, Message, Meant, Ids, Kinds, Waiters, Turns
  <2>4. /\ other.to = "interrupt"
        /\ \/ other.is = "refused" /\ run[proc] = None
           \/ other.is = "mismatch" /\ other.id = run[proc] /\ run[proc] # None
    BY DEF Line
  <2>5. QED
    BY <1>1, <1>4, <1>6, <2>1, <2>2, <2>3, <2>4
<1>7. QED
  BY <1>3, <1>5, <1>6

--------------------------------------------------------------------------------
(* Every step keeps the types: of the place in a turn, *)
LEMMA PcStep ==
  ASSUME Typed, [Next]_vars
  PROVE  PcTyped'
<1> USE DEF Typed
<1>1. CASE \E p \in Procs : Ignore(p) \/ Answered(p) \/ Output(p) \/ Ended(p)
  BY <1>1
  DEF Ignore, Answered, Output, Ended, Read, turnVars, PcTyped
<1>2. CASE \/ Initialized \/ SendThread \/ ThreadReady \/ ThreadGone \/ AttachFails
           \/ FoundOrphan \/ InterruptTaken \/ Retarget
  BY <1>2
  DEF Initialized, SendThread, ThreadReady, ThreadGone, AttachFails, FoundOrphan, InterruptTaken,
      Retarget, AttachEnds, turnVars, PcTyped
<1>3. CASE \/ InterruptOver \/ InterruptFails \/ Take \/ SendTurn \/ Started \/ StartFails
           \/ Settled
  BY <1>3
  DEF InterruptOver, InterruptFails, Take, SendTurn, Started, StartFails, Settled, InterruptEnds,
      AttachEnds, turnVars, PcTyped
<1>4. CASE Close \/ Rebuild \/ Rebuilt \/ FailTurn \/ WarmedUp \/ SendControl \/ Controlled
  BY <1>4
  DEF Close, Rebuild, Rebuilt, FailTurn, WarmedUp, SendControl, Controlled, End, turnVars, PcTyped
<1>5. CASE \E s \in Prompts : Submit(s)
  BY <1>5
  DEF Submit, turnVars, PcTyped
<1>6. CASE \E w \in {"attach", "warm"} : Launch(w) \/ LaunchFails(w)
  BY <1>6
  DEF Launch, LaunchFails, AttachEnds, turnVars, PcTyped
<1>7. CASE Warmup \/ WarmTimeout \/ Control \/ RolloutMissed \/ Shutdown \/ ItemsDone
  BY <1>7
  DEF Warmup, WarmTimeout, Control, RolloutMissed, Shutdown, ItemsDone, ShutDown, LoseProcess,
      turnVars, PcTyped
<1>8. CASE \E source \in {"user", "system"} : Stop(source)
  BY <1>8
  DEF Stop, turnVars, PcTyped
<1>9. CASE \E p \in Procs : Speak(p) \/ Finish(p) \/ GoalTurn(p) \/ Die(p) \/ Closed(p)
  BY <1>9
  DEF Speak, Finish, GoalTurn, Die, Closed, turnVars, PcTyped
<1>10. CASE UNCHANGED vars
  BY <1>10
  DEF vars, turnVars, PcTyped
<1>11. QED
  BY <1>1, <1>2, <1>3, <1>4, <1>5, <1>6, <1>7, <1>8, <1>9, <1>10
  DEF Next, ReadStep, Continuation, Event

(* in the calls, *)
LEMMA CallsStep ==
  ASSUME Typed, [Next]_vars
  PROVE  CallsTyped'
<1> USE DEF Typed
<1>1. CASE \E p \in Procs : Ignore(p) \/ Answered(p) \/ Output(p) \/ Ended(p)
  BY <1>1
  DEF Ignore, Answered, Output, Ended, Read, callVars, CallsTyped
<1>2. CASE \/ Initialized \/ SendThread \/ ThreadReady \/ ThreadGone \/ AttachFails
           \/ FoundOrphan \/ InterruptTaken \/ Retarget
  BY <1>2
  DEF Initialized, SendThread, ThreadReady, ThreadGone, AttachFails, FoundOrphan, InterruptTaken,
      Retarget, AttachEnds, callVars, CallsTyped
<1>3. CASE \/ InterruptOver \/ InterruptFails \/ Take \/ SendTurn \/ Started \/ StartFails
           \/ Settled
  BY <1>3
  DEF InterruptOver, InterruptFails, Take, SendTurn, Started, StartFails, Settled, InterruptEnds,
      AttachEnds, EnsureAttached, callVars, CallsTyped
<1>4. CASE Close \/ Rebuild \/ Rebuilt \/ FailTurn \/ WarmedUp \/ SendControl \/ Controlled
  BY <1>4
  DEF Close, Rebuild, Rebuilt, FailTurn, WarmedUp, SendControl, Controlled, callVars, CallsTyped
<1>5. CASE \E s \in Prompts : Submit(s)
  BY <1>5
  DEF Submit, callVars, CallsTyped
<1>6. ASSUME NEW w \in {"attach", "warm"}, Launch(w) PROVE CallsTyped'
  BY <1>6
  DEF Launch, callVars, CallsTyped
<1>7. ASSUME NEW w \in {"attach", "warm"}, LaunchFails(w) PROVE CallsTyped'
  BY <1>7
  DEF LaunchFails, AttachEnds, callVars, CallsTyped
<1>8. CASE Warmup \/ WarmTimeout \/ Control \/ RolloutMissed \/ Shutdown \/ ItemsDone
  BY <1>8
  DEF Warmup, WarmTimeout, Control, RolloutMissed, Shutdown, ItemsDone, ShutDown, LoseProcess,
      EnsureAttached, callVars, CallsTyped
<1>9. CASE \E source \in {"user", "system"} : Stop(source)
  BY <1>9
  DEF Stop, callVars, CallsTyped
<1>10. CASE \E p \in Procs : Speak(p) \/ Finish(p) \/ GoalTurn(p) \/ Die(p) \/ Closed(p)
  BY <1>10
  DEF Speak, Finish, GoalTurn, Die, Closed, callVars, CallsTyped
<1>11. CASE UNCHANGED vars
  BY <1>11
  DEF vars, callVars, CallsTyped
<1>12. QED
  BY <1>1, <1>2, <1>3, <1>4, <1>5, <1>6, <1>7, <1>8, <1>9, <1>10, <1>11
  DEF Next, ReadStep, Continuation, Event

(* of the queue, *)
LEMMA QueueStep ==
  ASSUME Typed, [Next]_vars
  PROVE  QueueTyped'
<1> USE DEF Typed
<1>1. CASE \E p \in Procs : Ignore(p) \/ Answered(p) \/ Output(p) \/ Ended(p)
  BY <1>1
  DEF Ignore, Answered, Output, Ended, Read, turnVars, QueueTyped
<1>2. CASE \/ Initialized \/ SendThread \/ ThreadReady \/ ThreadGone \/ AttachFails
           \/ FoundOrphan \/ InterruptTaken \/ Retarget
  BY <1>2
  DEF Initialized, SendThread, ThreadReady, ThreadGone, AttachFails, FoundOrphan, InterruptTaken,
      Retarget, turnVars, QueueTyped
<1>3. CASE InterruptOver \/ InterruptFails \/ SendTurn \/ Started \/ StartFails \/ Settled
  BY <1>3
  DEF InterruptOver, InterruptFails, SendTurn, Started, StartFails, Settled, InterruptEnds,
      turnVars, QueueTyped
<1>4. CASE Take
  <2>1. queue \in Seq(Prompts) /\ queue # <<>> /\ cur' = Head(queue) /\ queue' = Tail(queue)
    BY <1>4 DEF Take, QueueTyped
  <2>2. Head(queue) \in Prompts /\ Tail(queue) \in Seq(Prompts)
    BY <2>1
  <2>3. QED
    BY <2>1, <2>2, Names DEF QueueTyped, Prompts
<1>5. CASE Close \/ Rebuild \/ Rebuilt \/ FailTurn \/ WarmedUp \/ SendControl \/ Controlled
  BY <1>5
  DEF Close, Rebuild, Rebuilt, FailTurn, WarmedUp, SendControl, Controlled, turnVars, QueueTyped
<1>6. ASSUME NEW s \in Prompts, Submit(s) PROVE QueueTyped'
  <2>1. queue \in Seq(Prompts) /\ queue' = Append(queue, s) /\ UNCHANGED cur
    BY <1>6 DEF Submit, QueueTyped, turnVars
  <2>2. QED
    BY <2>1 DEF QueueTyped
<1>7. CASE \E w \in {"attach", "warm"} : Launch(w) \/ LaunchFails(w)
  BY <1>7
  DEF Launch, LaunchFails, turnVars, QueueTyped
<1>8. CASE Warmup \/ Control \/ RolloutMissed \/ ItemsDone
  BY <1>8
  DEF Warmup, Control, RolloutMissed, ItemsDone, turnVars, QueueTyped
<1>9. CASE WarmTimeout
  <2>1. queue' = <<>> /\ UNCHANGED cur
    BY <1>9 DEF WarmTimeout, ShutDown
  <2>2. QED
    BY <2>1 DEF QueueTyped
<1>10. CASE Shutdown
  <2>1. queue' = <<>> /\ UNCHANGED cur
    BY <1>10 DEF Shutdown, ShutDown
  <2>2. QED
    BY <2>1 DEF QueueTyped
<1>11. CASE \E source \in {"user", "system"} : Stop(source)
  BY <1>11
  DEF Stop, turnVars, QueueTyped
<1>12. CASE \E p \in Procs : Speak(p) \/ Finish(p) \/ GoalTurn(p) \/ Die(p) \/ Closed(p)
  BY <1>12
  DEF Speak, Finish, GoalTurn, Die, Closed, turnVars, QueueTyped
<1>13. CASE UNCHANGED vars
  BY <1>13
  DEF vars, turnVars, QueueTyped
<1>14. QED
  BY <1>1, <1>2, <1>3, <1>4, <1>5, <1>6, <1>7, <1>8, <1>9, <1>10, <1>11, <1>12, <1>13
  DEF Next, ReadStep, Continuation, Event

(* of the flags, *)
LEMMA MarksStep ==
  ASSUME Typed, [Next]_vars
  PROVE  initialized' \in BOOLEAN /\ attached' \in BOOLEAN /\ held' \in BOOLEAN
<1> USE DEF Typed
<1>1. CASE \E p \in Procs : Ignore(p) \/ Answered(p) \/ Output(p) \/ Ended(p)
  BY <1>1
  DEF Ignore, Answered, Output, Ended, Read, callVars, threadVars, FlagsTyped
<1>2. CASE \/ Initialized \/ SendThread \/ ThreadReady \/ ThreadGone \/ AttachFails
           \/ FoundOrphan \/ InterruptTaken \/ Retarget
  BY <1>2
  DEF Initialized, SendThread, ThreadReady, ThreadGone, AttachFails, FoundOrphan, InterruptTaken,
      Retarget, AttachEnds, callVars, threadVars, FlagsTyped
<1>3. CASE \/ InterruptOver \/ InterruptFails \/ Take \/ SendTurn \/ Started \/ StartFails
           \/ Settled
  BY <1>3
  DEF InterruptOver, InterruptFails, Take, SendTurn, Started, StartFails, Settled, InterruptEnds,
      AttachEnds, callVars, threadVars, FlagsTyped
<1>4. CASE Close \/ Rebuild \/ FailTurn \/ SendControl \/ Controlled
  BY <1>4
  DEF Close, Rebuild, FailTurn, SendControl, Controlled, callVars, threadVars, FlagsTyped
<1>5. CASE Rebuilt
  BY <1>5
  DEF Rebuilt, callVars, threadVars, FlagsTyped
<1>6. CASE WarmedUp
  BY <1>6
  DEF WarmedUp, callVars, threadVars, FlagsTyped
<1>7. CASE \E s \in Prompts : Submit(s)
  BY <1>7
  DEF Submit, callVars, threadVars, FlagsTyped
<1>8. CASE \E w \in {"attach", "warm"} : Launch(w) \/ LaunchFails(w)
  BY <1>8
  DEF Launch, LaunchFails, AttachEnds, callVars, threadVars, FlagsTyped
<1>9. CASE Warmup \/ WarmTimeout \/ Control \/ RolloutMissed \/ Shutdown \/ ItemsDone
  BY <1>9
  DEF Warmup, WarmTimeout, Control, RolloutMissed, Shutdown, ItemsDone, ShutDown, LoseProcess,
      callVars, threadVars, FlagsTyped
<1>10. CASE \E source \in {"user", "system"} : Stop(source)
  BY <1>10
  DEF Stop, callVars, threadVars, FlagsTyped
<1>11. CASE \E p \in Procs : Speak(p) \/ Finish(p) \/ GoalTurn(p) \/ Die(p) \/ Closed(p)
  BY <1>11
  DEF Speak, Finish, GoalTurn, Die, Closed, LoseProcess, callVars, threadVars, FlagsTyped
<1>12. CASE UNCHANGED vars
  BY <1>12
  DEF vars, callVars, threadVars, FlagsTyped
<1>13. QED
  BY <1>1, <1>2, <1>3, <1>4, <1>5, <1>6, <1>7, <1>8, <1>9, <1>10, <1>11, <1>12
  DEF Next, ReadStep, Continuation, Event


LEMMA SignsStep ==
  ASSUME Typed, [Next]_vars
  PROVE  items' \in BOOLEAN /\ overlap' \in BOOLEAN /\ down' \in BOOLEAN
<1> USE DEF Typed
<1>1. CASE \E p \in Procs : Ignore(p) \/ Answered(p) \/ Output(p) \/ Ended(p)
  BY <1>1
  DEF Ignore, Answered, Output, Ended, Read, eventVars, seenVars, FlagsTyped
<1>2. CASE \/ Initialized \/ SendThread \/ ThreadReady \/ ThreadGone \/ AttachFails
           \/ FoundOrphan \/ InterruptTaken \/ Retarget
  BY <1>2
  DEF Initialized, SendThread, ThreadReady, ThreadGone, AttachFails, FoundOrphan, InterruptTaken,
      Retarget, eventVars, seenVars, FlagsTyped
<1>3. CASE InterruptOver \/ InterruptFails \/ SendTurn \/ Started \/ StartFails \/ Settled
  BY <1>3
  DEF InterruptOver, InterruptFails, SendTurn, Started, StartFails, Settled, InterruptEnds,
      eventVars, seenVars, FlagsTyped
<1>4. CASE Take
  BY <1>4
  DEF Take, eventVars, seenVars, FlagsTyped
<1>5. CASE Close \/ Rebuild \/ Rebuilt \/ FailTurn \/ WarmedUp \/ SendControl \/ Controlled
  BY <1>5
  DEF Close, Rebuild, Rebuilt, FailTurn, WarmedUp, SendControl, Controlled, eventVars, seenVars,
      FlagsTyped
<1>6. CASE \E s \in Prompts : Submit(s)
  BY <1>6
  DEF Submit, eventVars, seenVars, FlagsTyped
<1>7. CASE \E w \in {"attach", "warm"} : Launch(w) \/ LaunchFails(w)
  BY <1>7
  DEF Launch, LaunchFails, eventVars, seenVars, FlagsTyped
<1>8. CASE RolloutMissed \/ ItemsDone
  BY <1>8
  DEF RolloutMissed, ItemsDone, eventVars, seenVars, FlagsTyped
<1>9. CASE Warmup
  BY <1>9
  DEF Warmup, eventVars, seenVars, FlagsTyped
<1>10. CASE WarmTimeout
  BY <1>10
  DEF WarmTimeout, ShutDown, LoseProcess, eventVars, seenVars, FlagsTyped
<1>11. CASE Control
  BY <1>11
  DEF Control, eventVars, seenVars, FlagsTyped
<1>12. CASE Shutdown
  BY <1>12
  DEF Shutdown, ShutDown, LoseProcess, eventVars, seenVars, FlagsTyped
<1>13. CASE \E source \in {"user", "system"} : Stop(source)
  BY <1>13
  DEF Stop, eventVars, seenVars, FlagsTyped
<1>14. CASE \E p \in Procs : Speak(p) \/ Finish(p) \/ GoalTurn(p) \/ Die(p) \/ Closed(p)
  BY <1>14
  DEF Speak, Finish, GoalTurn, Die, Closed, LoseProcess, eventVars, seenVars, FlagsTyped
<1>15. CASE UNCHANGED vars
  BY <1>15
  DEF vars, eventVars, seenVars, FlagsTyped
<1>16. QED
  BY <1>1, <1>2, <1>3, <1>4, <1>5, <1>6, <1>7, <1>8, <1>9, <1>10, <1>11, <1>12, <1>13, <1>14,
     <1>15
  DEF Next, ReadStep, Continuation, Event


LEMMA RacedStep ==
  ASSUME Typed, [Next]_vars
  PROVE  raced' \in BOOLEAN
<1> USE DEF Typed
<1>1. CASE \E p \in Procs : Ignore(p) \/ Answered(p) \/ Output(p) \/ Ended(p)
  BY <1>1
  DEF Ignore, Answered, Output, Ended, Read, seenVars, FlagsTyped
<1>2. CASE Initialized \/ ThreadReady \/ ThreadGone \/ AttachFails \/ InterruptTaken
  BY <1>2
  DEF Initialized, ThreadReady, ThreadGone, AttachFails, InterruptTaken, seenVars, FlagsTyped
<1>3. CASE SendThread
  BY <1>3, StartThreadSays, ResumeSays
  DEF SendThread, seenVars, FlagsTyped
<1>4. CASE FoundOrphan
  BY <1>4
  DEF FoundOrphan, Interrupt, AskInterrupt, seenVars, FlagsTyped
<1>5. CASE Retarget
  BY <1>5
  DEF Retarget, AskInterrupt, seenVars, FlagsTyped
<1>6. CASE InterruptOver \/ InterruptFails \/ Take \/ Started \/ StartFails \/ Settled
  BY <1>6
  DEF InterruptOver, InterruptFails, Take, Started, StartFails, Settled, InterruptEnds, seenVars,
      FlagsTyped
<1>7. CASE SendTurn
  BY <1>7, Names DEF SendTurn, StartTurn, Unserved, Refuse, Upset, codexVars, FlagsTyped
<1>8. CASE Close \/ Rebuilt \/ FailTurn \/ WarmedUp \/ SendControl \/ Controlled
  BY <1>8
  DEF Close, Rebuilt, FailTurn, WarmedUp, SendControl, Controlled, seenVars, FlagsTyped
<1>9. CASE Rebuild
  BY <1>9, StartThreadSays
  DEF Rebuild, seenVars, FlagsTyped
<1>10. CASE \E s \in Prompts : Submit(s)
  BY <1>10
  DEF Submit, seenVars, FlagsTyped
<1>11. CASE \E w \in {"attach", "warm"} : Launch(w) \/ LaunchFails(w)
  BY <1>11
  DEF Launch, LaunchFails, seenVars, FlagsTyped
<1>12. CASE Warmup \/ WarmTimeout \/ Control \/ Shutdown \/ ItemsDone
  BY <1>12
  DEF Warmup, WarmTimeout, Control, Shutdown, ItemsDone, ShutDown, LoseProcess, seenVars,
      FlagsTyped
<1>13. CASE RolloutMissed
  BY <1>13
  DEF RolloutMissed, Interrupt, AskInterrupt, seenVars, FlagsTyped
<1>14. ASSUME NEW source \in {"user", "system"}, Stop(source) PROVE raced' \in BOOLEAN
  BY <1>14
  DEF Stop, Interrupt, AskInterrupt, seenVars, FlagsTyped
<1>15. CASE \E p \in Procs : Speak(p) \/ Finish(p) \/ GoalTurn(p) \/ Die(p) \/ Closed(p)
  BY <1>15
  DEF Speak, Finish, GoalTurn, Die, Closed, seenVars, FlagsTyped
<1>16. CASE UNCHANGED vars
  BY <1>16
  DEF vars, seenVars, FlagsTyped
<1>17. QED
  BY <1>1, <1>2, <1>3, <1>4, <1>5, <1>6, <1>7, <1>8, <1>9, <1>10, <1>11, <1>12, <1>13, <1>14,
     <1>15, <1>16
  DEF Next, ReadStep, Continuation, Event


LEMMA UpsetsStep ==
  ASSUME Typed, [Next]_vars
  PROVE  upsets' \in 0..MaxUpsets
<1> USE DEF Typed
<1>1. CASE \E p \in Procs : Ignore(p) \/ Answered(p) \/ Output(p) \/ Ended(p)
  BY <1>1
  DEF Ignore, Answered, Output, Ended, Read, FlagsTyped
<1>2. CASE \/ Initialized \/ ThreadReady \/ ThreadGone \/ AttachFails \/ FoundOrphan
           \/ InterruptTaken \/ Retarget
  BY <1>2
  DEF Initialized, ThreadReady, ThreadGone, AttachFails, FoundOrphan, InterruptTaken, Retarget,
      FlagsTyped
<1>3. CASE SendThread
  BY <1>3, StartThreadSays, ResumeSays
  DEF SendThread, FlagsTyped
<1>4. CASE InterruptOver \/ InterruptFails \/ Take \/ Started \/ StartFails \/ Settled
  BY <1>4
  DEF InterruptOver, InterruptFails, Take, Started, StartFails, Settled, InterruptEnds, FlagsTyped
<1>5. CASE SendTurn
  BY <1>5, Names DEF SendTurn, StartTurn, Unserved, Refuse, Upset, codexVars, FlagsTyped
<1>6. CASE Close \/ Rebuilt \/ FailTurn \/ WarmedUp \/ SendControl \/ Controlled
  BY <1>6
  DEF Close, Rebuilt, FailTurn, WarmedUp, SendControl, Controlled, FlagsTyped
<1>7. CASE Rebuild
  BY <1>7, StartThreadSays
  DEF Rebuild, FlagsTyped
<1>8. CASE \E s \in Prompts : Submit(s)
  BY <1>8
  DEF Submit, FlagsTyped
<1>9. CASE \E w \in {"attach", "warm"} : Launch(w)
  BY <1>9
  DEF Launch, FlagsTyped
<1>10. ASSUME NEW w \in {"attach", "warm"}, LaunchFails(w) PROVE upsets' \in 0..MaxUpsets
  BY <1>10, Names
  DEF LaunchFails, Upset, FlagsTyped
<1>11. CASE ItemsDone
  BY <1>11
  DEF ItemsDone, FlagsTyped
<1>12. CASE Warmup
  BY <1>12, Names
  DEF Warmup, Upset, FlagsTyped
<1>13. CASE WarmTimeout
  BY <1>13, Names
  DEF WarmTimeout, ShutDown, LoseProcess, Upset, FlagsTyped
<1>14. CASE Control
  BY <1>14, Names
  DEF Control, Upset, FlagsTyped
<1>15. CASE RolloutMissed
  BY <1>15, Names
  DEF RolloutMissed, Upset, FlagsTyped
<1>16. CASE Shutdown
  BY <1>16, Names
  DEF Shutdown, ShutDown, LoseProcess, Upset, FlagsTyped
<1>17. ASSUME NEW source \in {"user", "system"}, Stop(source) PROVE upsets' \in 0..MaxUpsets
  BY <1>17, Names
  DEF Stop, Upset, FlagsTyped
<1>18. CASE \E p \in Procs : Speak(p) \/ Finish(p) \/ Closed(p)
  BY <1>18
  DEF Speak, Finish, Closed, FlagsTyped
<1>19. ASSUME NEW p \in Procs, GoalTurn(p) PROVE upsets' \in 0..MaxUpsets
  BY <1>19, Names
  DEF GoalTurn, Upset, FlagsTyped
<1>20. ASSUME NEW p \in Procs, Die(p) PROVE upsets' \in 0..MaxUpsets
  BY <1>20, Names
  DEF Die, Upset, FlagsTyped
<1>21. CASE UNCHANGED vars
  BY <1>21
  DEF vars, FlagsTyped
<1>22. QED
  BY <1>1, <1>2, <1>3, <1>4, <1>5, <1>6, <1>7, <1>8, <1>9, <1>10, <1>11, <1>12, <1>13, <1>14,
     <1>15, <1>16, <1>17, <1>18, <1>19, <1>20, <1>21
  DEF Next, ReadStep, Continuation, Event

(* of the names, *)
LEMMA NamesStep ==
  ASSUME Typed, Threaded, [Next]_vars
  PROVE  NamesTyped'
<1> USE DEF Typed
<1>1. CASE \E p \in Procs : Ignore(p) \/ Answered(p) \/ Output(p) \/ Ended(p)
  BY <1>1
  DEF Ignore, Answered, Output, Ended, Read, threadVars, codexVars, NamesTyped
<1>2. CASE Initialized \/ ThreadGone \/ AttachFails \/ InterruptTaken
  BY <1>2
  DEF Initialized, ThreadGone, AttachFails, InterruptTaken, threadVars, codexVars, NamesTyped
<1>3. CASE SendThread
  BY <1>3, StartThreadSays, ResumeSays
  DEF SendThread, threadVars, codexVars, NamesTyped
<1>4. CASE ThreadReady
  <2>1. attach = "start" => answer["attach"].id \in 1..threads
    BY <1>4 DEF ThreadReady, Got, Threaded, Expects, New
  <2>2. QED
    BY <1>4, <2>1 DEF ThreadReady, codexVars, NamesTyped
<1>5. CASE FoundOrphan
  BY <1>5
  DEF FoundOrphan, Interrupt, AskInterrupt, threadVars, codexVars, NamesTyped
<1>6. CASE Retarget
  BY <1>6
  DEF Retarget, AskInterrupt, threadVars, codexVars, NamesTyped
<1>7. CASE InterruptOver \/ InterruptFails \/ Take \/ Started \/ StartFails \/ Settled
  BY <1>7
  DEF InterruptOver, InterruptFails, Take, Started, StartFails, Settled, InterruptEnds,
      threadVars, codexVars, NamesTyped
<1>8. CASE SendTurn
  BY <1>8
  DEF SendTurn, StartTurn, Unserved, Refuse, threadVars, codexVars, NamesTyped
<1>9. CASE Close \/ FailTurn \/ WarmedUp \/ SendControl \/ Controlled
  BY <1>9
  DEF Close, FailTurn, WarmedUp, SendControl, Controlled, threadVars, codexVars, NamesTyped
<1>10. CASE Rebuild
  BY <1>10, StartThreadSays
  DEF Rebuild, threadVars, codexVars, NamesTyped
<1>11. CASE Rebuilt
  <2>1. Got("turn", "ok") => answer["turn"].id \in 1..threads
    BY <1>11 DEF Rebuilt, Got, Threaded, Expects, New
  <2>2. QED
    BY <1>11, <2>1 DEF Rebuilt, codexVars, NamesTyped
<1>12. CASE \E s \in Prompts : Submit(s)
  BY <1>12
  DEF Submit, threadVars, codexVars, NamesTyped
<1>13. CASE \E w \in {"attach", "warm"} : LaunchFails(w)
  BY <1>13
  DEF LaunchFails, threadVars, codexVars, NamesTyped
<1>14. ASSUME NEW w \in {"attach", "warm"}, Launch(w) PROVE NamesTyped'
  BY <1>14
  DEF Launch, threadVars, codexVars, NamesTyped
<1>15. CASE Warmup \/ WarmTimeout \/ Control \/ Shutdown \/ ItemsDone
  BY <1>15
  DEF Warmup, WarmTimeout, Control, Shutdown, ItemsDone, ShutDown, LoseProcess, threadVars,
      codexVars, NamesTyped
<1>16. CASE RolloutMissed
  BY <1>16
  DEF RolloutMissed, Interrupt, AskInterrupt, threadVars, codexVars, NamesTyped
<1>17. ASSUME NEW source \in {"user", "system"}, Stop(source) PROVE NamesTyped'
  BY <1>17
  DEF Stop, Interrupt, AskInterrupt, threadVars, codexVars, NamesTyped
<1>18. CASE \E p \in Procs : Speak(p) \/ Finish(p) \/ GoalTurn(p) \/ Die(p) \/ Closed(p)
  BY <1>18
  DEF Speak, Finish, GoalTurn, Die, Closed, LoseProcess, threadVars, codexVars, NamesTyped
<1>19. CASE UNCHANGED vars
  BY <1>19
  DEF vars, threadVars, codexVars, NamesTyped
<1>20. QED
  BY <1>1, <1>2, <1>3, <1>4, <1>5, <1>6, <1>7, <1>8, <1>9, <1>10, <1>11, <1>12, <1>13, <1>14,
     <1>15, <1>16, <1>17, <1>18, <1>19
  DEF Next, ReadStep, Continuation, Event

(* of the turn that runs, *)
LEMMA ActiveStep ==
  ASSUME Typed, Numbered, Turning, Lined, [Next]_vars
  PROVE  active' \in Turns \cup {None}
<1> USE DEF Typed
<1>1. CASE \E p \in Procs : Ignore(p) \/ Answered(p) \/ Ended(p)
  BY <1>1
  DEF Ignore, Answered, Ended, Read, eventVars, EventsTyped
<1>2. ASSUME NEW p \in Procs, Output(p) PROVE active' \in Turns \cup {None}
  <2>1. First(p) \in Message /\ Meant(First(p)) /\ First(p).is = "output"
    BY <1>2, LineRead DEF Output
  <2>2. First(p).id \in Turns
    BY <2>1 DEF Meant
  <2>3. active' = First(p).id \/ active' = active
    BY <1>2 DEF Output
  <2>4. QED
    BY <2>2, <2>3 DEF EventsTyped
<1>3. CASE \/ Initialized \/ SendThread \/ ThreadReady \/ ThreadGone \/ AttachFails
           \/ FoundOrphan \/ InterruptTaken
  BY <1>3
  DEF Initialized, SendThread, ThreadReady, ThreadGone, AttachFails, FoundOrphan, InterruptTaken,
      eventVars, EventsTyped
<1>4. CASE Retarget
  <2>1. answer["interrupt"].id \in Turns
    BY <1>4 DEF Retarget, Mismatched, Got, AnswersTyped
  <2>2. active' = answer["interrupt"].id \/ active' = active
    BY <1>4 DEF Retarget
  <2>3. QED
    BY <2>1, <2>2 DEF EventsTyped
<1>5. CASE InterruptOver \/ InterruptFails \/ Take \/ SendTurn \/ StartFails \/ Settled
  BY <1>5
  DEF InterruptOver, InterruptFails, Take, SendTurn, StartFails, Settled, InterruptEnds,
      eventVars, EventsTyped
<1>6. CASE Started
  <2>1. active' = cur /\ cur \in Prompts
    BY <1>6 DEF Started, Got, Numbered, Lined
  <2>2. QED
    BY <2>1, Names
<1>7. CASE Close \/ Rebuild \/ Rebuilt \/ FailTurn \/ WarmedUp \/ SendControl \/ Controlled
  BY <1>7
  DEF Close, Rebuild, Rebuilt, FailTurn, WarmedUp, SendControl, Controlled, End, eventVars,
      EventsTyped
<1>8. CASE \E s \in Prompts : Submit(s)
  BY <1>8
  DEF Submit, eventVars, EventsTyped
<1>9. CASE \E w \in {"attach", "warm"} : Launch(w) \/ LaunchFails(w)
  BY <1>9
  DEF Launch, LaunchFails, eventVars, EventsTyped
<1>10. CASE Warmup \/ WarmTimeout \/ Control \/ RolloutMissed \/ Shutdown \/ ItemsDone
  BY <1>10
  DEF Warmup, WarmTimeout, Control, RolloutMissed, Shutdown, ItemsDone, ShutDown, LoseProcess,
      eventVars, EventsTyped
<1>11. CASE \E source \in {"user", "system"} : Stop(source)
  BY <1>11
  DEF Stop, eventVars, EventsTyped
<1>12. CASE \E p \in Procs : Speak(p) \/ Finish(p) \/ GoalTurn(p) \/ Die(p) \/ Closed(p)
  BY <1>12
  DEF Speak, Finish, GoalTurn, Die, Closed, LoseProcess, eventVars, EventsTyped
<1>13. CASE UNCHANGED vars
  BY <1>13
  DEF vars, eventVars, EventsTyped
<1>14. QED
  BY <1>1, <1>2, <1>3, <1>4, <1>5, <1>6, <1>7, <1>8, <1>9, <1>10, <1>11, <1>12, <1>13
  DEF Next, ReadStep, Continuation, Event


LEMMA CompleterStep ==
  ASSUME Typed, Lined, [Next]_vars
  PROVE  completer' \in Outcome
<1> USE DEF Typed
<1>1. CASE \E p \in Procs : Ignore(p) \/ Answered(p) \/ Output(p)
  BY <1>1
  DEF Ignore, Answered, Output, Read, eventVars, EventsTyped
<1>2. ASSUME NEW p \in Procs, Ended(p) PROVE completer' \in Outcome
  <2>1. First(p).id \in Turns /\ First(p).is \in {"completed", "interrupted"}
    BY <1>2, LineRead DEF Ended, Meant
  <2>2. completer' = completer \/ completer' = [is |-> First(p).is, id |-> First(p).id]
    BY <1>2 DEF Ended, TurnEnded, Closes
  <2>3. QED
    BY <2>1, <2>2 DEF EventsTyped, Outcome
<1>3. CASE \/ Initialized \/ SendThread \/ ThreadReady \/ ThreadGone \/ AttachFails
           \/ FoundOrphan \/ InterruptTaken
  BY <1>3
  DEF Initialized, SendThread, ThreadReady, ThreadGone, AttachFails, FoundOrphan, InterruptTaken,
      eventVars, EventsTyped
<1>4. CASE Retarget
  <2>1. answer["interrupt"].id \in Turns
    BY <1>4 DEF Retarget, Mismatched, Got, AnswersTyped
  <2>2. \/ completer' = completer
        \/ \E e \in interrupting.kept : completer' = [is |-> e.how, id |-> answer["interrupt"].id]
    BY <1>4 DEF Retarget, Closes
  <2>3. interrupting.kept \subseteq [id : Turns, how : {"completed", "interrupted"}]
    BY DEF EventsTyped, Pending
  <2>4. QED
    BY <2>1, <2>2, <2>3 DEF EventsTyped, Outcome
<1>5. CASE InterruptOver \/ InterruptFails \/ Take \/ Started \/ StartFails \/ Settled
  BY <1>5
  DEF InterruptOver, InterruptFails, Take, Started, StartFails, Settled, InterruptEnds, eventVars,
      EventsTyped
<1>6. CASE SendTurn
  BY <1>6
  DEF SendTurn, Outcome, eventVars, EventsTyped
<1>7. CASE Rebuild \/ WarmedUp \/ SendControl \/ Controlled
  BY <1>7
  DEF Rebuild, WarmedUp, SendControl, Controlled, eventVars, EventsTyped
<1>8. CASE Close
  BY <1>8
  DEF Close, End, Nothing, Outcome, eventVars, EventsTyped
<1>9. CASE Rebuilt
  BY <1>9
  DEF Rebuilt, End, Nothing, Outcome, eventVars, EventsTyped
<1>10. CASE FailTurn
  BY <1>10
  DEF FailTurn, Nothing, Outcome, eventVars, EventsTyped
<1>11. CASE \E s \in Prompts : Submit(s)
  BY <1>11
  DEF Submit, eventVars, EventsTyped
<1>12. CASE \E w \in {"attach", "warm"} : Launch(w) \/ LaunchFails(w)
  BY <1>12
  DEF Launch, LaunchFails, eventVars, EventsTyped
<1>13. CASE Warmup \/ Control \/ RolloutMissed \/ ItemsDone
  BY <1>13
  DEF Warmup, Control, RolloutMissed, ItemsDone, eventVars, EventsTyped
<1>14. CASE WarmTimeout
  BY <1>14
  DEF WarmTimeout, ShutDown, LoseProcess, Failure, Outcome, eventVars, EventsTyped
<1>15. CASE Shutdown
  BY <1>15
  DEF Shutdown, ShutDown, LoseProcess, Failure, Outcome, eventVars, EventsTyped
<1>16. CASE \E source \in {"user", "system"} : Stop(source)
  BY <1>16
  DEF Stop, eventVars, EventsTyped
<1>17. CASE \E p \in Procs : Speak(p) \/ Finish(p) \/ GoalTurn(p) \/ Die(p)
  BY <1>17
  DEF Speak, Finish, GoalTurn, Die, eventVars, EventsTyped
<1>18. ASSUME NEW p \in Procs, Closed(p) PROVE completer' \in Outcome
  BY <1>18
  DEF Closed, LoseProcess, Failure, Outcome, eventVars, EventsTyped
<1>19. CASE UNCHANGED vars
  BY <1>19
  DEF vars, eventVars, EventsTyped
<1>20. QED
  BY <1>1, <1>2, <1>3, <1>4, <1>5, <1>6, <1>7, <1>8, <1>9, <1>10, <1>11, <1>12, <1>13, <1>14,
     <1>15, <1>16, <1>17, <1>18, <1>19
  DEF Next, ReadStep, Continuation, Event


LEMMA PendingStep ==
  ASSUME Typed, [Next]_vars
  PROVE  interrupting' \in Pending
<1> USE DEF Typed
<1>1. CASE \E p \in Procs : Ignore(p) \/ Answered(p) \/ Output(p)
  BY <1>1
  DEF Ignore, Answered, Output, Read, eventVars, EventsTyped
<1>2. ASSUME NEW p \in Procs, Ended(p) PROVE interrupting' \in Pending
  <2>1. First(p).id \in Turns /\ First(p).is \in {"completed", "interrupted"}
    BY <1>2, LineRead DEF Ended, Meant
  <2>2. PICK kept \in SUBSET [id : Turns, how : {"completed", "interrupted"}], over \in BOOLEAN :
          interrupting' = [interrupting EXCEPT !.over = over, !.kept = kept]
    <3>1. interrupting.kept \in SUBSET [id : Turns, how : {"completed", "interrupted"}] /\ interrupting.over \in BOOLEAN
      BY DEF EventsTyped, Pending
    <3>2. interrupting.kept \cup {[id |-> First(p).id, how |-> First(p).is]}
            \in SUBSET [id : Turns, how : {"completed", "interrupted"}]
      BY <2>1, <3>1
    <3>3. (interrupting.target = First(p).id) \in BOOLEAN
      OBVIOUS
    <3>4. CASE interrupting.target \notin {None, First(p).id}
      <4>1. interrupting' = [interrupting EXCEPT !.kept = @ \cup {[id |-> First(p).id, how |-> First(p).is]}]
        BY <1>2, <3>4 DEF Ended, TurnEnded
      <4>2. interrupting' = [interrupting EXCEPT !.over = interrupting.over,
                              !.kept = interrupting.kept \cup {[id |-> First(p).id, how |-> First(p).is]}]
        BY <4>1 DEF EventsTyped, Pending
      <4>3. QED
        BY <3>1, <3>2, <4>2
    <3>5. CASE interrupting.target \in {None, First(p).id}
      <4>1. interrupting' = [interrupting EXCEPT !.over = interrupting.target = First(p).id]
        BY <1>2, <3>5 DEF Ended, TurnEnded
      <4>2. interrupting' = [interrupting EXCEPT !.over = (interrupting.target = First(p).id),
                                                  !.kept = interrupting.kept]
        BY <4>1 DEF EventsTyped, Pending
      <4>3. QED
        BY <3>1, <3>3, <4>2
    <3>6. QED
      BY <3>4, <3>5
  <2>3. QED
    BY <2>2 DEF EventsTyped, Pending
<1>3. CASE \/ Initialized \/ SendThread \/ ThreadReady \/ ThreadGone \/ AttachFails
           \/ InterruptTaken
  BY <1>3
  DEF Initialized, SendThread, ThreadReady, ThreadGone, AttachFails, InterruptTaken, eventVars,
      EventsTyped
<1>4. CASE FoundOrphan
  <2>1. \/ interrupting' = interrupting
        \/ interrupting' = [NoInterrupt EXCEPT !.target = answer["attach"].id, !.mode = "orphan"]
    BY <1>4 DEF FoundOrphan, Interrupt
  <2>2. answer["attach"].id \in Turns
    BY <1>4 DEF FoundOrphan, Got, AnswersTyped, Turns
  <2>3. QED
    BY <2>1, <2>2 DEF EventsTyped, NoInterrupt, Pending
<1>5. CASE Retarget
  <2>1. answer["interrupt"].id \in Turns
    BY <1>5 DEF Retarget, Mismatched, Got, AnswersTyped
  <2>2. PICK kept \in SUBSET interrupting.kept, over \in BOOLEAN :
          interrupting' = [interrupting EXCEPT !.target = answer["interrupt"].id, !.again = TRUE,
                                               !.kept = kept, !.over = over]
    <3> DEFINE early == {e \in interrupting.kept : e.id = answer["interrupt"].id}
               left  == interrupting.kept \ early
    <3>1. \/ interrupting' = [[interrupting EXCEPT !.target = answer["interrupt"].id, !.again = TRUE,
                                                   !.kept = @ \ early] EXCEPT !.over = TRUE]
          \/ interrupting' = [interrupting EXCEPT !.target = answer["interrupt"].id, !.again = TRUE,
                                                   !.kept = @ \ early]
      BY <1>5 DEF Retarget
    <3>2. left \in SUBSET interrupting.kept /\ interrupting.over \in BOOLEAN
      BY DEF EventsTyped, Pending
    <3>3. \/ interrupting' = [interrupting EXCEPT !.target = answer["interrupt"].id, !.again = TRUE,
                                                   !.kept = left, !.over = TRUE]
          \/ interrupting' = [interrupting EXCEPT !.target = answer["interrupt"].id, !.again = TRUE,
                                                   !.kept = left, !.over = interrupting.over]
      <4> HIDE DEF early
      <4>1. QED
        BY <3>1 DEF EventsTyped, Pending
    <3> HIDE DEF left
    <3>4. QED
      BY <3>2, <3>3
  <2>3. kept \in SUBSET [id : Turns, how : {"completed", "interrupted"}]
    BY <2>2 DEF EventsTyped, Pending
  <2>4. QED
    BY <2>1, <2>2, <2>3 DEF EventsTyped, Pending
<1>6. CASE Take \/ SendTurn \/ Started \/ StartFails \/ Settled
  BY <1>6
  DEF Take, SendTurn, Started, StartFails, Settled, eventVars, EventsTyped
<1>7. CASE InterruptOver
  BY <1>7
  DEF InterruptOver, InterruptEnds, NoInterrupt, Pending, eventVars, EventsTyped
<1>8. CASE InterruptFails
  BY <1>8
  DEF InterruptFails, InterruptEnds, NoInterrupt, Pending, eventVars, EventsTyped
<1>9. CASE Close \/ Rebuild \/ Rebuilt \/ FailTurn \/ WarmedUp \/ SendControl \/ Controlled
  BY <1>9
  DEF Close, Rebuild, Rebuilt, FailTurn, WarmedUp, SendControl, Controlled, eventVars, EventsTyped
<1>10. CASE \E s \in Prompts : Submit(s)
  BY <1>10
  DEF Submit, eventVars, EventsTyped
<1>11. CASE \E w \in {"attach", "warm"} : Launch(w) \/ LaunchFails(w)
  BY <1>11
  DEF Launch, LaunchFails, eventVars, EventsTyped
<1>12. CASE Warmup \/ Control \/ ItemsDone
  BY <1>12
  DEF Warmup, Control, ItemsDone, eventVars, EventsTyped
<1>13. CASE WarmTimeout
  BY <1>13
  DEF WarmTimeout, ShutDown, LoseProcess, NoInterrupt, Pending, eventVars, EventsTyped
<1>14. CASE RolloutMissed
  <2>1. \/ interrupting' = interrupting
        \/ interrupting' = [NoInterrupt EXCEPT !.target = active, !.mode = "public"]
    BY <1>14 DEF RolloutMissed, Interrupt
  <2>2. active \in Turns
    BY <1>14 DEF RolloutMissed, EventsTyped
  <2>3. QED
    BY <2>1, <2>2 DEF EventsTyped, NoInterrupt, Pending
<1>15. CASE Shutdown
  BY <1>15
  DEF Shutdown, ShutDown, LoseProcess, NoInterrupt, Pending, eventVars, EventsTyped
<1>16. ASSUME NEW source \in {"user", "system"}, Stop(source) PROVE interrupting' \in Pending
  <2>1. \/ interrupting' = interrupting
        \/ interrupting' = [NoInterrupt EXCEPT !.target = active, !.mode = "public"]
    BY <1>16 DEF Stop, Interrupt
  <2>2. active \in Turns
    BY <1>16 DEF Stop, EventsTyped
  <2>3. QED
    BY <2>1, <2>2 DEF EventsTyped, NoInterrupt, Pending
<1>17. CASE \E p \in Procs : Speak(p) \/ Finish(p) \/ GoalTurn(p) \/ Die(p)
  BY <1>17
  DEF Speak, Finish, GoalTurn, Die, eventVars, EventsTyped
<1>18. ASSUME NEW p \in Procs, Closed(p) PROVE interrupting' \in Pending
  <2>1. interrupting' = NoInterrupt \/ interrupting' = interrupting
    BY <1>18 DEF Closed, LoseProcess, eventVars
  <2>2. NoInterrupt \in Pending
    BY DEF NoInterrupt, Pending
  <2>3. QED
    BY <2>1, <2>2 DEF EventsTyped
<1>19. CASE UNCHANGED vars
  BY <1>19
  DEF vars, eventVars, EventsTyped
<1>20. QED
  BY <1>1, <1>2, <1>3, <1>4, <1>5, <1>6, <1>7, <1>8, <1>9, <1>10, <1>11, <1>12, <1>13, <1>14,
     <1>15, <1>16, <1>17, <1>18, <1>19
  DEF Next, ReadStep, Continuation, Event


LEMMA ReasonStep ==
  ASSUME Typed, [Next]_vars
  PROVE  reason' \in {"none", "user", "system", "rollout"}
<1> USE DEF Typed
<1>1. CASE \E p \in Procs : Ignore(p) \/ Answered(p) \/ Output(p) \/ Ended(p)
  BY <1>1
  DEF Ignore, Answered, Output, Ended, Read, eventVars, EventsTyped
<1>2. CASE \/ Initialized \/ SendThread \/ ThreadReady \/ ThreadGone \/ AttachFails
           \/ FoundOrphan \/ InterruptTaken \/ Retarget
  BY <1>2
  DEF Initialized, SendThread, ThreadReady, ThreadGone, AttachFails, FoundOrphan, InterruptTaken,
      Retarget, eventVars, EventsTyped
<1>3. CASE \/ InterruptOver \/ InterruptFails \/ Take \/ SendTurn \/ Started \/ StartFails
           \/ Settled
  BY <1>3
  DEF InterruptOver, InterruptFails, Take, SendTurn, Started, StartFails, Settled, InterruptEnds,
      Forget, eventVars, EventsTyped
<1>4. CASE Close \/ Rebuild \/ Rebuilt \/ FailTurn \/ WarmedUp \/ SendControl \/ Controlled
  BY <1>4
  DEF Close, Rebuild, Rebuilt, FailTurn, WarmedUp, SendControl, Controlled, eventVars, EventsTyped
<1>5. CASE \E s \in Prompts : Submit(s)
  BY <1>5
  DEF Submit, eventVars, EventsTyped
<1>6. CASE \E w \in {"attach", "warm"} : Launch(w) \/ LaunchFails(w)
  BY <1>6
  DEF Launch, LaunchFails, eventVars, EventsTyped
<1>7. CASE Warmup \/ WarmTimeout \/ Control \/ RolloutMissed \/ Shutdown \/ ItemsDone
  BY <1>7
  DEF Warmup, WarmTimeout, Control, RolloutMissed, Shutdown, ItemsDone, ShutDown, LoseProcess,
      eventVars, EventsTyped
<1>8. CASE \E source \in {"user", "system"} : Stop(source)
  BY <1>8
  DEF Stop, eventVars, EventsTyped
<1>9. CASE \E p \in Procs : Speak(p) \/ Finish(p) \/ GoalTurn(p) \/ Die(p) \/ Closed(p)
  BY <1>9
  DEF Speak, Finish, GoalTurn, Die, Closed, LoseProcess, eventVars, EventsTyped
<1>10. CASE UNCHANGED vars
  BY <1>10
  DEF vars, eventVars, EventsTyped
<1>11. QED
  BY <1>1, <1>2, <1>3, <1>4, <1>5, <1>6, <1>7, <1>8, <1>9, <1>10
  DEF Next, ReadStep, Continuation, Event

(* An answer that is taken or asked for is typed. *)
LEMMA Replies ==
  ASSUME Typed, NEW w \in Waiters
  PROVE  /\ Taken(w) => AnswersTyped'
         /\ Answering(w) => AnswersTyped'
         /\ UNCHANGED answer => AnswersTyped'
         /\ Nothing \in Reply /\ Failure \in Reply
<1>1. Nothing \in Reply /\ Failure \in Reply /\ [is |-> "sent", id |-> proc] \in Reply
  BY DEF Nothing, Failure, Reply, Ids, Typed, NamesTyped
<1>2. Nothing.is = "none" /\ [is |-> "sent", id |-> proc].is = "sent"
  BY DEF Nothing
<1>3. ASSUME NEW r \in Reply, r.is \in {"none", "sent"}, answer' = [answer EXCEPT ![w] = r]
      PROVE  AnswersTyped'
  BY <1>3 DEF Typed, AnswersTyped, Waiters
<1>4. Taken(w) => AnswersTyped'
  BY <1>1, <1>2, <1>3 DEF Taken
<1>5. Answering(w) => AnswersTyped'
  BY <1>1, <1>2, <1>3 DEF Answering
<1>6. UNCHANGED answer => AnswersTyped'
  BY DEF Typed, AnswersTyped
<1>7. QED
  BY <1>1, <1>4, <1>5, <1>6

(* So are those of an interrupt, which may have another answer dropped. *)
LEMMA InterruptReplies ==
  ASSUME Typed, NEW t \in Turns, NEW answers,
         answers = answer \/ answers = [answer EXCEPT !["attach"] = Nothing],
         answer' = answers \/ AskInterrupt(t, answers)
  PROVE  AnswersTyped'
<1>1. Nothing \in Reply /\ [is |-> "sent", id |-> proc] \in Reply /\ Nothing.is = "none"
      /\ [is |-> "sent", id |-> proc].is = "sent"
  BY DEF Nothing, Reply, Ids, Typed, NamesTyped
<1>2. /\ answers \in [Waiters -> Reply]
      /\ answers["attach"].is = "orphan" => answers["attach"].id = Goal
      /\ answers["interrupt"].is = "mismatch" => answers["interrupt"].id \in Turns
  BY <1>1 DEF Typed, AnswersTyped, Waiters
<1>3. CASE answer' = answers
  BY <1>2, <1>3 DEF AnswersTyped
<1>4. CASE answer' = [answers EXCEPT !["interrupt"] = [is |-> "sent", id |-> proc]]
  BY <1>1, <1>2, <1>4 DEF AnswersTyped, Waiters
<1>5. QED
  BY <1>3, <1>4 DEF AskInterrupt

(* And those of whoever waited for a process that is gone. *)
LEMMA LostReplies ==
  ASSUME Typed, LoseProcess
  PROVE  AnswersTyped'
<1>1. Nothing \in Reply /\ Failure \in Reply /\ Nothing.is = "none" /\ Failure.is = "failed"
  BY DEF Nothing, Failure, Reply, Ids
<1>2. \A w \in Waiters : answer'[w] \in {Nothing, Failure, answer[w]} /\ answer[w] \in Reply
  BY DEF LoseProcess, Failed, Typed, AnswersTyped
<1>3. answer' \in [Waiters -> Reply]
  BY <1>1, <1>2 DEF LoseProcess
<1>4. "attach" \in Waiters /\ "interrupt" \in Waiters
  BY DEF Waiters
<1>5. QED
  BY <1>1, <1>2, <1>3, <1>4 DEF Typed, AnswersTyped

(* Every step keeps the types of the answers, *)
LEMMA AnswersStep ==
  ASSUME Typed, Lined, [Next]_vars
  PROVE  AnswersTyped'
<1> USE DEF Typed
<1>1. CASE \E p \in Procs : Ignore(p) \/ Output(p) \/ Ended(p)
  BY <1>1
  DEF Ignore, Output, Ended, Read, AnswersTyped
<1>2. ASSUME NEW p \in Procs, Answered(p) PROVE AnswersTyped'
  <2>1. First(p) \in Message /\ Meant(First(p)) /\ First(p).to \in Waiters
    BY <1>2, LineRead DEF Answered
  <2>2. /\ [is |-> First(p).is, id |-> First(p).id] \in Reply
        /\ First(p).is = "orphan" => First(p).id = Goal
        /\ First(p).is = "mismatch" => First(p).id \in Turns
    BY <2>1 DEF Meant, Message, Reply, Kinds, Waiters
  <2>3. \/ answer' = answer
        \/ answer' = [answer EXCEPT ![First(p).to] = [is |-> First(p).is, id |-> First(p).id]]
    BY <1>2 DEF Answered
  <2>4. QED
    BY <2>1, <2>2, <2>3 DEF AnswersTyped, Waiters
<1>3. CASE Initialized
  <2>1. Taken("attach")
    BY <1>3 DEF Initialized
  <2>2. QED
    BY <2>1, Replies DEF Waiters
<1>4. CASE SendThread
  <2>1. Answering("attach")
    BY <1>4, StartThreadSays, ResumeSays DEF SendThread, Typed
  <2>2. QED
    BY <2>1, Replies DEF Waiters
<1>5. CASE ThreadReady
  <2>1. Taken("attach")
    BY <1>5 DEF ThreadReady
  <2>2. QED
    BY <2>1, Replies DEF Waiters
<1>6. CASE ThreadGone
  <2>1. Taken("attach")
    BY <1>6 DEF ThreadGone
  <2>2. QED
    BY <2>1, Replies DEF Waiters
<1>7. CASE AttachFails
  <2>1. Taken("attach")
    BY <1>7 DEF AttachFails
  <2>2. QED
    BY <2>1, Replies DEF Waiters
<1>8. CASE FoundOrphan
  <2>1. answer["attach"].id \in Turns
    BY <1>8 DEF FoundOrphan, Got, AnswersTyped, Turns
  <2>2. QED
    BY <1>8, <2>1, InterruptReplies DEF FoundOrphan, Interrupt
<1>9. CASE InterruptTaken
  <2>1. Taken("interrupt")
    BY <1>9 DEF InterruptTaken
  <2>2. QED
    BY <2>1, Replies DEF Waiters
<1>10. CASE Retarget
  <2>1. answer["interrupt"].id \in Turns
    BY <1>10 DEF Retarget, Mismatched, Got, AnswersTyped
  <2>2. Taken("interrupt") \/ AskInterrupt(answer["interrupt"].id, answer)
    BY <1>10 DEF Retarget
  <2>3. QED
    BY <2>1, <2>2, Replies, InterruptReplies DEF Waiters
<1>11. CASE InterruptOver \/ Take \/ Settled
  BY <1>11
  DEF InterruptOver, Take, Settled, InterruptEnds, AnswersTyped
<1>12. CASE InterruptFails
  <2>1. Taken("interrupt")
    BY <1>12 DEF InterruptFails
  <2>2. QED
    BY <2>1, Replies DEF Waiters
<1>13. CASE SendTurn
  <2>1. Answering("turn")
    BY <1>13 DEF SendTurn, StartTurn, Send, Answering
  <2>2. QED
    BY <2>1, Replies DEF Waiters
<1>14. CASE Started
  <2>1. Taken("turn")
    BY <1>14 DEF Started
  <2>2. QED
    BY <2>1, Replies DEF Waiters
<1>15. CASE StartFails
  <2>1. Taken("turn")
    BY <1>15 DEF StartFails
  <2>2. QED
    BY <2>1, Replies DEF Waiters
<1>16. CASE Close \/ FailTurn
  BY <1>16
  DEF Close, FailTurn, AnswersTyped
<1>17. CASE Rebuild
  <2>1. Answering("turn")
    BY <1>17, StartThreadSays DEF Rebuild, Typed
  <2>2. QED
    BY <2>1, Replies DEF Waiters
<1>18. CASE Rebuilt
  <2>1. Taken("turn")
    BY <1>18 DEF Rebuilt
  <2>2. QED
    BY <2>1, Replies DEF Waiters
<1>19. CASE WarmedUp
  <2>1. Taken("warm")
    BY <1>19 DEF WarmedUp
  <2>2. QED
    BY <2>1, Replies DEF Waiters
<1>20. CASE SendControl
  <2>1. Answering("control")
    BY <1>20 DEF SendControl, Send, Answering
  <2>2. QED
    BY <2>1, Replies DEF Waiters
<1>21. CASE Controlled
  <2>1. Taken("control")
    BY <1>21 DEF Controlled
  <2>2. QED
    BY <2>1, Replies DEF Waiters
<1>22. CASE \E s \in Prompts : Submit(s)
  BY <1>22
  DEF Submit, AnswersTyped
<1>23. CASE \E w \in {"attach", "warm"} : LaunchFails(w)
  BY <1>23
  DEF LaunchFails, AnswersTyped
<1>24. ASSUME NEW w \in {"attach", "warm"}, Launch(w) PROVE AnswersTyped'
  <2>1. w \in Waiters /\ proc' \in Procs /\ answer' = [answer EXCEPT ![w] = [is |-> "sent", id |-> proc']]
    BY <1>24, Launched DEF Waiters
  <2>2. [is |-> "sent", id |-> proc'] \in Reply /\ [is |-> "sent", id |-> proc'].is = "sent"
    BY <2>1 DEF Reply
  <2>3. QED
    BY <2>1, <2>2 DEF AnswersTyped, Waiters
<1>25. CASE Warmup \/ Control \/ ItemsDone
  BY <1>25
  DEF Warmup, Control, ItemsDone, AnswersTyped
<1>26. CASE WarmTimeout
  BY <1>26, LostReplies
  DEF WarmTimeout, ShutDown, LoseProcess, AnswersTyped
<1>27. CASE RolloutMissed
  <2>1. active \in Turns
    BY <1>27 DEF RolloutMissed, EventsTyped
  <2>2. QED
    BY <1>27, <2>1, InterruptReplies DEF RolloutMissed, Interrupt
<1>28. CASE Shutdown
  BY <1>28, LostReplies
  DEF Shutdown, ShutDown, LoseProcess, AnswersTyped
<1>29. ASSUME NEW source \in {"user", "system"}, Stop(source) PROVE AnswersTyped'
  <2>1. active \in Turns
    BY <1>29 DEF Stop, EventsTyped
  <2>2. QED
    BY <1>29, <2>1, InterruptReplies DEF Stop, Interrupt
<1>30. CASE \E p \in Procs : Speak(p) \/ Finish(p) \/ GoalTurn(p) \/ Die(p)
  BY <1>30
  DEF Speak, Finish, GoalTurn, Die, AnswersTyped
<1>31. ASSUME NEW p \in Procs, Closed(p) PROVE AnswersTyped'
  <2>1. LoseProcess \/ UNCHANGED answer
    BY <1>31 DEF Closed
  <2>2. QED
    BY <2>1, LostReplies, Replies DEF Waiters
<1>32. CASE UNCHANGED vars
  BY <1>32
  DEF vars, AnswersTyped
<1>33. QED
  BY <1>1, <1>2, <1>3, <1>4, <1>5, <1>6, <1>7, <1>8, <1>9, <1>10, <1>11, <1>12, <1>13, <1>14,
     <1>15, <1>16, <1>17, <1>18, <1>19, <1>20, <1>21, <1>22, <1>23, <1>24, <1>25, <1>26, <1>27,
     <1>28, <1>29, <1>30, <1>31, <1>32
  DEF Next, ReadStep, Continuation, Event

(* of what Codex does, *)
LEMMA OverTyped ==
  ASSUME CodexTyped, NEW p \in Procs, TurnOver(p)
  PROVE  run' \in [Procs -> Turns \cup {None}] /\ waiting' \in [Procs -> Seq(Turns)]
<1>1. CASE waiting[p] = <<>>
  BY <1>1 DEF TurnOver, CodexTyped
<1>2. CASE waiting[p] # <<>>
  <2>1. waiting[p] \in Seq(Turns)
    BY DEF CodexTyped
  <2>2. Head(waiting[p]) \in Turns /\ Tail(waiting[p]) \in Seq(Turns)
    BY <1>2, <2>1
  <2>3. QED
    BY <1>2, <2>2 DEF TurnOver, CodexTyped
<1>3. QED
  BY <1>1, <1>2

LEMMA InterruptMoves ==
  ASSUME Typed, NEW t \in Turns, NEW answers,
         AskInterrupt(t, answers) \/ UNCHANGED <<alive, run, waiting, out, threads, spoken, raced>>
  PROVE  CodexTyped' /\ UNCHANGED <<alive, threads, spoken, raced>>
<1>1. CASE AskInterrupt(t, answers)
  <2>1. UNCHANGED <<alive, threads, spoken, raced>>
    BY <1>1 DEF AskInterrupt
  <2>2. UNCHANGED <<run, waiting>> \/ (proc \in Procs /\ TurnOver(proc))
    BY <1>1, InterruptSays
  <2>3. QED
    BY <2>1, <2>2, OverTyped DEF Typed, CodexTyped
<1>2. QED
  BY <1>1 DEF Typed, CodexTyped

LEMMA CodexStep ==
  ASSUME Typed, Lined, [Next]_vars
  PROVE  CodexTyped'
<1> USE DEF Typed
<1>1. CASE \E p \in Procs : Ignore(p) \/ Answered(p) \/ Output(p) \/ Ended(p)
  BY <1>1
  DEF Ignore, Answered, Output, Ended, Read, codexVars, CodexTyped
<1>2. CASE Initialized \/ ThreadReady \/ ThreadGone \/ AttachFails \/ InterruptTaken
  BY <1>2
  DEF Initialized, ThreadReady, ThreadGone, AttachFails, InterruptTaken, codexVars, CodexTyped
<1>3. CASE SendThread
  <2>1. UNCHANGED <<alive, waiting, spoken>>
    BY <1>3, StartThreadSays, ResumeSays DEF SendThread
  <2>2. UNCHANGED run \/ run' = [run EXCEPT ![proc] = Goal]
    BY <1>3, StartThreadSays, ResumeSays DEF SendThread
  <2>3. QED
    BY <2>1, <2>2, Names DEF CodexTyped
<1>4. CASE FoundOrphan
  <2>1. answer["attach"].id \in Turns
    BY <1>4 DEF FoundOrphan, Got, AnswersTyped, Turns
  <2>2. QED
    BY <1>4, <2>1, InterruptMoves DEF FoundOrphan, Interrupt, CodexTyped
<1>5. CASE Retarget
  <2>1. answer["interrupt"].id \in Turns
    BY <1>5 DEF Retarget, Mismatched, Got, AnswersTyped
  <2>2. QED
    BY <1>5, <2>1, InterruptMoves DEF Retarget, CodexTyped
<1>6. CASE InterruptOver \/ InterruptFails \/ Take \/ Started \/ StartFails \/ Settled
  BY <1>6
  DEF InterruptOver, InterruptFails, Take, Started, StartFails, Settled, InterruptEnds, codexVars,
      CodexTyped
<1>7. CASE SendTurn
  <2>1. cur \in Prompts
    BY <1>7 DEF SendTurn, Lined
  <2>2. StartTurn
    BY <1>7 DEF SendTurn
  <2>3. /\ UNCHANGED <<alive, spoken>>
        /\ \/ UNCHANGED <<run, waiting>>
           \/ run' = [run EXCEPT ![proc] = cur] /\ UNCHANGED waiting
           \/ proc \in Procs /\ UNCHANGED run /\ waiting' = [waiting EXCEPT ![proc] = Append(@, cur)]
    BY <2>1, <2>2, StartTurnSays
  <2>4. cur \in Turns /\ \A w \in Seq(Turns) : Append(w, cur) \in Seq(Turns)
    BY <2>1, Names
  <2>5. waiting' \in [Procs -> Seq(Turns)]
    <3>1. CASE UNCHANGED waiting
      BY <3>1 DEF CodexTyped
    <3>2. ASSUME proc \in Procs, waiting' = [waiting EXCEPT ![proc] = Append(@, cur)]
          PROVE  waiting' \in [Procs -> Seq(Turns)]
      <4>1. waiting[proc] \in Seq(Turns) /\ waiting \in [Procs -> Seq(Turns)]
        BY <3>2 DEF CodexTyped
      <4>2. Append(waiting[proc], cur) \in Seq(Turns)
        BY <4>1, <2>4
      <4>3. waiting' = [waiting EXCEPT ![proc] = Append(waiting[proc], cur)]
        BY <3>2
      <4>4. QED
        BY ONLY <4>1, <4>2, <4>3
    <3>3. QED
      BY <2>3, <3>1, <3>2
  <2>6. run' \in [Procs -> Turns \cup {None}]
    BY <2>3, <2>4 DEF CodexTyped
  <2>7. QED
    BY <2>3, <2>5, <2>6 DEF CodexTyped
<1>8. CASE Close \/ Rebuilt \/ FailTurn \/ WarmedUp \/ SendControl \/ Controlled
  BY <1>8
  DEF Close, Rebuilt, FailTurn, WarmedUp, SendControl, Controlled, codexVars, CodexTyped
<1>9. CASE Rebuild
  <2>1. UNCHANGED <<alive, run, waiting, spoken>>
    BY <1>9, StartThreadSays DEF Rebuild
  <2>2. QED
    BY <2>1 DEF CodexTyped
<1>10. CASE \E s \in Prompts : Submit(s)
  BY <1>10
  DEF Submit, codexVars, CodexTyped
<1>11. CASE \E w \in {"attach", "warm"} : LaunchFails(w)
  BY <1>11
  DEF LaunchFails, codexVars, CodexTyped
<1>12. ASSUME NEW w \in {"attach", "warm"}, Launch(w) PROVE CodexTyped'
  <2>1. /\ alive' = [alive EXCEPT ![proc'] = "up"] /\ run' = [run EXCEPT ![proc'] = None]
        /\ waiting' = [waiting EXCEPT ![proc'] = <<>>]
    BY <1>12, Launched
  <2>2. UNCHANGED spoken /\ <<>> \in Seq(Turns)
    BY <1>12 DEF Launch
  <2>3. QED
    BY <2>1, <2>2 DEF CodexTyped
<1>13. CASE Warmup \/ Control \/ ItemsDone
  BY <1>13
  DEF Warmup, Control, ItemsDone, codexVars, CodexTyped
<1>14. CASE WarmTimeout
  BY <1>14
  DEF WarmTimeout, ShutDown, LoseProcess, codexVars, CodexTyped
<1>15. CASE RolloutMissed
  <2>1. active \in Turns
    BY <1>15 DEF RolloutMissed, EventsTyped
  <2>2. QED
    BY <1>15, <2>1, InterruptMoves DEF RolloutMissed, Interrupt, CodexTyped
<1>16. CASE Shutdown
  BY <1>16
  DEF Shutdown, ShutDown, LoseProcess, codexVars, CodexTyped
<1>17. ASSUME NEW source \in {"user", "system"}, Stop(source) PROVE CodexTyped'
  <2>1. active \in Turns
    BY <1>17 DEF Stop, EventsTyped
  <2>2. QED
    BY <1>17, <2>1, InterruptMoves DEF Stop, Interrupt, CodexTyped
<1>18. ASSUME NEW p \in Procs, Speak(p) PROVE CodexTyped'
  BY <1>18
  DEF Speak, codexVars, CodexTyped
<1>19. ASSUME NEW p \in Procs, Finish(p) PROVE CodexTyped'
  <2>1. UNCHANGED <<alive, spoken>> /\ TurnOver(p)
    BY <1>19 DEF Finish
  <2>2. QED
    BY <2>1, OverTyped DEF CodexTyped
<1>20. ASSUME NEW p \in Procs, GoalTurn(p) PROVE CodexTyped'
  BY <1>20, Names
  DEF GoalTurn, codexVars, CodexTyped
<1>21. ASSUME NEW p \in Procs, Die(p) PROVE CodexTyped'
  <2>1. /\ alive' = [alive EXCEPT ![p] = "dead"] /\ run' = [run EXCEPT ![p] = None]
        /\ waiting' = [waiting EXCEPT ![p] = <<>>] /\ UNCHANGED spoken
    BY <1>21 DEF Die
  <2>2. <<>> \in Seq(Turns)
    OBVIOUS
  <2>3. QED
    BY <2>1, <2>2 DEF CodexTyped
<1>22. ASSUME NEW p \in Procs, Closed(p) PROVE CodexTyped'
  BY <1>22
  DEF Closed, codexVars, CodexTyped
<1>23. CASE UNCHANGED vars
  BY <1>23
  DEF vars, codexVars, CodexTyped
<1>24. QED
  BY <1>1, <1>2, <1>3, <1>4, <1>5, <1>6, <1>7, <1>8, <1>9, <1>10, <1>11, <1>12, <1>13, <1>14,
     <1>15, <1>16, <1>17, <1>18, <1>19, <1>20, <1>21, <1>22, <1>23
  DEF Next, ReadStep, Continuation, Event

(* What anybody puts out has a meaning. *)
LEMMA Puttings ==
  ASSUME Typed,
         \/ UNCHANGED out
         \/ \E p \in Procs : Read(p)
         \/ \E p \in Procs : \E l \in Lines : Puts(p, l)
         \/ \E p \in Procs : \E l, m \in Lines : PutsBoth(p, l, m)
  PROVE  LinesTyped'
<1>1. LinesTyped
  BY DEF Typed
<1>2. CASE UNCHANGED out
  <2>1. \A p \in Procs : \A k \in DOMAIN out'[p] : Meant(out[p][k])' <=> Meant(out'[p][k])
    BY DEF Meant
  <2>2. QED
    BY <1>1, <1>2, <2>1 DEF LinesTyped
<1>3. CASE \E p \in Procs : Read(p)
  BY <1>1, <1>3, LineRead
<1>4. CASE \E p \in Procs : \E l \in Lines : Puts(p, l)
  <2>1. PICK p \in Procs, l \in Lines : Puts(p, l)
    BY <1>4
  <2>2. l \in Message /\ Meant(l)
    BY DEF Lines
  <2>3. QED
    BY <1>1, <2>1, <2>2, LinePut
<1>5. CASE \E p \in Procs : \E l, m \in Lines : PutsBoth(p, l, m)
  <2>1. PICK p \in Procs, l \in Lines, m \in Lines : PutsBoth(p, l, m)
    BY <1>5
  <2>2. l \in Message /\ Meant(l) /\ m \in Message /\ Meant(m)
    BY DEF Lines
  <2>3. QED
    BY <1>1, <2>1, <2>2, PairPut
<1>6. QED
  BY <1>2, <1>3, <1>4, <1>5

(* The outputs and ends of turns, and the answer to a goal control. *)
LEMMA Spoken ==
  ASSUME Typed, NEW p \in Procs
  PROVE  /\ run[p] # None => /\ Line("thread", "output", run[p]) \in Lines
                             /\ Line("thread", "completed", run[p]) \in Lines
         /\ Speak(p) => Puts(p, Line("thread", "output", run[p]))
         /\ Finish(p) => Puts(p, Line("thread", "completed", run[p]))
         /\ run[p] # None => run[p] \in Turns
         /\ Line("control", "ok", None) \in Lines
<1>1. run[p] # None => run[p] \in Turns
  BY DEF Typed, CodexTyped
<1>2. run[p] # None => /\ Line("thread", "output", run[p]) \in Lines
                       /\ Line("thread", "completed", run[p]) \in Lines
  BY <1>1, Names DEF Line, Lines, Message, Meant, Ids, Kinds, Waiters, Turns
<1>3. Line("control", "ok", None) \in Lines
  BY DEF Line, Lines, Message, Meant, Ids, Kinds, Waiters
<1>4. QED
  BY <1>1, <1>2, <1>3 DEF Speak, Finish, Say, Puts

LEMMA ControlSays ==
  ASSUME Typed, SendControl
  PROVE  /\ Answering("control")
         /\ \/ UNCHANGED out
            \/ Served /\ proc \in Procs /\ Puts(proc, Line("control", "ok", None))
<1>1. Answering("control")
  BY DEF SendControl, Send, Answering
<1>2. CASE ~ Served
  BY <1>1, <1>2 DEF SendControl
<1>3. CASE Served
  <2>1. proc \in Procs /\ out[proc] \in Seq(Message)
    BY <1>3 DEF Served, Typed, NamesTyped, LinesTyped
  <2>2. out' = [out EXCEPT ![proc] = Append(@, Line("control", "ok", None))]
    BY <1>3 DEF SendControl
  <2>3. \A s \in Seq(Message) : \A l : Append(s, l) = s \o <<l>>
    OBVIOUS
  <2>4. Append(out[proc], Line("control", "ok", None)) = out[proc] \o <<Line("control", "ok", None)>>
    BY <2>1, <2>3
  <2>5. QED
    BY <1>1, <1>3, <2>1, <2>2, <2>4 DEF Puts
<1>4. QED
  BY <1>2, <1>3

(* An interrupt. *)
LEMMA InterruptLines ==
  ASSUME Typed, NEW t \in Turns, NEW answers,
         AskInterrupt(t, answers) \/ UNCHANGED <<alive, run, waiting, out, threads, spoken, raced>>
  PROVE  LinesTyped'
<1>1. CASE AskInterrupt(t, answers)
  <2>1. \/ UNCHANGED out
        \/ proc \in Procs /\ \E l \in Lines : Puts(proc, l)
        \/ proc \in Procs /\ \E l, m \in Lines : PutsBoth(proc, l, m)
    BY <1>1, InterruptSays
  <2>2. QED
    BY <2>1, Puttings
<1>2. QED
  BY <1>1, Puttings

(* of the lines, *)
LEMMA LinesStep ==
  ASSUME Typed, Lined, [Next]_vars
  PROVE  LinesTyped'
<1>1. ASSUME NEW p \in Procs, Ignore(p) PROVE LinesTyped'
  BY <1>1, Puttings DEF Ignore
<1>2. ASSUME NEW p \in Procs, Answered(p) PROVE LinesTyped'
  BY <1>2, Puttings DEF Answered
<1>3. ASSUME NEW p \in Procs, Output(p) PROVE LinesTyped'
  BY <1>3, Puttings DEF Output
<1>4. ASSUME NEW p \in Procs, Ended(p) PROVE LinesTyped'
  BY <1>4, Puttings DEF Ended
<1>5. CASE Initialized \/ ThreadReady \/ ThreadGone \/ AttachFails \/ InterruptTaken
  BY <1>5, Puttings
  DEF Initialized, ThreadReady, ThreadGone, AttachFails, InterruptTaken, codexVars
<1>6. CASE SendThread
  <2>1. UNCHANGED out \/ (proc \in Procs /\ \E l \in Lines : Puts(proc, l))
    BY <1>6, StartThreadSays, ResumeSays DEF SendThread
  <2>2. QED
    BY <2>1, Puttings
<1>7. CASE FoundOrphan
  <2>1. answer["attach"].id \in Turns
    BY <1>7 DEF FoundOrphan, Got, Typed, AnswersTyped, Turns
  <2>2. QED
    BY <1>7, <2>1, InterruptLines DEF FoundOrphan, Interrupt
<1>8. CASE Retarget
  <2>1. answer["interrupt"].id \in Turns
    BY <1>8 DEF Retarget, Mismatched, Got, Typed, AnswersTyped
  <2>2. QED
    BY <1>8, <2>1, InterruptLines DEF Retarget, Interrupt
<1>9. CASE InterruptOver \/ InterruptFails \/ Take \/ Started \/ StartFails \/ Settled
  BY <1>9, Puttings
  DEF InterruptOver, InterruptFails, Take, Started, StartFails, Settled, InterruptEnds, codexVars
<1>10. CASE SendTurn
  <2>1. UNCHANGED out \/ (proc \in Procs /\ \E l \in Lines : Puts(proc, l))
    BY <1>10, StartTurnSays DEF SendTurn, Lined
  <2>2. QED
    BY <2>1, Puttings
<1>11. CASE Close \/ Rebuilt \/ FailTurn \/ WarmedUp \/ Controlled
  BY <1>11, Puttings
  DEF Close, Rebuilt, FailTurn, WarmedUp, Controlled, codexVars
<1>12. CASE Rebuild
  <2>1. UNCHANGED out \/ (proc \in Procs /\ \E l \in Lines : Puts(proc, l))
    BY <1>12, StartThreadSays DEF Rebuild
  <2>2. QED
    BY <2>1, Puttings
<1>13. CASE SendControl
  <2>1. UNCHANGED out \/ (proc \in Procs /\ \E l \in Lines : Puts(proc, l))
    BY <1>13, ControlSays, Spoken DEF SendControl
  <2>2. QED
    BY <2>1, Puttings
<1>14. CASE \E s \in Prompts : Submit(s)
  BY <1>14, Puttings
  DEF Submit, codexVars
<1>15. CASE \E w \in {"attach", "warm"} : LaunchFails(w)
  BY <1>15, Puttings
  DEF LaunchFails, codexVars
<1>16. ASSUME NEW w \in {"attach", "warm"}, Launch(w) PROVE LinesTyped'
  <2>1. LinesTyped /\ NamesTyped /\ CodexTyped
    BY DEF Typed
  <2>2. QED
    BY <1>16, <2>1, Launched
<1>17. CASE Warmup \/ WarmTimeout \/ Control \/ Shutdown \/ ItemsDone
  BY <1>17, Puttings
  DEF Warmup, WarmTimeout, Control, Shutdown, ItemsDone, ShutDown, LoseProcess, codexVars
<1>18. CASE RolloutMissed
  <2>1. active \in Turns
    BY <1>18 DEF RolloutMissed, Typed, EventsTyped
  <2>2. QED
    BY <1>18, <2>1, InterruptLines DEF RolloutMissed, Interrupt
<1>19. ASSUME NEW source \in {"user", "system"}, Stop(source) PROVE LinesTyped'
  <2>1. active \in Turns
    BY <1>19 DEF Stop, Typed, EventsTyped
  <2>2. QED
    BY <1>19, <2>1, InterruptLines DEF Stop, Interrupt
<1>20. CASE \E p \in Procs : GoalTurn(p) \/ Closed(p)
  BY <1>20, Puttings
  DEF GoalTurn, Closed, codexVars
<1>21. ASSUME NEW p \in Procs, Speak(p) PROVE LinesTyped'
  BY <1>21, Spoken, Puttings DEF Speak
<1>22. ASSUME NEW p \in Procs, Finish(p) PROVE LinesTyped'
  BY <1>22, Spoken, Puttings DEF Finish
<1>23. ASSUME NEW p \in Procs, Die(p) PROVE LinesTyped'
  <2>1. LinesTyped
    BY DEF Typed
  <2>2. QED
    BY <1>23, <2>1, LinesCut
<1>24. CASE UNCHANGED vars
  BY <1>24, Puttings
  DEF vars, codexVars
<1>25. QED
  BY <1>1, <1>2, <1>3, <1>4, <1>5, <1>6, <1>7, <1>8, <1>9, <1>10, <1>11, <1>12, <1>13, <1>14,
     <1>15, <1>16, <1>17, <1>18, <1>19, <1>20, <1>21, <1>22, <1>23, <1>24
  DEF Next, ReadStep, Continuation, Event

(* and of what has been seen. *)
LEMMA SeenStep ==
  ASSUME Typed, Turning, Lined, [Next]_vars
  PROVE  SeenTyped'
<1> USE DEF Typed
<1>1. CASE \E p \in Procs : Ignore(p) \/ Answered(p) \/ Ended(p)
  BY <1>1
  DEF Ignore, Answered, Ended, Read, seenVars, SeenTyped
<1>2. ASSUME NEW p \in Procs, Output(p) PROVE SeenTyped'
  <2>1. First(p).id \in Turns
    BY <1>2, LineRead DEF Output, Meant
  <2>2. UNCHANGED <<ends, ran, stopped, noticed>>
    BY <1>2 DEF Output
  <2>3. \/ heard' = heard
        \/ heard' = heard \cup {<<cur, First(p).id>>} /\ (active # None \/ completer.is = "open")
    <3>1. First(p).id # None
      BY <2>1, Names
    <3>2. QED
      BY <1>2, <3>1 DEF Output
  <2>4. active # None \/ completer.is = "open" => cur \in Prompts
    BY Names DEF Turning, QueueTyped, Lined, Prompts
  <2>5. QED
    BY <2>1, <2>2, <2>3, <2>4 DEF SeenTyped
<1>3. CASE \/ Initialized \/ SendThread \/ ThreadReady \/ ThreadGone \/ AttachFails
           \/ FoundOrphan \/ InterruptTaken \/ Retarget
  BY <1>3
  DEF Initialized, SendThread, ThreadReady, ThreadGone, AttachFails, FoundOrphan, InterruptTaken,
      Retarget, seenVars, SeenTyped
<1>4. CASE InterruptOver \/ InterruptFails \/ Take \/ Started \/ StartFails \/ Settled
  BY <1>4
  DEF InterruptOver, InterruptFails, Take, Started, StartFails, Settled, InterruptEnds, seenVars,
      SeenTyped
<1>5. CASE SendTurn
  <2>1. /\ UNCHANGED <<ends, heard, stopped, noticed>>
        /\ ran' = [ran EXCEPT ![cur] = threadId] /\ threadId \in Nat \cup {None}
    BY <1>5 DEF SendTurn, NamesTyped
  <2>2. QED
    BY <2>1 DEF SeenTyped
<1>6. CASE Rebuild \/ WarmedUp \/ SendControl \/ Controlled
  BY <1>6
  DEF Rebuild, WarmedUp, SendControl, Controlled, seenVars, SeenTyped
<1>7. CASE Close
  <2>1. UNCHANGED <<ran, heard, stopped, noticed>>
    BY <1>7 DEF Close, seenVars
  <2>2. PICK how \in {"completed", "interrupted", "user"} :
          ends' = [ends EXCEPT ![cur] = [how |-> how, by |-> completer.id]]
    BY <1>7 DEF Close, End, Turning
  <2>3. completer.id \in Turns \cup {None}
    BY DEF EventsTyped, Outcome
  <2>4. [how |-> how, by |-> completer.id] \in Closing
    BY <2>3 DEF Closing
  <2>5. QED
    BY <2>1, <2>2, <2>4 DEF SeenTyped
<1>8. CASE Rebuilt
  <2>1. UNCHANGED <<ran, heard, stopped, noticed>>
    BY <1>8 DEF Rebuilt, seenVars
  <2>2. ends' = [ends EXCEPT ![cur] = [how |-> "rollout", by |-> completer.id]]
    BY <1>8 DEF Rebuilt, End
  <2>3. completer.id \in Turns \cup {None}
    BY DEF EventsTyped, Outcome
  <2>4. QED
    BY <2>1, <2>2, <2>3 DEF SeenTyped, Closing
<1>9. CASE FailTurn
  BY <1>9
  DEF FailTurn, Closing, seenVars, SeenTyped
<1>10. ASSUME NEW s \in Prompts, Submit(s) PROVE SeenTyped'
  BY <1>10
  DEF Submit, Closing, seenVars, SeenTyped
<1>11. CASE \E w \in {"attach", "warm"} : Launch(w) \/ LaunchFails(w)
  BY <1>11
  DEF Launch, LaunchFails, seenVars, SeenTyped
<1>12. CASE Warmup \/ Control \/ ItemsDone
  BY <1>12
  DEF Warmup, Control, ItemsDone, seenVars, SeenTyped
<1>13. CASE WarmTimeout
  BY <1>13
  DEF WarmTimeout, ShutDown, LoseProcess, Closing, seenVars, SeenTyped
<1>14. CASE RolloutMissed
  <2>1. UNCHANGED <<ends, ran, heard, stopped>> /\ noticed' = noticed \cup {cur} /\ active # None
    BY <1>14 DEF RolloutMissed
  <2>2. cur \in Prompts
    BY <2>1, Names DEF Turning, QueueTyped, Prompts
  <2>3. QED
    BY <2>1, <2>2 DEF SeenTyped
<1>15. CASE Shutdown
  BY <1>15
  DEF Shutdown, ShutDown, LoseProcess, Closing, seenVars, SeenTyped
<1>16. ASSUME NEW source \in {"user", "system"}, Stop(source) PROVE SeenTyped'
  <2>1. /\ UNCHANGED <<ends, ran, heard, noticed>> /\ active # None
        /\ stopped' = stopped \cup {cur} \/ stopped' = stopped
    BY <1>16 DEF Stop
  <2>2. cur \in Prompts
    BY <2>1, Names DEF Turning, QueueTyped, Prompts
  <2>3. QED
    BY <2>1, <2>2 DEF SeenTyped
<1>17. CASE \E p \in Procs : Speak(p) \/ Finish(p) \/ GoalTurn(p) \/ Die(p) \/ Closed(p)
  BY <1>17
  DEF Speak, Finish, GoalTurn, Die, Closed, seenVars, SeenTyped
<1>18. CASE UNCHANGED vars
  BY <1>18
  DEF vars, seenVars, SeenTyped
<1>19. QED
  BY <1>1, <1>2, <1>3, <1>4, <1>5, <1>6, <1>7, <1>8, <1>9, <1>10, <1>11, <1>12, <1>13, <1>14,
     <1>15, <1>16, <1>17, <1>18
  DEF Next, ReadStep, Continuation, Event

--------------------------------------------------------------------------------
(* Every step keeps the types. *)
LEMMA TypedStep ==
  ASSUME Typed, Numbered, Turning, Lined, Threaded, [Next]_vars
  PROVE  Typed'
<1>1. FlagsTyped'
  BY MarksStep, SignsStep, RacedStep, UpsetsStep DEF FlagsTyped
<1>2. EventsTyped'
  BY ActiveStep, CompleterStep, PendingStep, ReasonStep DEF EventsTyped
<1>3. QED
  BY <1>1, <1>2, PcStep, CallsStep, QueueStep, NamesStep, AnswersStep, CodexStep, LinesStep, SeenStep
  DEF Typed

(* What is left without the process. *)
LEMMA Losses ==
  ASSUME Typed, LoseProcess, Quiet
  PROVE  /\ proc' = None /\ attached' = FALSE /\ active' = None /\ interrupting' = NoInterrupt
         /\ answer'["interrupt"] = Nothing
         /\ answer'["attach"] =
              IF attach = "orphan" \/ answer["attach"].is = "sent" THEN Failure ELSE answer["attach"]
         /\ \A w \in {"warm", "turn", "control"} :
              answer'[w] = IF answer[w].is = "sent" THEN Failure ELSE answer[w]
         /\ \A w \in Waiters : answer[w].is \in {"none", "sent"}
         /\ attach # "spawned" /\ pc # "send" /\ control # "send"
         /\ UNCHANGED <<threadId, reason, items>>
<1>1. \A w \in Waiters : answer[w].is \in {"none", "sent"}
  BY DEF Quiet, Ready
<1>2. \A w \in Waiters : answer'[w] = IF w = "interrupt" THEN Nothing
                                      ELSE IF w = "attach" /\ attach = "orphan" THEN Failure
                                      ELSE IF answer[w].is = "sent" THEN Failure ELSE answer[w]
  BY DEF LoseProcess, Failed, Got
<1>3. QED
  BY <1>1, <1>2 DEF LoseProcess, Quiet, Ready, Waiters

(* Every step keeps where the attach stands, *)
LEMMA AttachingStep ==
  ASSUME Typed, Attaching, Turning, Interrupting, Came, [Next]_vars
  PROVE  Attaching'
<1> USE DEF Typed
<1>1. UNCHANGED <<answer, attach, attached, interrupting, proc>> => Attaching'
  BY DEF Attaching
<1>2. CASE \E p \in Procs : Ignore(p) \/ Output(p)
  BY <1>2, <1>1
  DEF Ignore, Output, Read, threadVars, eventVars
<1>3. ASSUME NEW p \in Procs, Answered(p) PROVE Attaching'
  <2>1. First(p).is # "none"
    BY <1>3, LineRead DEF Answered, Message, Kinds
  <2>2. QED
    BY <1>3, <2>1 DEF Answered, Got, threadVars, eventVars, Attaching, AnswersTyped, Waiters, Nothing, Failure
<1>4. ASSUME NEW p \in Procs, Ended(p) PROVE Attaching'
  <2>1. interrupting'.target = interrupting.target
    BY <1>4 DEF Ended, TurnEnded, EventsTyped, Pending
  <2>2. QED
    BY <1>4, <2>1 DEF Ended, threadVars, Attaching
<1>5. CASE Initialized
  BY <1>5
  DEF Initialized, Got, Taken, Came, Failure, threadVars, eventVars, Attaching, AnswersTyped,
      Waiters, Nothing
<1>6. CASE SendThread
  <2>1. Answering("attach")
    BY <1>6, StartThreadSays, ResumeSays DEF SendThread, Typed
  <2>2. attach' \in {"start", "resume"} /\ ~ attached /\ UNCHANGED <<attached, proc, interrupting>>
    BY <1>6 DEF SendThread, threadVars, eventVars, Attaching, FlagsTyped
  <2>3. QED
    BY <2>1, <2>2 DEF Answering, Attaching, AnswersTyped, Waiters
<1>7. CASE ThreadReady
  BY <1>7
  DEF ThreadReady, Got, Taken, Came, AttachEnds, threadVars, eventVars, Attaching, AnswersTyped,
      Waiters, Nothing
<1>8. CASE ThreadGone
  BY <1>8
  DEF ThreadGone, Got, Taken, Came, threadVars, eventVars, Attaching, AnswersTyped, Waiters,
      Nothing
<1>9. CASE AttachFails
  BY <1>9
  DEF AttachFails, Got, Taken, AttachEnds, threadVars, eventVars, Attaching, AnswersTyped,
      Waiters, Nothing
<1>10. CASE FoundOrphan
  <2>1. attach' = "orphan" /\ answer["attach"].id = Goal /\ Goal # None
    BY <1>10, Names DEF FoundOrphan, Got, AnswersTyped
  <2>2. interrupting'.target # None
    BY <1>10, <2>1 DEF FoundOrphan, Interrupt, Interrupting, NoInterrupt
  <2>3. answer'["attach"] = Nothing
    BY <1>10 DEF FoundOrphan, Interrupt, AskInterrupt, AnswersTyped, Waiters
  <2>4. UNCHANGED <<attached, proc>> /\ (attached => FALSE)
    BY <1>10 DEF FoundOrphan, threadVars, Attaching
  <2>5. QED
    BY <2>1, <2>2, <2>3, <2>4 DEF Attaching, Nothing
<1>11. CASE InterruptTaken
  BY <1>11
  DEF InterruptTaken, Taken, threadVars, eventVars, Attaching, AnswersTyped, Waiters, Nothing
<1>12. CASE Retarget
  <2>1. answer["interrupt"].id \in Turns /\ answer["interrupt"].is # "none"
    BY <1>12 DEF Retarget, Mismatched, Got, AnswersTyped
  <2>2. answer["interrupt"].id # None
    BY <2>1, Names
  <2>3. interrupting'.target # None /\ interrupting.target # None
    BY <1>12, <2>1, <2>2 DEF Retarget, Interrupting, EventsTyped, Pending
  <2>4. answer'["attach"] = answer["attach"] /\ UNCHANGED <<attached, proc, attach>>
    BY <1>12 DEF Retarget, Taken, AskInterrupt, AnswersTyped, Waiters, threadVars
  <2>5. QED
    BY <2>3, <2>4 DEF Attaching
<1>13. CASE Started \/ StartFails \/ Settled
  BY <1>13
  DEF Started, StartFails, Settled, Taken, threadVars, eventVars, Attaching, AnswersTyped,
      Waiters, Nothing
<1>14. CASE InterruptOver
  BY <1>14
  DEF InterruptOver, InterruptEnds, AttachEnds, Got, Interrupting, NoInterrupt, Failure,
      threadVars, eventVars, Attaching, AnswersTyped, Waiters, Nothing
<1>15. CASE InterruptFails
  BY <1>15
  DEF InterruptFails, InterruptEnds, AttachEnds, Got, Taken, Mismatched, Interrupting,
      NoInterrupt, Failure, threadVars, eventVars, Attaching, AnswersTyped, Waiters, Nothing
<1>16. CASE Take
  BY <1>16
  DEF Take, EnsureAttached, threadVars, eventVars, Attaching, AnswersTyped, Waiters, Nothing
<1>17. CASE SendTurn
  BY <1>17
  DEF SendTurn, StartTurn, Send, threadVars, eventVars, Attaching, AnswersTyped, Waiters, Nothing
<1>18. CASE Close \/ FailTurn \/ WarmedUp \/ SendControl \/ Controlled
  BY <1>18
  DEF Close, FailTurn, WarmedUp, SendControl, Controlled, Taken, Send, threadVars, eventVars,
      Attaching, AnswersTyped, Waiters, Nothing
<1>19. CASE Rebuild
  BY <1>19
  DEF Rebuild, StartThread, Send, threadVars, eventVars, Attaching, AnswersTyped, Waiters, Nothing
<1>20. CASE Rebuilt
  BY <1>20
  DEF Rebuilt, Taken, threadVars, eventVars, Attaching, AnswersTyped, Waiters, Nothing
<1>21. CASE \E s \in Prompts : Submit(s)
  BY <1>21, <1>1
  DEF Submit, threadVars, eventVars
<1>22. ASSUME NEW w \in {"attach", "warm"}, Launch(w) PROVE Attaching'
  <2>1. proc' # None /\ answer' = [answer EXCEPT ![w] = [is |-> "sent", id |-> proc']]
    BY <1>22, Launched, Names
  <2>2. UNCHANGED <<attached, interrupting>>
    BY <1>22 DEF Launch, threadVars, eventVars
  <2>3. QED
    BY <1>22, <2>1, <2>2 DEF Launch, Attaching, AnswersTyped, Waiters
<1>23. ASSUME NEW w \in {"attach", "warm"}, LaunchFails(w) PROVE Attaching'
  BY <1>23
  DEF LaunchFails, AttachEnds, threadVars, eventVars, Attaching, AnswersTyped, Waiters, Nothing
<1>24. CASE Warmup \/ ItemsDone
  BY <1>24, <1>1
  DEF Warmup, ItemsDone, threadVars, eventVars
<1>25. CASE WarmTimeout
  <2>1. LoseProcess /\ Quiet /\ UNCHANGED attach
    BY <1>25 DEF WarmTimeout, ShutDown
  <2>2. QED
    BY <2>1, Losses DEF Attaching, NoInterrupt, Nothing, Failure, Waiters
<1>26. CASE Control
  BY <1>26
  DEF Control, EnsureAttached, threadVars, eventVars, Attaching, AnswersTyped, Waiters, Nothing
<1>27. CASE RolloutMissed
  <2>1. attach = "orphan" => interrupting.target # None
    BY <1>27 DEF RolloutMissed, Quiet, Ready, Attaching, Waiters
  <2>2. attach = "orphan" => UNCHANGED interrupting
    BY <1>27, <2>1 DEF RolloutMissed, Interrupt, NoInterrupt
  <2>3. answer'["attach"] = answer["attach"] /\ UNCHANGED <<attached, proc, attach>>
    BY <1>27 DEF RolloutMissed, Interrupt, AskInterrupt, AnswersTyped, Waiters, threadVars
  <2>4. QED
    BY <2>2, <2>3 DEF Attaching
<1>28. CASE Shutdown
  <2>1. LoseProcess /\ Quiet /\ UNCHANGED attach
    BY <1>28 DEF Shutdown, ShutDown
  <2>2. QED
    BY <2>1, Losses DEF Attaching, NoInterrupt, Nothing, Failure, Waiters
<1>29. ASSUME NEW source \in {"user", "system"}, Stop(source) PROVE Attaching'
  <2>1. attach = "orphan" => interrupting.target # None
    BY <1>29 DEF Stop, Quiet, Ready, Attaching, Waiters
  <2>2. attach = "orphan" => UNCHANGED interrupting
    BY <1>29, <2>1 DEF Stop, Interrupt, NoInterrupt
  <2>3. answer'["attach"] = answer["attach"] /\ UNCHANGED <<attached, proc, attach>>
    BY <1>29 DEF Stop, Interrupt, AskInterrupt, AnswersTyped, Waiters, threadVars
  <2>4. QED
    BY <2>2, <2>3 DEF Attaching
<1>30. CASE \E p \in Procs : Speak(p) \/ Finish(p) \/ GoalTurn(p) \/ Die(p)
  BY <1>30, <1>1
  DEF Speak, Finish, GoalTurn, Die, threadVars, eventVars
<1>31. ASSUME NEW p \in Procs, Closed(p) PROVE Attaching'
  BY <1>31
  DEF Closed, LoseProcess, Failed, Failure, Quiet, Ready, Got, NoInterrupt, threadVars, eventVars,
      Attaching, AnswersTyped, Waiters, Nothing
<1>32. CASE UNCHANGED vars
  BY <1>32, <1>1
  DEF vars, threadVars, eventVars
<1>33. QED
  BY <1>2, <1>3, <1>4, <1>5, <1>6, <1>7, <1>8, <1>9, <1>10, <1>11, <1>12, <1>13, <1>14, <1>15,
     <1>16, <1>17, <1>18, <1>19, <1>20, <1>21, <1>22, <1>23, <1>24, <1>25, <1>26, <1>27, <1>28,
     <1>29, <1>30, <1>31, <1>32
  DEF Next, ReadStep, Continuation, Event

(* the calls, *)
LEMMA CallingStep ==
  ASSUME Typed, Calling, Attaching, Interrupting, Came, [Next]_vars
  PROVE  Calling'
<1> USE DEF Typed
<1>1. UNCHANGED <<answer, control, proc, warm>> => Calling'
  BY DEF Calling
<1>2. CASE \E p \in Procs : Ignore(p) \/ Output(p) \/ Ended(p)
  BY <1>2, <1>1
  DEF Ignore, Output, Ended, Read, callVars
<1>3. ASSUME NEW p \in Procs, Answered(p) PROVE Calling'
  <2>1. answer'["warm"] = answer["warm"] \/ answer["warm"].is = "sent"
    BY <1>3 DEF Answered, Got, AnswersTyped, Waiters
  <2>2. answer'["control"] = answer["control"] \/ answer["control"].is = "sent"
    BY <1>3 DEF Answered, Got, AnswersTyped, Waiters
  <2>3. UNCHANGED <<warm, control, proc>>
    BY <1>3 DEF Answered, callVars
  <2>4. QED
    BY <2>1, <2>2, <2>3 DEF Calling, Nothing
<1>4. CASE Initialized
  <2>1. answer'["warm"] = answer["warm"] /\ answer'["control"] = answer["control"]
    BY <1>4 DEF Initialized, AnswersTyped, Waiters, Taken
  <2>2. UNCHANGED <<warm, control, proc>>
    BY <1>4 DEF Initialized, callVars
  <2>3. QED
    BY <2>1, <2>2 DEF Calling
<1>5. CASE SendThread
  <2>1. answer'["warm"] = answer["warm"] /\ answer'["control"] = answer["control"]
    BY <1>5 DEF SendThread, AnswersTyped, Waiters, StartThread, ResumeThread, Send
  <2>2. UNCHANGED <<warm, control, proc>>
    BY <1>5 DEF SendThread, callVars
  <2>3. QED
    BY <2>1, <2>2 DEF Calling
<1>6. CASE ThreadReady
  BY <1>6
  DEF ThreadReady, Taken, AttachEnds, Came, Got, CallsTyped, callVars, Calling, AnswersTyped,
      Waiters, Nothing
<1>7. CASE ThreadGone
  <2>1. answer'["warm"] = answer["warm"] /\ answer'["control"] = answer["control"]
    BY <1>7 DEF ThreadGone, AnswersTyped, Waiters, Taken
  <2>2. UNCHANGED <<warm, control, proc>>
    BY <1>7 DEF ThreadGone, callVars
  <2>3. QED
    BY <2>1, <2>2 DEF Calling
<1>8. CASE AttachFails
  BY <1>8
  DEF AttachFails, Taken, AttachEnds, CallsTyped, callVars, Calling, AnswersTyped, Waiters,
      Nothing
<1>9. CASE FoundOrphan
  <2>1. answer'["warm"] = answer["warm"] /\ answer'["control"] = answer["control"]
    BY <1>9 DEF FoundOrphan, AnswersTyped, Waiters, Interrupt, AskInterrupt
  <2>2. UNCHANGED <<warm, control, proc>>
    BY <1>9 DEF FoundOrphan, callVars
  <2>3. QED
    BY <2>1, <2>2 DEF Calling
<1>10. CASE InterruptTaken
  <2>1. answer'["warm"] = answer["warm"] /\ answer'["control"] = answer["control"]
    BY <1>10 DEF InterruptTaken, AnswersTyped, Waiters, Taken
  <2>2. UNCHANGED <<warm, control, proc>>
    BY <1>10 DEF InterruptTaken, callVars
  <2>3. QED
    BY <2>1, <2>2 DEF Calling
<1>11. CASE Retarget
  <2>1. answer'["warm"] = answer["warm"] /\ answer'["control"] = answer["control"]
    BY <1>11 DEF Retarget, AnswersTyped, Waiters, Taken, AskInterrupt
  <2>2. UNCHANGED <<warm, control, proc>>
    BY <1>11 DEF Retarget, callVars
  <2>3. QED
    BY <2>1, <2>2 DEF Calling
<1>12. CASE Take \/ Settled
  BY <1>12, <1>1
  DEF Take, Settled, callVars
<1>13. CASE InterruptOver
  BY <1>13, Names
  DEF InterruptOver, InterruptEnds, AttachEnds, CallsTyped, Interrupting, NoInterrupt, Got,
      callVars, Calling, AnswersTyped, Waiters, Nothing
<1>14. CASE InterruptFails
  BY <1>14
  DEF InterruptFails, InterruptEnds, AttachEnds, CallsTyped, Taken, callVars, Calling,
      AnswersTyped, Waiters, Nothing
<1>15. CASE SendTurn
  <2>1. answer'["warm"] = answer["warm"] /\ answer'["control"] = answer["control"]
    BY <1>15 DEF SendTurn, AnswersTyped, Waiters, StartTurn, Send
  <2>2. UNCHANGED <<warm, control, proc>>
    BY <1>15 DEF SendTurn, callVars
  <2>3. QED
    BY <2>1, <2>2 DEF Calling
<1>16. CASE Started
  <2>1. answer'["warm"] = answer["warm"] /\ answer'["control"] = answer["control"]
    BY <1>16 DEF Started, AnswersTyped, Waiters, Taken
  <2>2. UNCHANGED <<warm, control, proc>>
    BY <1>16 DEF Started, callVars
  <2>3. QED
    BY <2>1, <2>2 DEF Calling
<1>17. CASE StartFails
  <2>1. answer'["warm"] = answer["warm"] /\ answer'["control"] = answer["control"]
    BY <1>17 DEF StartFails, AnswersTyped, Waiters, Taken
  <2>2. UNCHANGED <<warm, control, proc>>
    BY <1>17 DEF StartFails, callVars
  <2>3. QED
    BY <2>1, <2>2 DEF Calling
<1>18. CASE Close \/ FailTurn
  BY <1>18, <1>1
  DEF Close, FailTurn, callVars
<1>19. CASE Rebuild
  <2>1. answer'["warm"] = answer["warm"] /\ answer'["control"] = answer["control"]
    BY <1>19 DEF Rebuild, AnswersTyped, Waiters, StartThread, Send
  <2>2. UNCHANGED <<warm, control, proc>>
    BY <1>19 DEF Rebuild, callVars
  <2>3. QED
    BY <2>1, <2>2 DEF Calling
<1>20. CASE Rebuilt
  <2>1. answer'["warm"] = answer["warm"] /\ answer'["control"] = answer["control"]
    BY <1>20 DEF Rebuilt, AnswersTyped, Waiters, Taken
  <2>2. UNCHANGED <<warm, control, proc>>
    BY <1>20 DEF Rebuilt, callVars
  <2>3. QED
    BY <2>1, <2>2 DEF Calling
<1>21. CASE WarmedUp
  BY <1>21
  DEF WarmedUp, Taken, callVars, Calling, AnswersTyped, Waiters, Nothing
<1>22. CASE SendControl
  BY <1>22
  DEF SendControl, Send, CallsTyped, callVars, Calling, AnswersTyped, Waiters, Nothing
<1>23. CASE Controlled
  BY <1>23
  DEF Controlled, Taken, callVars, Calling, AnswersTyped, Waiters, Nothing
<1>24. CASE \E s \in Prompts : Submit(s)
  BY <1>24, <1>1
  DEF Submit, callVars
<1>25. ASSUME NEW w \in {"attach", "warm"}, Launch(w) PROVE Calling'
  <2>1. proc' # None /\ answer' = [answer EXCEPT ![w] = [is |-> "sent", id |-> proc']]
    BY <1>25, Launched, Names
  <2>2. UNCHANGED control
    BY <1>25 DEF Launch, callVars
  <2>3. QED
    BY <1>25, <2>1, <2>2 DEF Launch, Calling, AnswersTyped, Waiters
<1>26. ASSUME NEW w \in {"attach", "warm"}, LaunchFails(w) PROVE Calling'
  BY <1>26
  DEF LaunchFails, AttachEnds, CallsTyped, callVars, Calling, AnswersTyped, Waiters, Nothing
<1>27. CASE ItemsDone
  BY <1>27, <1>1
  DEF ItemsDone, callVars
<1>28. CASE Warmup
  BY <1>28
  DEF Warmup, callVars, Calling, AnswersTyped, Waiters, Nothing
<1>29. CASE WarmTimeout
  <2>1. LoseProcess /\ Quiet /\ UNCHANGED <<warm, control>>
    BY <1>29 DEF WarmTimeout, ShutDown
  <2>2. QED
    BY <2>1, Losses DEF Calling, Nothing, Failure, Waiters
<1>30. CASE Control
  BY <1>30
  DEF Control, CallsTyped, Attaching, EnsureAttached, callVars, Calling, AnswersTyped, Waiters,
      Nothing
<1>31. CASE RolloutMissed
  <2>1. answer'["warm"] = answer["warm"] /\ answer'["control"] = answer["control"]
    BY <1>31 DEF RolloutMissed, AnswersTyped, Waiters, Interrupt, AskInterrupt
  <2>2. UNCHANGED <<warm, control, proc>>
    BY <1>31 DEF RolloutMissed, callVars
  <2>3. QED
    BY <2>1, <2>2 DEF Calling
<1>32. CASE Shutdown
  <2>1. LoseProcess /\ Quiet /\ UNCHANGED <<warm, control>>
    BY <1>32 DEF Shutdown, ShutDown
  <2>2. QED
    BY <2>1, Losses DEF Calling, Nothing, Failure, Waiters
<1>33. ASSUME NEW source \in {"user", "system"}, Stop(source) PROVE Calling'
  <2>1. answer'["warm"] = answer["warm"] /\ answer'["control"] = answer["control"]
    BY <1>33 DEF Stop, AnswersTyped, Waiters, Interrupt, AskInterrupt
  <2>2. UNCHANGED <<warm, control, proc>>
    BY <1>33 DEF Stop, callVars
  <2>3. QED
    BY <2>1, <2>2 DEF Calling
<1>34. CASE \E p \in Procs : Speak(p) \/ Finish(p) \/ GoalTurn(p) \/ Die(p)
  BY <1>34, <1>1
  DEF Speak, Finish, GoalTurn, Die, callVars
<1>35. ASSUME NEW p \in Procs, Closed(p) PROVE Calling'
  <2>1. (LoseProcess \/ UNCHANGED <<proc, answer>>) /\ Quiet /\ UNCHANGED <<warm, control>>
    BY <1>35 DEF Closed, callVars
  <2>2. CASE LoseProcess
    BY <2>1, <2>2, Losses DEF Calling, Nothing, Failure, Waiters
  <2>3. QED
    BY <2>1, <2>2 DEF Calling
<1>36. CASE UNCHANGED vars
  BY <1>36, <1>1
  DEF vars, callVars
<1>37. QED
  BY <1>2, <1>3, <1>4, <1>5, <1>6, <1>7, <1>8, <1>9, <1>10, <1>11, <1>12, <1>13, <1>14, <1>15,
     <1>16, <1>17, <1>18, <1>19, <1>20, <1>21, <1>22, <1>23, <1>24, <1>25, <1>26, <1>27, <1>28,
     <1>29, <1>30, <1>31, <1>32, <1>33, <1>34, <1>35, <1>36
  DEF Next, ReadStep, Continuation, Event

(* the turn, *)
LEMMA TurningStep ==
  ASSUME Typed, Turning, Attaching, Interrupting, Came, Lined, Numbered, [Next]_vars
  PROVE  Turning'
<1> USE DEF Typed
<1>1. UNCHANGED <<active, answer, attached, completer, cur, pc, reason>> => Turning'
  BY DEF Turning
<1>2. CASE \E p \in Procs : Ignore(p)
  BY <1>2, <1>1
  DEF Ignore, Read, turnVars, threadVars, eventVars
<1>3. ASSUME NEW p \in Procs, Answered(p) PROVE Turning'
  <2>1. /\ First(p).is \in {"ok", "refused"} \/ First(p).to # "turn"
        /\ First(p) \in Message
    BY <1>3, LineRead DEF Answered, Meant, Message, Kinds
  <2>2. \/ answer'["turn"] = answer["turn"]
        \/ answer["turn"].is = "sent" /\ answer'["turn"].is \in {"ok", "refused"}
    BY <1>3, <2>1 DEF Answered, Got, AnswersTyped, Waiters
  <2>3. UNCHANGED <<pc, attached, completer, reason, active, cur>>
    BY <1>3 DEF Answered, turnVars, threadVars, eventVars
  <2>4. QED
    BY <2>2, <2>3 DEF Turning, Nothing
<1>4. ASSUME NEW p \in Procs, Output(p) PROVE Turning'
  <2>1. active' # None => active # None \/ completer.is = "open"
    BY <1>4 DEF Output
  <2>2. completer.is = "open" => cur # 0
    BY Names DEF Turning, Lined
  <2>3. UNCHANGED <<pc, answer, attached, completer, reason, cur>>
    BY <1>4 DEF Output, turnVars, threadVars
  <2>4. QED
    BY <2>1, <2>2, <2>3 DEF Turning
<1>5. ASSUME NEW p \in Procs, Ended(p) PROVE Turning'
  <2>1. First(p).is \in {"completed", "interrupted"}
    BY <1>5, LineRead DEF Ended, Meant
  <2>2. \/ completer' = completer
        \/ completer.is = "open" /\ completer'.is \in {"completed", "interrupted"}
    BY <1>5, <2>1 DEF Ended, TurnEnded, Closes
  <2>3. UNCHANGED <<pc, answer, attached, reason, active, cur>>
    BY <1>5 DEF Ended, turnVars, threadVars
  <2>4. QED
    BY <2>2, <2>3 DEF Turning, Nothing
<1>6. CASE Initialized
  <2>1. answer'["turn"] = answer["turn"]
    BY <1>6 DEF Initialized, AnswersTyped, Waiters, Taken
  <2>2. UNCHANGED <<pc, attached, completer, reason, active, cur>>
    BY <1>6 DEF Initialized, turnVars, threadVars, eventVars
  <2>3. QED
    BY <2>1, <2>2 DEF Turning
<1>7. CASE SendThread
  <2>1. answer'["turn"] = answer["turn"]
    BY <1>7 DEF SendThread, AnswersTyped, Waiters, StartThread, ResumeThread, Send
  <2>2. UNCHANGED <<pc, attached, completer, reason, active, cur>>
    BY <1>7 DEF SendThread, turnVars, threadVars, eventVars
  <2>3. QED
    BY <2>1, <2>2 DEF Turning
<1>8. CASE ThreadReady
  BY <1>8
  DEF ThreadReady, Taken, AttachEnds, Attaching, PcTyped, turnVars, threadVars, eventVars,
      Turning, AnswersTyped, Waiters, Nothing
<1>9. CASE ThreadGone
  <2>1. answer'["turn"] = answer["turn"]
    BY <1>9 DEF ThreadGone, AnswersTyped, Waiters, Taken
  <2>2. UNCHANGED <<pc, attached, completer, reason, active, cur>>
    BY <1>9 DEF ThreadGone, turnVars, threadVars, eventVars
  <2>3. QED
    BY <2>1, <2>2 DEF Turning
<1>10. CASE AttachFails
  BY <1>10
  DEF AttachFails, Taken, AttachEnds, PcTyped, Attaching, turnVars, threadVars, eventVars,
      Turning, AnswersTyped, Waiters, Nothing
<1>11. CASE FoundOrphan
  <2>1. answer'["turn"] = answer["turn"]
    BY <1>11 DEF FoundOrphan, AnswersTyped, Waiters, Interrupt, AskInterrupt
  <2>2. UNCHANGED <<pc, attached, completer, reason, active, cur>>
    BY <1>11 DEF FoundOrphan, turnVars, threadVars, eventVars
  <2>3. QED
    BY <2>1, <2>2 DEF Turning
<1>12. CASE InterruptTaken
  <2>1. answer'["turn"] = answer["turn"]
    BY <1>12 DEF InterruptTaken, AnswersTyped, Waiters, Taken
  <2>2. UNCHANGED <<pc, attached, completer, reason, active, cur>>
    BY <1>12 DEF InterruptTaken, turnVars, threadVars, eventVars
  <2>3. QED
    BY <2>1, <2>2 DEF Turning
<1>13. CASE Retarget
  <2>1. answer'["turn"] = answer["turn"]
    BY <1>13 DEF Retarget, Taken, AskInterrupt, AnswersTyped, Waiters
  <2>2. active' # None => cur # 0
    <3>1. answer["interrupt"].is # "none"
      BY <1>13 DEF Retarget, Mismatched, Got
    <3>2. interrupting.mode = "public" => cur # 0
      BY <3>1 DEF Interrupting
    <3>3. QED
      BY <1>13, <3>2 DEF Retarget, Turning
  <2>3. \/ completer' = completer
        \/ completer.is = "open" /\ completer'.is \in {"completed", "interrupted"}
    <3>1. \A e \in interrupting.kept : e.how \in {"completed", "interrupted"}
      BY DEF EventsTyped, Pending
    <3>2. \/ completer' = completer
          \/ completer.is = "open" /\ \E e \in interrupting.kept : completer'.is = e.how
      BY <1>13 DEF Retarget, Closes
    <3>3. QED
      BY <3>1, <3>2
  <2>4. UNCHANGED <<pc, attached, reason, cur>>
    BY <1>13 DEF Retarget, turnVars, threadVars
  <2>5. QED
    BY <2>1, <2>2, <2>3, <2>4 DEF Turning, Nothing
<1>14. CASE InterruptOver
  BY <1>14
  DEF InterruptOver, InterruptEnds, AttachEnds, PcTyped, Attaching, turnVars, threadVars,
      eventVars, Turning, AnswersTyped, Waiters, Nothing
<1>15. CASE InterruptFails
  BY <1>15
  DEF InterruptFails, InterruptEnds, AttachEnds, PcTyped, Taken, Attaching, turnVars, threadVars,
      eventVars, Turning, AnswersTyped, Waiters, Nothing
<1>16. CASE Take
  <2>1. pc' \in {"attach", "send"} /\ (pc' = "send" => attached) /\ pc = "idle"
    BY <1>16 DEF Take
  <2>2. cur' # 0
    <3>1. queue \in Seq(Prompts) /\ queue # <<>> /\ cur' = Head(queue)
      BY <1>16 DEF Take, QueueTyped
    <3>2. Head(queue) \in Prompts
      BY <3>1
    <3>3. QED
      BY <3>1, <3>2, Names
  <2>3. UNCHANGED <<answer, attached, completer, active>>
    BY <1>16 DEF Take, threadVars
  <2>4. QED
    BY <2>1, <2>2, <2>3 DEF Turning, Nothing
<1>17. CASE SendTurn
  <2>1. answer'["turn"].is = "sent" /\ pc = "send" /\ pc' = "starting" /\ completer' = [is |-> "open", id |-> None]
    BY <1>17 DEF SendTurn, StartTurn, Send, AnswersTyped, Waiters
  <2>2. UNCHANGED <<attached, reason, active, cur>>
    BY <1>17 DEF SendTurn, threadVars
  <2>3. QED
    BY <2>1, <2>2 DEF Turning
<1>18. CASE Started
  <2>1. answer'["turn"] = Nothing /\ pc' = "running" /\ pc = "starting"
    BY <1>18 DEF Started, Taken, AnswersTyped, Waiters
  <2>2. UNCHANGED <<attached, reason, completer, cur>>
    BY <1>18 DEF Started, threadVars
  <2>3. cur # 0
    BY <2>1, Names DEF Lined
  <2>4. QED
    BY <2>1, <2>2, <2>3 DEF Turning
<1>19. CASE StartFails
  BY <1>19
  DEF StartFails, Taken, Got, turnVars, threadVars, eventVars, Turning, AnswersTyped, Waiters,
      Nothing
<1>20. CASE Settled
  BY <1>20
  DEF Settled, EventsTyped, Outcome, PcTyped, turnVars, threadVars, eventVars, Turning,
      AnswersTyped, Waiters, Nothing
<1>21. CASE Close
  BY <1>21
  DEF Close, End, turnVars, threadVars, eventVars, Turning, AnswersTyped, Waiters, Nothing
<1>22. CASE Rebuild
  <2>1. answer'["turn"].is = "sent" /\ pc = "close" /\ pc' = "rebuild" /\ reason = "rollout"
    BY <1>22 DEF Rebuild, StartThread, Send, AnswersTyped, Waiters, RolloutBroken
  <2>2. UNCHANGED <<attached, reason, completer, cur>> /\ active' = None
    BY <1>22 DEF Rebuild
  <2>3. QED
    BY <2>1, <2>2 DEF Turning
<1>23. CASE Rebuilt
  <2>1. answer'["turn"] = Nothing /\ pc' = "idle" /\ completer' = Nothing /\ active' = None
    BY <1>23 DEF Rebuilt, Taken, End, AnswersTyped, Waiters
  <2>2. QED
    BY <2>1 DEF Turning, Nothing
<1>24. CASE FailTurn
  BY <1>24
  DEF FailTurn, turnVars, threadVars, eventVars, Turning, AnswersTyped, Waiters, Nothing
<1>25. CASE WarmedUp
  <2>1. answer'["turn"] = answer["turn"]
    BY <1>25 DEF WarmedUp, AnswersTyped, Waiters, Taken
  <2>2. UNCHANGED <<pc, attached, completer, reason, active, cur>>
    BY <1>25 DEF WarmedUp, turnVars, threadVars, eventVars
  <2>3. QED
    BY <2>1, <2>2 DEF Turning
<1>26. CASE SendControl
  <2>1. answer'["turn"] = answer["turn"]
    BY <1>26 DEF SendControl, AnswersTyped, Waiters, Send
  <2>2. UNCHANGED <<pc, attached, completer, reason, active, cur>>
    BY <1>26 DEF SendControl, turnVars, threadVars, eventVars
  <2>3. QED
    BY <2>1, <2>2 DEF Turning
<1>27. CASE Controlled
  <2>1. answer'["turn"] = answer["turn"]
    BY <1>27 DEF Controlled, AnswersTyped, Waiters, Taken
  <2>2. UNCHANGED <<pc, attached, completer, reason, active, cur>>
    BY <1>27 DEF Controlled, turnVars, threadVars, eventVars
  <2>3. QED
    BY <2>1, <2>2 DEF Turning
<1>28. CASE \E s \in Prompts : Submit(s)
  BY <1>28, <1>1
  DEF Submit, turnVars, threadVars, eventVars
<1>29. ASSUME NEW w \in {"attach", "warm"}, Launch(w) PROVE Turning'
  <2>1. answer'["turn"] = answer["turn"]
    BY <1>29 DEF Launch, AnswersTyped, Waiters
  <2>2. UNCHANGED <<pc, attached, completer, reason, active, cur>>
    BY <1>29 DEF Launch, turnVars, threadVars, eventVars
  <2>3. QED
    BY <2>1, <2>2 DEF Turning
<1>30. ASSUME NEW w \in {"attach", "warm"}, LaunchFails(w) PROVE Turning'
  BY <1>30
  DEF LaunchFails, AttachEnds, PcTyped, Attaching, turnVars, threadVars, eventVars, Turning,
      AnswersTyped, Waiters, Nothing
<1>31. CASE Warmup \/ Control \/ ItemsDone
  BY <1>31, <1>1
  DEF Warmup, Control, ItemsDone, turnVars, threadVars, eventVars
<1>32. CASE WarmTimeout
  <2>1. LoseProcess /\ Quiet /\ UNCHANGED <<pc, cur>>
    BY <1>32 DEF WarmTimeout, ShutDown
  <2>2. completer' = IF completer.is = "open" THEN Failure ELSE completer
    BY <2>1 DEF LoseProcess
  <2>3. QED
    BY <2>1, <2>2, Losses DEF Turning, Nothing, Failure, Waiters
<1>33. CASE RolloutMissed
  <2>1. answer'["turn"] = answer["turn"] /\ (pc = "rebuild" => reason' = "rollout")
    BY <1>33 DEF RolloutMissed, AnswersTyped, Waiters, Interrupt, AskInterrupt, Turning
  <2>2. UNCHANGED <<pc, attached, completer, active, cur>>
    BY <1>33 DEF RolloutMissed, turnVars, threadVars
  <2>3. QED
    BY <2>1, <2>2 DEF Turning
<1>34. CASE Shutdown
  <2>1. LoseProcess /\ Quiet /\ UNCHANGED <<pc, cur>>
    BY <1>34 DEF Shutdown, ShutDown
  <2>2. completer' = IF completer.is = "open" THEN Failure ELSE completer
    BY <2>1 DEF LoseProcess
  <2>3. QED
    BY <2>1, <2>2, Losses DEF Turning, Nothing, Failure, Waiters
<1>35. ASSUME NEW source \in {"user", "system"}, Stop(source) PROVE Turning'
  <2>1. answer'["turn"] = answer["turn"] /\ (pc = "rebuild" => UNCHANGED reason)
    BY <1>35 DEF Stop, AnswersTyped, Waiters, Interrupt, AskInterrupt, Turning
  <2>2. UNCHANGED <<pc, attached, completer, active, cur>>
    BY <1>35 DEF Stop, turnVars, threadVars
  <2>3. QED
    BY <2>1, <2>2 DEF Turning
<1>36. CASE \E p \in Procs : Speak(p) \/ Finish(p) \/ GoalTurn(p) \/ Die(p)
  BY <1>36, <1>1
  DEF Speak, Finish, GoalTurn, Die, turnVars, threadVars, eventVars
<1>37. ASSUME NEW p \in Procs, Closed(p) PROVE Turning'
  <2>1. /\ LoseProcess \/ UNCHANGED <<attached, answer, completer, reason, active>>
        /\ Quiet /\ UNCHANGED <<pc, cur>>
    BY <1>37 DEF Closed, turnVars, threadVars, eventVars
  <2>2. CASE LoseProcess
    <3>1. completer' = IF completer.is = "open" THEN Failure ELSE completer
      BY <2>2 DEF LoseProcess
    <3>2. QED
      BY <2>1, <2>2, <3>1, Losses DEF Turning, Nothing, Failure, Waiters
  <2>3. QED
    BY <2>1, <2>2 DEF Turning
<1>38. CASE UNCHANGED vars
  BY <1>38, <1>1
  DEF vars, turnVars, threadVars, eventVars
<1>39. QED
  BY <1>2, <1>3, <1>4, <1>5, <1>6, <1>7, <1>8, <1>9, <1>10, <1>11, <1>12, <1>13, <1>14, <1>15,
     <1>16, <1>17, <1>18, <1>19, <1>20, <1>21, <1>22, <1>23, <1>24, <1>25, <1>26, <1>27, <1>28,
     <1>29, <1>30, <1>31, <1>32, <1>33, <1>34, <1>35, <1>36, <1>37, <1>38
  DEF Next, ReadStep, Continuation, Event

(* and the interrupt. *)
LEMMA InterruptingStep ==
  ASSUME Typed, Interrupting, Turning, Attaching, Came, Lined, [Next]_vars
  PROVE  Interrupting'
<1> USE DEF Typed
<1>1. UNCHANGED <<answer, cur, interrupting, proc>> => Interrupting'
  BY DEF Interrupting
<1>2. CASE \E p \in Procs : Ignore(p) \/ Output(p)
  BY <1>2, <1>1
  DEF Ignore, Output, Read, turnVars, eventVars
<1>3. ASSUME NEW p \in Procs, Answered(p) PROVE Interrupting'
  <2>1. answer'["interrupt"].is # "none" => answer["interrupt"].is # "none"
    BY <1>3 DEF Answered, Got, AnswersTyped, Waiters
  <2>2. QED
    BY <1>3, <2>1 DEF Answered, turnVars, eventVars, Interrupting
<1>4. ASSUME NEW p \in Procs, Ended(p) PROVE Interrupting'
  <2>1. First(p).id # None
    BY <1>4, LineRead, Names DEF Ended, Meant
  <2>2. interrupting'.target = interrupting.target /\ interrupting'.mode = interrupting.mode
    BY <1>4 DEF Ended, TurnEnded, EventsTyped, Pending
  <2>3. interrupting.target = None => interrupting' = interrupting
    <3>1. SUFFICES ASSUME interrupting.target = None PROVE interrupting' = interrupting
      OBVIOUS
    <3> DEFINE same == interrupting.target = First(p).id
    <3>2. interrupting' = [interrupting EXCEPT !.over = same]
      BY <1>4, <3>1 DEF Ended, TurnEnded
    <3>3. interrupting = NoInterrupt /\ same = FALSE
      BY <2>1, <3>1 DEF Interrupting
    <3> HIDE DEF same
    <3>4. NoInterrupt \in Pending /\ NoInterrupt.over = FALSE
      BY DEF NoInterrupt, Pending
    <3>5. \A f \in Pending : [f EXCEPT !.over = f.over] = f
      BY DEF Pending
    <3>6. QED
      BY <3>2, <3>3, <3>4, <3>5
  <2>4. QED
    BY <1>4, <2>2, <2>3 DEF Ended, turnVars, Interrupting
<1>5. CASE Initialized
  <2>1. answer'["interrupt"] = answer["interrupt"] /\ UNCHANGED <<interrupting, proc, cur>>
    BY <1>5 DEF Initialized, AnswersTyped, Waiters, eventVars, turnVars, Taken
  <2>2. QED
    BY <2>1 DEF Interrupting
<1>6. CASE SendThread
  <2>1. answer'["interrupt"] = answer["interrupt"] /\ UNCHANGED <<interrupting, proc, cur>>
    BY <1>6 DEF SendThread, AnswersTyped, Waiters, eventVars, turnVars, StartThread, ResumeThread, Send
  <2>2. QED
    BY <2>1 DEF Interrupting
<1>7. CASE ThreadReady
  <2>1. answer'["interrupt"] = answer["interrupt"] /\ UNCHANGED <<interrupting, proc, cur>>
    BY <1>7 DEF ThreadReady, AnswersTyped, Waiters, eventVars, turnVars, Taken
  <2>2. QED
    BY <2>1 DEF Interrupting
<1>8. CASE ThreadGone
  <2>1. answer'["interrupt"] = answer["interrupt"] /\ UNCHANGED <<interrupting, proc, cur>>
    BY <1>8 DEF ThreadGone, AnswersTyped, Waiters, eventVars, turnVars, Taken
  <2>2. QED
    BY <2>1 DEF Interrupting
<1>9. CASE AttachFails
  <2>1. answer'["interrupt"] = answer["interrupt"] /\ UNCHANGED <<interrupting, proc, cur>>
    BY <1>9 DEF AttachFails, AnswersTyped, Waiters, eventVars, turnVars, Taken
  <2>2. QED
    BY <2>1 DEF Interrupting
<1>10. CASE FoundOrphan
  <2>1. answer["attach"].is = "orphan" /\ answer["attach"].id = Goal /\ Goal # None /\ proc # None
    BY <1>10, Names DEF FoundOrphan, Got, AnswersTyped, Came, Waiters
  <2>2. CASE interrupting = NoInterrupt
    <3>1. interrupting' = [NoInterrupt EXCEPT !.target = Goal, !.mode = "orphan"]
      BY <1>10, <2>1, <2>2 DEF FoundOrphan, Interrupt
    <3>2. interrupting'.target = Goal /\ interrupting'.mode = "orphan"
      BY <3>1 DEF NoInterrupt
    <3>3. QED
      BY <1>10, <2>1, <3>2 DEF FoundOrphan, Interrupting
  <2>3. CASE interrupting # NoInterrupt
    BY <1>10, <2>3 DEF FoundOrphan, Interrupt, Interrupting, AnswersTyped, Waiters, turnVars
  <2>4. QED
    BY <2>2, <2>3
<1>11. CASE InterruptTaken
  BY <1>11
  DEF InterruptTaken, Taken, Nothing, turnVars, eventVars, Interrupting, AnswersTyped, Waiters
<1>12. CASE Retarget
  <2>1. answer["interrupt"].id # None /\ interrupting.target # None
    BY <1>12, Names DEF Retarget, Mismatched, Got, AnswersTyped, Interrupting
  <2>2. interrupting'.target # None /\ interrupting'.mode = interrupting.mode
    BY <1>12, <2>1 DEF Retarget, EventsTyped, Pending
  <2>3. QED
    BY <1>12, <2>1, <2>2 DEF Retarget, turnVars, Interrupting
<1>13. CASE Settled
  BY <1>13, <1>1
  DEF Settled, turnVars, eventVars
<1>14. CASE InterruptOver
  BY <1>14
  DEF InterruptOver, InterruptEnds, NoInterrupt, Got, turnVars, eventVars, Interrupting,
      AnswersTyped, Waiters
<1>15. CASE InterruptFails
  BY <1>15
  DEF InterruptFails, InterruptEnds, NoInterrupt, Taken, Nothing, turnVars, eventVars,
      Interrupting, AnswersTyped, Waiters
<1>16. CASE Take
  <2>1. cur' # 0
    <3>1. queue \in Seq(Prompts) /\ queue # <<>> /\ cur' = Head(queue)
      BY <1>16 DEF Take, QueueTyped
    <3>2. Head(queue) \in Prompts
      BY <3>1
    <3>3. QED
      BY <3>1, <3>2, Names
  <2>2. QED
    BY <1>16, <2>1 DEF Take, Interrupting
<1>17. CASE SendTurn
  <2>1. answer'["interrupt"] = answer["interrupt"] /\ UNCHANGED <<interrupting, proc, cur>>
    BY <1>17 DEF SendTurn, AnswersTyped, Waiters, eventVars, turnVars, StartTurn, Send
  <2>2. QED
    BY <2>1 DEF Interrupting
<1>18. CASE Started
  <2>1. answer'["interrupt"] = answer["interrupt"] /\ UNCHANGED <<interrupting, proc, cur>>
    BY <1>18 DEF Started, AnswersTyped, Waiters, eventVars, turnVars, Taken
  <2>2. QED
    BY <2>1 DEF Interrupting
<1>19. CASE StartFails
  <2>1. answer'["interrupt"] = answer["interrupt"] /\ UNCHANGED <<interrupting, proc, cur>>
    BY <1>19 DEF StartFails, AnswersTyped, Waiters, eventVars, turnVars, Taken
  <2>2. QED
    BY <2>1 DEF Interrupting
<1>20. CASE Close \/ FailTurn
  BY <1>20, <1>1
  DEF Close, FailTurn, turnVars, eventVars
<1>21. CASE Rebuild
  <2>1. answer'["interrupt"] = answer["interrupt"] /\ UNCHANGED <<interrupting, proc, cur>>
    BY <1>21 DEF Rebuild, AnswersTyped, Waiters, eventVars, turnVars, StartThread, Send
  <2>2. QED
    BY <2>1 DEF Interrupting
<1>22. CASE Rebuilt
  <2>1. answer'["interrupt"] = answer["interrupt"] /\ UNCHANGED <<interrupting, proc, cur>>
    BY <1>22 DEF Rebuilt, AnswersTyped, Waiters, eventVars, turnVars, Taken
  <2>2. QED
    BY <2>1 DEF Interrupting
<1>23. CASE WarmedUp
  <2>1. answer'["interrupt"] = answer["interrupt"] /\ UNCHANGED <<interrupting, proc, cur>>
    BY <1>23 DEF WarmedUp, AnswersTyped, Waiters, eventVars, turnVars, Taken
  <2>2. QED
    BY <2>1 DEF Interrupting
<1>24. CASE SendControl
  <2>1. answer'["interrupt"] = answer["interrupt"] /\ UNCHANGED <<interrupting, proc, cur>>
    BY <1>24 DEF SendControl, AnswersTyped, Waiters, eventVars, turnVars, Send
  <2>2. QED
    BY <2>1 DEF Interrupting
<1>25. CASE Controlled
  <2>1. answer'["interrupt"] = answer["interrupt"] /\ UNCHANGED <<interrupting, proc, cur>>
    BY <1>25 DEF Controlled, AnswersTyped, Waiters, eventVars, turnVars, Taken
  <2>2. QED
    BY <2>1 DEF Interrupting
<1>26. CASE \E s \in Prompts : Submit(s)
  BY <1>26, <1>1
  DEF Submit, turnVars, eventVars
<1>27. CASE \E w \in {"attach", "warm"} : LaunchFails(w)
  BY <1>27, <1>1
  DEF LaunchFails, turnVars, eventVars
<1>28. ASSUME NEW w \in {"attach", "warm"}, Launch(w) PROVE Interrupting'
  <2>1. proc' # None /\ answer' = [answer EXCEPT ![w] = [is |-> "sent", id |-> proc']]
    BY <1>28, Launched, Names
  <2>2. QED
    BY <1>28, <2>1 DEF Launch, eventVars, turnVars, Interrupting, AnswersTyped, Waiters
<1>29. CASE Warmup \/ Control \/ ItemsDone
  BY <1>29, <1>1
  DEF Warmup, Control, ItemsDone, turnVars, eventVars
<1>30. CASE WarmTimeout
  <2>1. LoseProcess /\ Quiet
    BY <1>30 DEF WarmTimeout, ShutDown
  <2>2. QED
    BY <2>1, Losses DEF Interrupting, NoInterrupt, Nothing
<1>31. CASE RolloutMissed
  <2>1. active \in Turns /\ active # None /\ proc # None /\ cur # 0
    BY <1>31 DEF RolloutMissed, EventsTyped, Turning
  <2>2. CASE interrupting = NoInterrupt
    <3>1. interrupting' = [NoInterrupt EXCEPT !.target = active, !.mode = "public"]
      BY <1>31, <2>2 DEF RolloutMissed, Interrupt
    <3>2. interrupting'.target = active
      BY <3>1 DEF NoInterrupt
    <3>3. QED
      BY <1>31, <2>1, <3>2 DEF RolloutMissed, turnVars, Interrupting
  <2>3. CASE interrupting # NoInterrupt
    BY <1>31, <2>3 DEF RolloutMissed, Interrupt, Interrupting, turnVars
  <2>4. QED
    BY <2>2, <2>3
<1>32. CASE Shutdown
  <2>1. LoseProcess /\ Quiet
    BY <1>32 DEF Shutdown, ShutDown
  <2>2. QED
    BY <2>1, Losses DEF Interrupting, NoInterrupt, Nothing
<1>33. ASSUME NEW source \in {"user", "system"}, Stop(source) PROVE Interrupting'
  <2>1. active \in Turns /\ active # None /\ proc # None /\ cur # 0
    BY <1>33 DEF Stop, EventsTyped, Turning
  <2>2. CASE interrupting = NoInterrupt
    <3>1. interrupting' = [NoInterrupt EXCEPT !.target = active, !.mode = "public"]
      BY <1>33, <2>2 DEF Stop, Interrupt
    <3>2. interrupting'.target = active
      BY <3>1 DEF NoInterrupt
    <3>3. QED
      BY <1>33, <2>1, <3>2 DEF Stop, turnVars, Interrupting
  <2>3. CASE interrupting # NoInterrupt
    BY <1>33, <2>3 DEF Stop, Interrupt, Interrupting, turnVars
  <2>4. QED
    BY <2>2, <2>3
<1>34. CASE \E p \in Procs : Speak(p) \/ Finish(p) \/ GoalTurn(p) \/ Die(p)
  BY <1>34, <1>1
  DEF Speak, Finish, GoalTurn, Die, turnVars, eventVars
<1>35. ASSUME NEW p \in Procs, Closed(p) PROVE Interrupting'
  <2>1. (LoseProcess \/ UNCHANGED <<proc, answer, interrupting>>) /\ Quiet /\ UNCHANGED cur
    BY <1>35 DEF Closed, turnVars, eventVars
  <2>2. CASE LoseProcess
    BY <2>1, <2>2, Losses DEF Interrupting, NoInterrupt, Nothing
  <2>3. QED
    BY <2>1, <2>2 DEF Interrupting
<1>36. CASE UNCHANGED vars
  BY <1>36, <1>1
  DEF vars, turnVars, eventVars
<1>37. QED
  BY <1>2, <1>3, <1>4, <1>5, <1>6, <1>7, <1>8, <1>9, <1>10, <1>11, <1>12, <1>13, <1>14, <1>15,
     <1>16, <1>17, <1>18, <1>19, <1>20, <1>21, <1>22, <1>23, <1>24, <1>25, <1>26, <1>27, <1>28,
     <1>29, <1>30, <1>31, <1>32, <1>33, <1>34, <1>35, <1>36
  DEF Next, ReadStep, Continuation, Event

(* Every step keeps who answers: the process that there is, *)
LEMMA CameStep ==
  ASSUME Typed, Came, Attaching, Calling, Turning, Interrupting, [Next]_vars
  PROVE  Came'
<1> USE DEF Typed
<1>1. UNCHANGED <<answer, pc, proc>> => Came'
  BY DEF Came
<1>2. CASE \E p \in Procs : Ignore(p) \/ Output(p) \/ Ended(p)
  BY <1>2, <1>1
  DEF Ignore, Output, Ended, Read, turnVars
<1>3. ASSUME NEW p \in Procs, Answered(p) PROVE Came'
  <2>1. First(p).is \notin {"none", "sent", "failed"} /\ proc # None
    BY <1>3, LineRead, Names DEF Answered, Reads, Message, Kinds
  <2>2. \A w \in Waiters : answer'[w] = answer[w] \/ answer'[w].is = First(p).is
    BY <1>3 DEF Answered, AnswersTyped
  <2>3. UNCHANGED <<proc, pc>>
    BY <1>3 DEF Answered, turnVars
  <2>4. QED
    BY <2>1, <2>2, <2>3 DEF Came
<1>4. CASE Initialized
  BY <1>4
  DEF Initialized, Came, AnswersTyped, Waiters, Taken, Nothing, turnVars, Came
<1>5. CASE SendThread
  BY <1>5
  DEF SendThread, Came, AnswersTyped, Waiters, Send, StartThread, ResumeThread, Attaching,
      turnVars, Came
<1>6. CASE ThreadReady
  BY <1>6
  DEF ThreadReady, Came, AnswersTyped, Waiters, Taken, Nothing, AttachEnds, turnVars, Came
<1>7. CASE ThreadGone
  BY <1>7
  DEF ThreadGone, Came, AnswersTyped, Waiters, Taken, Nothing, turnVars, Came
<1>8. CASE AttachFails
  BY <1>8
  DEF AttachFails, Came, AnswersTyped, Waiters, Taken, Nothing, AttachEnds, turnVars, Came
<1>9. CASE FoundOrphan
  BY <1>9
  DEF FoundOrphan, Came, AnswersTyped, Waiters, Got, Nothing, Interrupt, AskInterrupt, turnVars,
      Came
<1>10. CASE InterruptTaken
  BY <1>10
  DEF InterruptTaken, Came, AnswersTyped, Waiters, Taken, Nothing, turnVars, Came
<1>11. CASE Retarget
  <2>1. proc # None
    BY <1>11 DEF Retarget, Mismatched, Got, Came, Waiters
  <2>2. \A w \in Waiters : answer'[w] = answer[w] \/ answer'[w] = Nothing
                           \/ answer'[w] = [is |-> "sent", id |-> proc]
    BY <1>11 DEF Retarget, Taken, AskInterrupt, AnswersTyped
  <2>3. UNCHANGED <<proc, pc>>
    BY <1>11 DEF Retarget, turnVars
  <2>4. QED
    BY <2>1, <2>2, <2>3 DEF Came, Nothing
<1>12. CASE InterruptOver
  BY <1>12
  DEF InterruptOver, InterruptEnds, AttachEnds, Came, turnVars, Came
<1>13. CASE InterruptFails
  BY <1>13
  DEF InterruptFails, InterruptEnds, Came, AnswersTyped, Waiters, Taken, Nothing, AttachEnds,
      turnVars, Came
<1>14. CASE Take
  BY <1>14
  DEF Take, Came, turnVars, Came
<1>15. CASE SendTurn
  BY <1>15
  DEF SendTurn, Came, AnswersTyped, Waiters, Send, StartTurn, Attaching, Turning, turnVars, Came
<1>16. CASE Started
  BY <1>16
  DEF Started, Came, AnswersTyped, Waiters, Taken, Nothing, turnVars, Came
<1>17. CASE StartFails
  BY <1>17
  DEF StartFails, Came, AnswersTyped, Waiters, Taken, Nothing, turnVars, Came
<1>18. CASE Settled
  BY <1>18
  DEF Settled, Came, turnVars, Came
<1>19. CASE Close
  BY <1>19
  DEF Close, End, Came, turnVars, Came
<1>20. CASE Rebuild
  BY <1>20
  DEF Rebuild, Came, AnswersTyped, Waiters, Send, StartThread, turnVars, Came
<1>21. CASE Rebuilt
  BY <1>21
  DEF Rebuilt, Came, AnswersTyped, Waiters, Taken, Nothing, turnVars, Came
<1>22. CASE FailTurn
  BY <1>22
  DEF FailTurn, Came, turnVars, Came
<1>23. CASE WarmedUp
  BY <1>23
  DEF WarmedUp, Came, AnswersTyped, Waiters, Taken, Nothing, turnVars, Came
<1>24. CASE SendControl
  BY <1>24
  DEF SendControl, Came, AnswersTyped, Waiters, Send, Calling, turnVars, Came
<1>25. CASE Controlled
  BY <1>25
  DEF Controlled, Came, AnswersTyped, Waiters, Taken, Nothing, turnVars, Came
<1>26. CASE \E s \in Prompts : Submit(s)
  BY <1>26, <1>1
  DEF Submit, turnVars
<1>27. ASSUME NEW w \in {"attach", "warm"}, Launch(w) PROVE Came'
  <2>1. proc' # None /\ answer' = [answer EXCEPT ![w] = [is |-> "sent", id |-> proc']]
    BY <1>27, Launched, Names
  <2>2. \A v \in Waiters : answer[v].is \in {"none", "sent"}
    BY <1>27 DEF Launch, Quiet, Ready
  <2>3. UNCHANGED pc /\ w \in Waiters
    BY <1>27 DEF Launch, turnVars, Waiters
  <2>4. QED
    BY <2>1, <2>2, <2>3 DEF Came, AnswersTyped
<1>28. ASSUME NEW w \in {"attach", "warm"}, LaunchFails(w) PROVE Came'
  BY <1>28
  DEF LaunchFails, AttachEnds, Came, turnVars, Came
<1>29. CASE Warmup \/ Control \/ ItemsDone
  BY <1>29, <1>1
  DEF Warmup, Control, ItemsDone, turnVars
<1>30. CASE WarmTimeout
  <2>1. LoseProcess /\ Quiet
    BY <1>30 DEF WarmTimeout, ShutDown
  <2>2. \A w \in Waiters : answer'[w].is \in {"none", "failed"}
    BY <2>1, Losses DEF Waiters, Nothing, Failure
  <2>3. QED
    BY <2>1, <2>2, Losses DEF Came
<1>31. CASE RolloutMissed
  <2>1. proc # None
    BY <1>31 DEF RolloutMissed
  <2>2. \A w \in Waiters : answer'[w] = answer[w] \/ answer'[w] = [is |-> "sent", id |-> proc]
    BY <1>31 DEF RolloutMissed, Interrupt, AskInterrupt, AnswersTyped
  <2>3. UNCHANGED <<proc, pc>>
    BY <1>31 DEF RolloutMissed, turnVars
  <2>4. QED
    BY <2>1, <2>2, <2>3 DEF Came
<1>32. CASE Shutdown
  <2>1. LoseProcess /\ Quiet
    BY <1>32 DEF Shutdown, ShutDown
  <2>2. \A w \in Waiters : answer'[w].is \in {"none", "failed"}
    BY <2>1, Losses DEF Waiters, Nothing, Failure
  <2>3. QED
    BY <2>1, <2>2, Losses DEF Came
<1>33. ASSUME NEW source \in {"user", "system"}, Stop(source) PROVE Came'
  <2>1. proc # None
    BY <1>33 DEF Stop
  <2>2. \A w \in Waiters : answer'[w] = answer[w] \/ answer'[w] = [is |-> "sent", id |-> proc]
    BY <1>33 DEF Stop, Interrupt, AskInterrupt, AnswersTyped
  <2>3. UNCHANGED <<proc, pc>>
    BY <1>33 DEF Stop, turnVars
  <2>4. QED
    BY <2>1, <2>2, <2>3 DEF Came
<1>34. CASE \E p \in Procs : Speak(p) \/ Finish(p) \/ GoalTurn(p) \/ Die(p)
  BY <1>34, <1>1
  DEF Speak, Finish, GoalTurn, Die, turnVars
<1>35. ASSUME NEW p \in Procs, Closed(p) PROVE Came'
  <2>1. (LoseProcess \/ UNCHANGED <<proc, answer>>) /\ Quiet /\ UNCHANGED pc
    BY <1>35 DEF Closed, turnVars
  <2>2. CASE LoseProcess
    <3>1. \A w \in Waiters : answer'[w].is \in {"none", "failed"}
      BY <2>1, <2>2, Losses DEF Waiters, Nothing, Failure
    <3>2. QED
      BY <2>1, <2>2, <3>1, Losses DEF Came
  <2>3. QED
    BY <2>1, <2>2 DEF Came
<1>36. CASE UNCHANGED vars
  BY <1>36, <1>1
  DEF vars, turnVars
<1>37. QED
  BY <1>2, <1>3, <1>4, <1>5, <1>6, <1>7, <1>8, <1>9, <1>10, <1>11, <1>12, <1>13, <1>14, <1>15,
     <1>16, <1>17, <1>18, <1>19, <1>20, <1>21, <1>22, <1>23, <1>24, <1>25, <1>26, <1>27, <1>28,
     <1>29, <1>30, <1>31, <1>32, <1>33, <1>34, <1>35, <1>36
  DEF Next, ReadStep, Continuation, Event

(* Every line is for a waiter or of the thread. *)
LEMMA LineTo ==
  ASSUME Typed, NEW p \in Procs, NEW k \in DOMAIN out[p]
  PROVE  out[p][k].to \in Waiters \cup {"thread"} /\ out[p][k].is \in Kinds /\ Meant(out[p][k])
<1>1. out[p] \in Seq(Message) /\ Meant(out[p][k])
  BY DEF Typed, LinesTyped
<1>2. out[p][k] \in Message
  BY <1>1
<1>3. QED
  BY <1>1, <1>2 DEF Message

(* What an interrupt has put out is its answer and the end of a turn. *)
LEMMA InterruptPuts ==
  ASSUME Typed, proc \in Procs, NEW t \in Turns, NEW answers, AskInterrupt(t, answers)
  PROVE  \A k \in DOMAIN out'[proc] :
           \/ k \in DOMAIN out[proc] /\ out'[proc][k] = out[proc][k]
           \/ out'[proc][k].to \in {"interrupt", "thread"}
<1>1. CASE UNCHANGED out
  BY <1>1
<1>2. CASE \E l, m \in Lines :
             /\ PutsBoth(proc, l, m)
             /\ {l, m} = {Line("interrupt", "ok", None), Line("thread", "interrupted", t)}
  <2>1. PICK l \in Lines, m \in Lines :
          /\ PutsBoth(proc, l, m)
          /\ {l, m} = {Line("interrupt", "ok", None), Line("thread", "interrupted", t)}
    BY <1>2
  <2>2. l \in Message /\ Meant(l) /\ m \in Message /\ Meant(m)
    BY DEF Lines
  <2>3. l.to \in {"interrupt", "thread"} /\ m.to \in {"interrupt", "thread"}
    BY <2>1 DEF Line
  <2>4. LinesTyped
    BY DEF Typed
  <2>5. \A k \in DOMAIN out'[proc] :
          \/ k \in DOMAIN out[proc] /\ out'[proc][k] = out[proc][k]
          \/ out'[proc][k] = l \/ out'[proc][k] = m
    BY <2>1, <2>2, <2>4, PairPut
  <2>6. QED
    BY <2>3, <2>5
<1>3. CASE \E l \in Lines : Puts(proc, l) /\ l.to = "interrupt"
  BY <1>3, LinePut DEF Lines, Typed
<1>4. QED
  BY <1>1, <1>2, <1>3, InterruptSays

(* that each waiter is answered once: when nothing is put out, *)
LEMMA AskedKept ==
  ASSUME Typed, Asked, proc' \in {proc, None},
         proc # None => /\ \A w \in Waiters : answer[w].is = "sent" => answer'[w] = answer[w]
                        /\ \A k \in DOMAIN out'[proc] : k \in DOMAIN out[proc] /\ out'[proc][k] = out[proc][k]
  PROVE  Asked'
<1>1. CASE proc' = None
  BY <1>1 DEF Asked
<1>2. CASE proc' = proc /\ proc # None
  <2>1. proc \in Procs /\ \A k \in DOMAIN out[proc] : out[proc][k].to \in Waiters \cup {"thread"}
    BY <1>2, LineTo DEF Typed, NamesTyped
  <2>2. ASSUME NEW k \in DOMAIN out'[proc], out'[proc][k].to # "thread"
        PROVE  /\ answer'[out'[proc][k].to] = [is |-> "sent", id |-> proc]
               /\ \A j \in DOMAIN out'[proc] : out'[proc][j].to = out'[proc][k].to => j = k
    <3>1. k \in DOMAIN out[proc] /\ out'[proc][k] = out[proc][k] /\ out[proc][k].to \in Waiters
      BY <1>2, <2>1, <2>2
    <3>2. answer[out[proc][k].to] = [is |-> "sent", id |-> proc] /\ answer[out[proc][k].to].is = "sent"
      BY <1>2, <2>2, <3>1 DEF Asked
    <3>3. answer'[out[proc][k].to] = [is |-> "sent", id |-> proc]
      BY <1>2, <3>1, <3>2
    <3>4. \A j \in DOMAIN out'[proc] : out'[proc][j].to = out'[proc][k].to => j = k
      BY <1>2, <2>2, <3>1 DEF Asked
    <3>5. QED
      BY <3>1, <3>3, <3>4
  <2>3. QED
    BY <1>2, <2>2 DEF Asked
<1>3. QED
  BY <1>1, <1>2

(* when a line is read, *)
LEMMA AskedRead ==
  ASSUME Typed, Asked, NEW p \in Procs, Read(p), UNCHANGED proc,
         \/ p # proc /\ UNCHANGED answer
         \/ p = proc /\ \A w \in Waiters \ {First(p).to} : answer'[w] = answer[w]
  PROVE  Asked'
<1>1. /\ \A q \in Procs \ {p} : out'[q] = out[q]
      /\ 1 \in DOMAIN out[p] /\ First(p) = out[p][1]
      /\ \A k \in DOMAIN out'[p] :
           k + 1 \in DOMAIN out[p] /\ k + 1 # 1 /\ k \in Nat /\ out'[p][k] = out[p][k + 1]
  BY LineRead DEF Typed
<1>2. CASE p # proc \/ proc = None
  <2>1. proc # None => proc \in Procs /\ out'[proc] = out[proc] /\ UNCHANGED answer
    BY <1>1, <1>2, Names DEF Typed, NamesTyped
  <2>2. QED
    BY <2>1, AskedKept
<1>3. CASE p = proc /\ proc # None
  <2>1. \A k \in DOMAIN out[p] : out[p][k].to \in Waiters \cup {"thread"}
    BY LineTo
  <2>2. ASSUME NEW k \in DOMAIN out'[p], out'[p][k].to # "thread"
        PROVE  /\ answer'[out'[p][k].to] = [is |-> "sent", id |-> proc]
               /\ \A j \in DOMAIN out'[p] : out'[p][j].to = out'[p][k].to => j = k
    <3>1. k + 1 \in DOMAIN out[p] /\ k + 1 # 1 /\ k \in Nat /\ out'[p][k] = out[p][k + 1]
      BY <1>1, <2>2
    <3>2. /\ answer[out[p][k + 1].to] = [is |-> "sent", id |-> proc]
          /\ \A j \in DOMAIN out[p] : out[p][j].to = out[p][k + 1].to => j = k + 1
      BY <1>3, <2>2, <3>1 DEF Asked
    <3>3. First(p).to # out[p][k + 1].to /\ out[p][k + 1].to \in Waiters
      BY <1>1, <2>1, <2>2, <3>1, <3>2
    <3>4. \A j \in DOMAIN out'[p] : out'[p][j].to = out'[p][k].to => j = k
      <4>1. ASSUME NEW j \in DOMAIN out'[p], out'[p][j].to = out'[p][k].to PROVE j = k
        <5>1. j + 1 \in DOMAIN out[p] /\ j \in Nat /\ out'[p][j] = out[p][j + 1]
          BY <1>1
        <5>2. j + 1 = k + 1
          BY <3>1, <3>2, <4>1, <5>1
        <5>3. QED
          BY <3>1, <5>1, <5>2
      <4>2. QED
        BY <4>1
    <3>5. QED
      BY <1>3, <3>1, <3>2, <3>3, <3>4
  <2>3. QED
    BY <1>3, <2>2 DEF Asked
<1>4. QED
  BY <1>2, <1>3

(* when something else is put out, *)
LEMMA AskedBeside ==
  ASSUME Typed, Asked, NEW p \in Procs, NEW l \in Lines, Puts(p, l), l.to = "thread",
         UNCHANGED <<proc, answer>>
  PROVE  Asked'
<1>1. /\ \A q \in Procs \ {p} : out'[q] = out[q]
      /\ \A k \in DOMAIN out'[p] : \/ k \in DOMAIN out[p] /\ out'[p][k] = out[p][k]
                                   \/ k = Len(out[p]) + 1 /\ out'[p][k] = l
  BY LinePut DEF Lines, Typed
<1>2. CASE proc # None
  <2>1. proc \in Procs
    BY <1>2 DEF Typed, NamesTyped
  <2>2. \A k \in DOMAIN out'[proc] :
          \/ k \in DOMAIN out[proc] /\ out'[proc][k] = out[proc][k]
          \/ out'[proc][k].to = "thread"
    BY <1>1, <2>1
  <2>3. QED
    BY <1>2, <2>2 DEF Asked
<1>3. QED
  BY <1>2 DEF Asked

(* and when somebody asks. *)
LEMMA AskedMore ==
  ASSUME Typed, Asked, NEW w \in Waiters, Answering(w), answer[w].is # "sent", UNCHANGED proc,
         UNCHANGED out \/ (proc \in Procs /\ \E l \in Lines : Puts(proc, l) /\ l.to = w)
  PROVE  Asked'
<1>1. CASE proc # None
  <2>1. proc \in Procs /\ answer \in [Waiters -> Reply]
    BY <1>1 DEF Typed, NamesTyped, AnswersTyped
  <2>2. \A v \in Waiters : answer'[v] = IF v = w THEN [is |-> "sent", id |-> proc] ELSE answer[v]
    BY <2>1 DEF Answering
  <2>3. [is |-> "sent", id |-> proc].is = "sent"
    OBVIOUS
  <2>4. \A k \in DOMAIN out[proc] : out[proc][k].to # w /\ (out[proc][k].to = "thread" \/ out[proc][k].to \in Waiters)
    <3>1. ASSUME NEW k \in DOMAIN out[proc], out[proc][k].to = w PROVE FALSE
      <4>1. w # "thread"
        BY DEF Waiters
      <4>2. answer[w] = [is |-> "sent", id |-> proc]
        BY <1>1, <3>1, <4>1 DEF Asked
      <4>3. QED
        BY <2>3, <4>2
    <3>2. \A k \in DOMAIN out[proc] : out[proc][k] \in Message
      BY <2>1 DEF Typed, LinesTyped
    <3>3. QED
      BY <3>1, <3>2 DEF Message
  <2>5. CASE UNCHANGED out
    BY <1>1, <2>2, <2>4, <2>5 DEF Asked
  <2>6. CASE \E l \in Lines : Puts(proc, l) /\ l.to = w
    <3>1. PICK l \in Lines : Puts(proc, l) /\ l.to = w
      BY <2>6
    <3>2. /\ \A k \in DOMAIN out'[proc] : \/ k \in DOMAIN out[proc] /\ out'[proc][k] = out[proc][k]
                                          \/ k = Len(out[proc]) + 1 /\ out'[proc][k] = l
      BY <2>1, <3>1, LinePut DEF Lines, Typed
    <3>3. ASSUME NEW k \in DOMAIN out'[proc], out'[proc][k].to # "thread"
          PROVE  /\ answer'[out'[proc][k].to] = [is |-> "sent", id |-> proc]
                 /\ \A j \in DOMAIN out'[proc] : out'[proc][j].to = out'[proc][k].to => j = k
      <4>1. CASE k \in DOMAIN out[proc] /\ out'[proc][k] = out[proc][k]
        <5>1. out[proc][k].to # w /\ out[proc][k].to \in Waiters
          BY <2>4, <3>3, <4>1
        <5>2. /\ answer[out[proc][k].to] = [is |-> "sent", id |-> proc]
              /\ \A j \in DOMAIN out[proc] : out[proc][j].to = out[proc][k].to => j = k
          BY <1>1, <3>3, <4>1 DEF Asked
        <5>3. answer'[out[proc][k].to] = [is |-> "sent", id |-> proc]
          BY <2>2, <5>1, <5>2
        <5>4. \A j \in DOMAIN out'[proc] : out'[proc][j].to = out'[proc][k].to => j = k
          BY <3>1, <3>2, <4>1, <5>1, <5>2
        <5>5. QED
          BY <4>1, <5>3, <5>4
      <4>2. CASE k = Len(out[proc]) + 1 /\ out'[proc][k] = l
        <5>1. answer'[out'[proc][k].to] = [is |-> "sent", id |-> proc]
          BY <2>2, <3>1, <4>2
        <5>2. \A j \in DOMAIN out'[proc] : out'[proc][j].to = out'[proc][k].to => j = k
          BY <2>4, <3>1, <3>2, <4>2
        <5>3. QED
          BY <5>1, <5>2
      <4>3. QED
        BY <3>2, <3>3, <4>1, <4>2
    <3>4. QED
      BY <1>1, <3>3 DEF Asked
  <2>7. QED
    BY <2>5, <2>6
<1>2. QED
  BY <1>1 DEF Asked

(* or for an interrupt. *)
LEMMA AskedInterrupt ==
  ASSUME Typed, Asked, NEW t \in Turns, NEW answers,
         \/ answers = answer
         \/ answers = [answer EXCEPT !["attach"] = Nothing] /\ answer["attach"].is # "sent",
         answer["interrupt"].is # "sent", UNCHANGED proc, AskInterrupt(t, answers)
  PROVE  Asked'
<1>1. CASE proc # None
  <2>1. proc \in Procs /\ answer \in [Waiters -> Reply]
    BY <1>1 DEF Typed, NamesTyped, AnswersTyped
  <2>2. answer' = [answers EXCEPT !["interrupt"] = [is |-> "sent", id |-> proc]]
    BY InterruptSays
  <2>3. /\ answer'["interrupt"] = [is |-> "sent", id |-> proc]
        /\ \A v \in Waiters \ {"interrupt"} :
             answer[v] = [is |-> "sent", id |-> proc] => answer'[v] = [is |-> "sent", id |-> proc]
    BY <2>1, <2>2 DEF Waiters
  <2>4. \A k \in DOMAIN out[proc] : out[proc][k].to \in Waiters \cup {"thread"} /\ out[proc][k].to # "interrupt"
    <3>1. \A k \in DOMAIN out[proc] : out[proc][k].to \in Waiters \cup {"thread"}
      BY <2>1, LineTo
    <3>2. [is |-> "sent", id |-> proc].is = "sent"
      OBVIOUS
    <3>3. QED
      BY <1>1, <3>1, <3>2 DEF Asked
  <2>5. \A k \in DOMAIN out'[proc] :
          \/ k \in DOMAIN out[proc] /\ out'[proc][k] = out[proc][k]
          \/ out'[proc][k].to \in {"interrupt", "thread"}
    BY <2>1, InterruptPuts
  <2>6. \A j, k \in DOMAIN out'[proc] :
          out'[proc][j].to = "interrupt" /\ out'[proc][k].to = "interrupt" => j = k
    <3>1. CASE UNCHANGED out
      BY <2>4, <3>1
    <3>2. CASE \E l, m \in Lines :
                 /\ PutsBoth(proc, l, m)
                 /\ {l, m} = {Line("interrupt", "ok", None), Line("thread", "interrupted", t)}
      <4>1. PICK l \in Lines, m \in Lines :
              /\ PutsBoth(proc, l, m)
              /\ {l, m} = {Line("interrupt", "ok", None), Line("thread", "interrupted", t)}
        BY <3>2
      <4>2. l \in Message /\ Meant(l) /\ m \in Message /\ Meant(m)
        BY DEF Lines
      <4>3. l.to # "interrupt" \/ m.to # "interrupt"
        <5>1. l = Line("thread", "interrupted", t) \/ m = Line("thread", "interrupted", t)
          BY <4>1
        <5>2. Line("thread", "interrupted", t).to = "thread"
          BY DEF Line
        <5>3. QED
          BY <5>1, <5>2
      <4>4. LinesTyped
        BY DEF Typed
      <4>5. \A k \in DOMAIN out'[proc] :
              \/ k \in DOMAIN out[proc] /\ out'[proc][k] = out[proc][k]
              \/ k = Len(out[proc]) + 1 /\ out'[proc][k] = l
              \/ k = Len(out[proc]) + 2 /\ out'[proc][k] = m
        BY <2>1, <4>1, <4>2, <4>4, PairPut
      <4>6. QED
        BY <2>4, <4>3, <4>5
    <3>3. CASE \E l \in Lines : Puts(proc, l) /\ l.to = "interrupt"
      <4>1. \A k \in DOMAIN out'[proc] :
              \/ k \in DOMAIN out[proc] /\ out'[proc][k] = out[proc][k]
              \/ k = Len(out[proc]) + 1
        BY <2>1, <3>3, LinePut DEF Lines, Typed
      <4>2. QED
        BY <2>4, <4>1
    <3>4. QED
      BY <3>1, <3>2, <3>3, InterruptSays
  <2>7. ASSUME NEW k \in DOMAIN out'[proc], out'[proc][k].to # "thread"
        PROVE  /\ answer'[out'[proc][k].to] = [is |-> "sent", id |-> proc]
               /\ \A j \in DOMAIN out'[proc] : out'[proc][j].to = out'[proc][k].to => j = k
    <3>1. CASE out'[proc][k].to = "interrupt"
      BY <2>3, <2>6, <2>7, <3>1
    <3>2. CASE out'[proc][k].to # "interrupt"
      <4>1. k \in DOMAIN out[proc] /\ out'[proc][k] = out[proc][k] /\ out[proc][k].to \in Waiters
        BY <2>4, <2>5, <2>7, <3>2
      <4>2. /\ answer[out[proc][k].to] = [is |-> "sent", id |-> proc]
            /\ \A j \in DOMAIN out[proc] : out[proc][j].to = out[proc][k].to => j = k
        BY <1>1, <2>7, <4>1 DEF Asked
      <4>3. answer'[out[proc][k].to] = [is |-> "sent", id |-> proc]
        BY <2>3, <3>2, <4>1, <4>2
      <4>4. \A j \in DOMAIN out'[proc] : out'[proc][j].to = out'[proc][k].to => j = k
        BY <2>5, <2>7, <3>2, <4>1, <4>2
      <4>5. QED
        BY <4>1, <4>3, <4>4
    <3>3. QED
      BY <3>1, <3>2
  <2>8. QED
    BY <1>1, <2>7 DEF Asked
<1>2. QED
  BY <1>1 DEF Asked

(* Every step keeps who is answered. *)
LEMMA AskedStep ==
  ASSUME Typed, Asked, Attaching, Calling, Turning, Interrupting, Lined, [Next]_vars
  PROVE  Asked'
<1>1. UNCHANGED <<answer, out, proc>> => Asked'
  BY DEF Asked
<1>2. ASSUME NEW p \in Procs, Ignore(p) PROVE Asked'
  <2>1. Read(p) /\ UNCHANGED <<proc, answer>> /\ p # proc
    BY <1>2 DEF Ignore, Reads
  <2>2. QED
    BY <2>1, AskedRead
<1>3. ASSUME NEW p \in Procs, Answered(p) PROVE Asked'
  <2>1. Read(p) /\ UNCHANGED proc /\ p = proc
    BY <1>3 DEF Answered, Reads
  <2>2. \A w \in Waiters \ {First(p).to} : answer'[w] = answer[w]
    BY <1>3 DEF Answered, Typed, AnswersTyped
  <2>3. QED
    BY <2>1, <2>2, AskedRead
<1>4. ASSUME NEW p \in Procs, Output(p) PROVE Asked'
  <2>1. Read(p) /\ UNCHANGED <<proc, answer>> /\ p = proc
    BY <1>4 DEF Output, Reads
  <2>2. QED
    BY <2>1, AskedRead
<1>5. ASSUME NEW p \in Procs, Ended(p) PROVE Asked'
  <2>1. Read(p) /\ UNCHANGED <<proc, answer>> /\ p = proc
    BY <1>5 DEF Ended, Reads
  <2>2. QED
    BY <2>1, AskedRead
<1>6. CASE Initialized
  <2>1. UNCHANGED <<proc, out>> /\ Taken("attach") /\ answer["attach"].is # "sent"
    BY <1>6 DEF Initialized, Got, codexVars
  <2>2. \A v \in Waiters : answer[v].is = "sent" => answer'[v] = answer[v]
    BY <2>1 DEF Taken, Typed, AnswersTyped
  <2>3. QED
    BY <2>1, <2>2, AskedKept
<1>7. CASE SendThread
  <2>1. UNCHANGED proc /\ answer["attach"].is # "sent"
    BY <1>7 DEF SendThread, threadVars, Nothing, Attaching
  <2>2. Answering("attach") /\ (UNCHANGED out \/ (proc \in Procs /\ \E l \in Lines : Puts(proc, l) /\ l.to = "attach"))
    <3>1. CASE threadId = None
      <4>1. StartThread("attach")
        BY <1>7, <3>1 DEF SendThread
      <4>2. QED
        BY <4>1, StartThreadSays
    <3>2. CASE threadId # None
      <4>1. ResumeThread
        BY <1>7, <3>2 DEF SendThread
      <4>2. QED
        BY <4>1, ResumeSays
    <3>3. QED
      BY <3>1, <3>2
  <2>3. QED
    BY <2>1, <2>2, AskedMore DEF Waiters
<1>8. CASE ThreadReady
  <2>1. UNCHANGED <<proc, out>> /\ Taken("attach") /\ answer["attach"].is # "sent"
    BY <1>8 DEF ThreadReady, Got, codexVars
  <2>2. \A v \in Waiters : answer[v].is = "sent" => answer'[v] = answer[v]
    BY <2>1 DEF Taken, Typed, AnswersTyped
  <2>3. QED
    BY <2>1, <2>2, AskedKept
<1>9. CASE ThreadGone
  <2>1. UNCHANGED <<proc, out>> /\ Taken("attach") /\ answer["attach"].is # "sent"
    BY <1>9 DEF ThreadGone, Got, codexVars
  <2>2. \A v \in Waiters : answer[v].is = "sent" => answer'[v] = answer[v]
    BY <2>1 DEF Taken, Typed, AnswersTyped
  <2>3. QED
    BY <2>1, <2>2, AskedKept
<1>10. CASE AttachFails
  <2>1. UNCHANGED <<proc, out>> /\ Taken("attach") /\ answer["attach"].is # "sent"
    BY <1>10 DEF AttachFails, Got, codexVars
  <2>2. \A v \in Waiters : answer[v].is = "sent" => answer'[v] = answer[v]
    BY <2>1 DEF Taken, Typed, AnswersTyped
  <2>3. QED
    BY <2>1, <2>2, AskedKept
<1>11. CASE FoundOrphan
  <2>1. UNCHANGED proc /\ answer["attach"].is = "orphan" /\ answer["attach"].id = Goal /\ Goal \in Turns
    BY <1>11, Names DEF FoundOrphan, Got, Typed, AnswersTyped
  <2>2. CASE interrupting = NoInterrupt
    <3>1. answer["interrupt"].is # "sent"
      BY <2>2 DEF Interrupting, NoInterrupt
    <3>2. AskInterrupt(Goal, [answer EXCEPT !["attach"] = Nothing])
      BY <1>11, <2>1, <2>2 DEF FoundOrphan, Interrupt
    <3>3. QED
      BY <2>1, <3>1, <3>2, AskedInterrupt
  <2>3. CASE interrupting # NoInterrupt
    <3>1. answer' = [answer EXCEPT !["attach"] = Nothing] /\ UNCHANGED out
      BY <1>11, <2>3 DEF FoundOrphan, Interrupt
    <3>2. \A v \in Waiters : answer[v].is = "sent" => answer'[v] = answer[v]
      BY <2>1, <3>1 DEF Typed, AnswersTyped
    <3>3. QED
      BY <2>1, <3>1, <3>2, AskedKept
  <2>4. QED
    BY <2>2, <2>3
<1>12. CASE InterruptTaken
  <2>1. UNCHANGED <<proc, out>> /\ Taken("interrupt") /\ answer["interrupt"].is # "sent"
    BY <1>12 DEF InterruptTaken, Got, codexVars
  <2>2. \A v \in Waiters : answer[v].is = "sent" => answer'[v] = answer[v]
    BY <2>1 DEF Taken, Typed, AnswersTyped
  <2>3. QED
    BY <2>1, <2>2, AskedKept
<1>13. CASE Retarget
  <2>1. UNCHANGED proc /\ answer["interrupt"].is = "mismatch" /\ answer["interrupt"].id \in Turns
    BY <1>13 DEF Retarget, Mismatched, Got, Typed, AnswersTyped
  <2>2. CASE Taken("interrupt") /\ UNCHANGED out
    <3>1. \A v \in Waiters : answer[v].is = "sent" => answer'[v] = answer[v]
      BY <2>1, <2>2 DEF Taken, Typed, AnswersTyped
    <3>2. QED
      BY <2>1, <2>2, <3>1, AskedKept
  <2>3. CASE AskInterrupt(answer["interrupt"].id, answer)
    <3>1. answer["interrupt"].is # "sent"
      BY <2>1
    <3>2. QED
      BY <2>1, <2>3, <3>1, AskedInterrupt
  <2>4. QED
    BY <1>13, <2>2, <2>3 DEF Retarget
<1>14. CASE InterruptOver \/ Take \/ Settled
  BY <1>14, <1>1
  DEF InterruptOver, Take, Settled, InterruptEnds, codexVars
<1>15. CASE InterruptFails
  <2>1. UNCHANGED <<proc, out>> /\ Taken("interrupt") /\ answer["interrupt"].is # "sent"
    BY <1>15 DEF InterruptFails, Got, codexVars, InterruptEnds
  <2>2. \A v \in Waiters : answer[v].is = "sent" => answer'[v] = answer[v]
    BY <2>1 DEF Taken, Typed, AnswersTyped
  <2>3. QED
    BY <2>1, <2>2, AskedKept
<1>16. CASE SendTurn
  <2>1. UNCHANGED proc /\ answer["turn"].is # "sent"
    BY <1>16 DEF SendTurn, threadVars, Nothing, Turning
  <2>2. Answering("turn") /\ (UNCHANGED out \/ (proc \in Procs /\ \E l \in Lines : Puts(proc, l) /\ l.to = "turn"))
    <3>1. cur \in Prompts /\ StartTurn
      BY <1>16 DEF SendTurn, Lined
    <3>2. QED
      BY <3>1, StartTurnSays
  <2>3. QED
    BY <2>1, <2>2, AskedMore DEF Waiters
<1>17. CASE Started
  <2>1. UNCHANGED <<proc, out>> /\ Taken("turn") /\ answer["turn"].is # "sent"
    BY <1>17 DEF Started, Got, codexVars
  <2>2. \A v \in Waiters : answer[v].is = "sent" => answer'[v] = answer[v]
    BY <2>1 DEF Taken, Typed, AnswersTyped
  <2>3. QED
    BY <2>1, <2>2, AskedKept
<1>18. CASE StartFails
  <2>1. UNCHANGED <<proc, out>> /\ Taken("turn") /\ answer["turn"].is # "sent"
    BY <1>18 DEF StartFails, Got, codexVars
  <2>2. \A v \in Waiters : answer[v].is = "sent" => answer'[v] = answer[v]
    BY <2>1 DEF Taken, Typed, AnswersTyped
  <2>3. QED
    BY <2>1, <2>2, AskedKept
<1>19. CASE Close \/ FailTurn
  BY <1>19, <1>1
  DEF Close, FailTurn, codexVars
<1>20. CASE Rebuild
  <2>1. UNCHANGED proc /\ answer["turn"].is # "sent"
    BY <1>20 DEF Rebuild, threadVars, Nothing, Turning
  <2>2. Answering("turn") /\ (UNCHANGED out \/ (proc \in Procs /\ \E l \in Lines : Puts(proc, l) /\ l.to = "turn"))
    <3>1. StartThread("turn")
      BY <1>20 DEF Rebuild
    <3>2. QED
      BY <3>1, StartThreadSays
  <2>3. QED
    BY <2>1, <2>2, AskedMore DEF Waiters
<1>21. CASE Rebuilt
  <2>1. UNCHANGED <<proc, out>> /\ Taken("turn") /\ answer["turn"].is # "sent"
    BY <1>21 DEF Rebuilt, Got, codexVars
  <2>2. \A v \in Waiters : answer[v].is = "sent" => answer'[v] = answer[v]
    BY <2>1 DEF Taken, Typed, AnswersTyped
  <2>3. QED
    BY <2>1, <2>2, AskedKept
<1>22. CASE WarmedUp
  <2>1. UNCHANGED <<proc, out>> /\ Taken("warm") /\ answer["warm"].is # "sent"
    BY <1>22 DEF WarmedUp, Got, codexVars
  <2>2. \A v \in Waiters : answer[v].is = "sent" => answer'[v] = answer[v]
    BY <2>1 DEF Taken, Typed, AnswersTyped
  <2>3. QED
    BY <2>1, <2>2, AskedKept
<1>23. CASE SendControl
  <2>1. UNCHANGED proc /\ answer["control"].is # "sent"
    BY <1>23 DEF SendControl, threadVars, Nothing, Calling
  <2>2. Answering("control") /\ (UNCHANGED out \/ (proc \in Procs /\ \E l \in Lines : Puts(proc, l) /\ l.to = "control"))
    BY <1>23, ControlSays, Spoken DEF Line
  <2>3. QED
    BY <2>1, <2>2, AskedMore DEF Waiters
<1>24. CASE Controlled
  <2>1. UNCHANGED <<proc, out>> /\ Taken("control") /\ answer["control"].is # "sent"
    BY <1>24 DEF Controlled, Got, codexVars
  <2>2. \A v \in Waiters : answer[v].is = "sent" => answer'[v] = answer[v]
    BY <2>1 DEF Taken, Typed, AnswersTyped
  <2>3. QED
    BY <2>1, <2>2, AskedKept
<1>25. CASE \E s \in Prompts : Submit(s)
  BY <1>25, <1>1
  DEF Submit, codexVars
<1>26. CASE \E w \in {"attach", "warm"} : LaunchFails(w)
  BY <1>26, <1>1
  DEF LaunchFails, codexVars
<1>27. ASSUME NEW w \in {"attach", "warm"}, Launch(w) PROVE Asked'
  <2>1. /\ proc' \in Procs /\ DOMAIN out'[proc'] = {1} /\ out'[proc'][1] = Line(w, "ok", None)
        /\ answer' = [answer EXCEPT ![w] = [is |-> "sent", id |-> proc']]
    BY <1>27, Launched DEF Typed
  <2>2. answer'[w] = [is |-> "sent", id |-> proc'] /\ Line(w, "ok", None).to = w
    BY <2>1 DEF Typed, AnswersTyped, Waiters, Line
  <2>3. QED
    BY <2>1, <2>2 DEF Asked
<1>28. CASE Warmup \/ Control \/ ItemsDone
  BY <1>28, <1>1
  DEF Warmup, Control, ItemsDone, codexVars
<1>29. CASE WarmTimeout
  <2>1. LoseProcess /\ Quiet
    BY <1>29 DEF WarmTimeout, ShutDown
  <2>2. QED
    BY <2>1, Losses DEF Asked
<1>30. CASE RolloutMissed
  <2>1. UNCHANGED proc
    BY <1>30 DEF RolloutMissed
  <2>2. CASE interrupting = NoInterrupt
    <3>1. answer["interrupt"].is # "sent"
      BY <2>2 DEF Interrupting, NoInterrupt
    <3>2. active \in Turns /\ AskInterrupt(active, answer)
      BY <1>30, <2>2 DEF RolloutMissed, Interrupt, Typed, EventsTyped
    <3>3. QED
      BY <2>1, <3>1, <3>2, AskedInterrupt
  <2>3. CASE interrupting # NoInterrupt
    BY <1>30, <2>1, <2>3, <1>1 DEF RolloutMissed, Interrupt
  <2>4. QED
    BY <2>2, <2>3
<1>31. CASE Shutdown
  <2>1. LoseProcess /\ Quiet
    BY <1>31 DEF Shutdown, ShutDown
  <2>2. QED
    BY <2>1, Losses DEF Asked
<1>32. ASSUME NEW source \in {"user", "system"}, Stop(source) PROVE Asked'
  <2>1. UNCHANGED proc
    BY <1>32 DEF Stop
  <2>2. CASE interrupting = NoInterrupt
    <3>1. answer["interrupt"].is # "sent"
      BY <2>2 DEF Interrupting, NoInterrupt
    <3>2. active \in Turns /\ AskInterrupt(active, answer)
      BY <1>32, <2>2 DEF Stop, Interrupt, Typed, EventsTyped
    <3>3. QED
      BY <2>1, <3>1, <3>2, AskedInterrupt
  <2>3. CASE interrupting # NoInterrupt
    BY <1>32, <2>1, <2>3, <1>1 DEF Stop, Interrupt
  <2>4. QED
    BY <2>2, <2>3
<1>33. CASE \E p \in Procs : GoalTurn(p)
  BY <1>33, <1>1
  DEF GoalTurn, codexVars
<1>34. ASSUME NEW p \in Procs, Speak(p) PROVE Asked'
  <2>1. UNCHANGED <<proc, answer>> /\ run[p] # None
    BY <1>34 DEF Speak
  <2>2. Line("thread", "output", run[p]) \in Lines /\ Puts(p, Line("thread", "output", run[p]))
    BY <1>34, <2>1, Spoken
  <2>3. Line("thread", "output", run[p]).to = "thread"
    BY DEF Line
  <2>4. QED
    BY <2>1, <2>2, <2>3, AskedBeside
<1>35. ASSUME NEW p \in Procs, Finish(p) PROVE Asked'
  <2>1. UNCHANGED <<proc, answer>> /\ run[p] # None
    BY <1>35 DEF Finish
  <2>2. Line("thread", "completed", run[p]) \in Lines /\ Puts(p, Line("thread", "completed", run[p]))
    BY <1>35, <2>1, Spoken
  <2>3. Line("thread", "completed", run[p]).to = "thread"
    BY DEF Line
  <2>4. QED
    BY <2>1, <2>2, <2>3, AskedBeside
<1>36. ASSUME NEW p \in Procs, Die(p) PROVE Asked'
  <2>1. UNCHANGED <<proc, answer>>
    BY <1>36 DEF Die
  <2>2. /\ \A q \in Procs \ {p} : out'[q] = out[q]
        /\ \A k \in DOMAIN out'[p] : k \in DOMAIN out[p] /\ out'[p][k] = out[p][k]
    BY <1>36, LinesCut DEF Typed
  <2>3. proc # None => \A k \in DOMAIN out'[proc] : k \in DOMAIN out[proc] /\ out'[proc][k] = out[proc][k]
    BY <2>2 DEF Typed, NamesTyped
  <2>4. QED
    BY <2>1, <2>3, AskedKept
<1>37. ASSUME NEW p \in Procs, Closed(p) PROVE Asked'
  <2>1. (LoseProcess \/ UNCHANGED <<proc, answer>>) /\ Quiet /\ UNCHANGED out
    BY <1>37 DEF Closed
  <2>2. CASE LoseProcess
    BY <2>1, <2>2, Losses DEF Asked
  <2>3. QED
    BY <2>1, <2>2, <1>1
<1>38. CASE UNCHANGED vars
  BY <1>38, <1>1
  DEF vars, codexVars
<1>39. QED
  BY <1>2, <1>3, <1>4, <1>5, <1>6, <1>7, <1>8, <1>9, <1>10, <1>11, <1>12, <1>13, <1>14, <1>15,
     <1>16, <1>17, <1>18, <1>19, <1>20, <1>21, <1>22, <1>23, <1>24, <1>25, <1>26, <1>27, <1>28,
     <1>29, <1>30, <1>31, <1>32, <1>33, <1>34, <1>35, <1>36, <1>37, <1>38
  DEF Next, ReadStep, Continuation, Event

--------------------------------------------------------------------------------
(* What the waiter w has been given, or will be, and which steps give it more. *)
Granted(w, n) ==
  \/ answer[w].is = "ok" /\ answer[w].id = n
  \/ /\ proc # None
     /\ \E k \in DOMAIN out[proc] :
          out[proc][k].to = w /\ out[proc][k].is = "ok" /\ out[proc][k].id = n
Grants(w, n) ==
  \/ w = "attach" /\ Launch("attach")
  \/ w = "attach" /\ SendThread /\ (threadId = None => n = threads + 1 /\ threads' = n)
  \/ w = "turn" /\ SendTurn /\ n = cur
  \/ w = "turn" /\ Rebuild /\ n = threads + 1 /\ threads' = n

LEMMA GrantedKept ==
  ASSUME NEW w, NEW n, UNCHANGED proc, answer'[w] = answer[w] \/ answer'[w].is # "ok",
         proc # None => \A k \in DOMAIN out'[proc] :
           \/ \E j \in DOMAIN out[proc] : out'[proc][k] = out[proc][j]
           \/ out'[proc][k].to # w \/ out'[proc][k].is # "ok"
  PROVE  Granted(w, n)' => Granted(w, n)
BY DEF Granted

LEMMA GrantedRead ==
  ASSUME Typed, NEW w \in Waiters, NEW n, NEW p \in Procs, Read(p), UNCHANGED proc,
         \/ UNCHANGED answer
         \/ /\ p = proc
            /\ answer' = [answer EXCEPT ![First(p).to] = [is |-> First(p).is, id |-> First(p).id]]
  PROVE  Granted(w, n)' => Granted(w, n)
<1>1. /\ \A q \in Procs \ {p} : out'[q] = out[q]
      /\ 1 \in DOMAIN out[p] /\ First(p) = out[p][1]
      /\ \A k \in DOMAIN out'[p] : k + 1 \in DOMAIN out[p] /\ out'[p][k] = out[p][k + 1]
  BY LineRead DEF Typed
<1>2. proc # None => \A k \in DOMAIN out'[proc] : \E j \in DOMAIN out[proc] : out'[proc][k] = out[proc][j]
  <2>1. CASE proc = p
    BY <1>1, <2>1
  <2>2. CASE proc # p /\ proc # None
    <3>1. proc \in Procs /\ out'[proc] = out[proc]
      BY <1>1, <2>2 DEF Typed, NamesTyped
    <3>2. QED
      BY <3>1
  <2>3. QED
    BY <2>1, <2>2
<1>3. CASE answer'[w] = answer[w]
  BY <1>2, <1>3, GrantedKept
<1>4. CASE p = proc /\ w = First(p).to /\ answer'[w] = [is |-> First(p).is, id |-> First(p).id]
  <2>1. answer'[w].is = out[p][1].is /\ answer'[w].id = out[p][1].id /\ out[p][1].to = w /\ p # None
    BY <1>1, <1>4, Names
  <2>2. QED
    BY <1>1, <1>2, <1>4, <2>1 DEF Granted
<1>5. QED
  BY <1>3, <1>4 DEF Typed, AnswersTyped

LEMMA GrantedPut ==
  ASSUME Typed, NEW w \in Waiters, NEW n, NEW p \in Procs, NEW l \in Lines, Puts(p, l), UNCHANGED proc,
         answer'[w] = answer[w] \/ answer'[w].is # "ok"
  PROVE  Granted(w, n)' => Granted(w, n) \/ (l.to = w /\ l.is = "ok" /\ l.id = n)
<1>1. /\ \A q \in Procs \ {p} : out'[q] = out[q]
      /\ \A k \in DOMAIN out'[p] : (k \in DOMAIN out[p] /\ out'[p][k] = out[p][k]) \/ out'[p][k] = l
  BY LinePut DEF Lines, Typed
<1>2. proc # None => \A k \in DOMAIN out'[proc] :
        (\E j \in DOMAIN out[proc] : out'[proc][k] = out[proc][j]) \/ out'[proc][k] = l
  <2>1. CASE proc = p
    BY <1>1, <2>1
  <2>2. CASE proc # p /\ proc # None
    <3>1. proc \in Procs /\ out'[proc] = out[proc]
      BY <1>1, <2>2 DEF Typed, NamesTyped
    <3>2. QED
      BY <3>1
  <2>3. QED
    BY <2>1, <2>2
<1>3. QED
  BY <1>2 DEF Granted

LEMMA GrantedBeside ==
  ASSUME Typed, NEW w \in {"attach", "turn"}, NEW n, NEW t \in Turns, NEW answers,
         answers = answer \/ answers = [answer EXCEPT !["attach"] = Nothing],
         UNCHANGED proc, AskInterrupt(t, answers) \/ (answer' = answers /\ UNCHANGED out)
  PROVE  Granted(w, n)' => Granted(w, n)
<1>1. answer'[w] = answer[w] \/ answer'[w].is # "ok"
  <2>1. answer' = answers \/ answer' = [answers EXCEPT !["interrupt"] = [is |-> "sent", id |-> proc]]
    BY InterruptSays
  <2>2. answer \in [Waiters -> Reply] /\ w # "interrupt" /\ w \in Waiters
    BY DEF Typed, AnswersTyped, Waiters
  <2>3. QED
    BY <2>1, <2>2 DEF Nothing
<1>2. proc # None => \A k \in DOMAIN out'[proc] :
        \/ \E j \in DOMAIN out[proc] : out'[proc][k] = out[proc][j]
        \/ out'[proc][k].to # w \/ out'[proc][k].is # "ok"
  <2>1. CASE UNCHANGED out
    BY <2>1
  <2>2. CASE AskInterrupt(t, answers) /\ proc # None
    <3>1. proc \in Procs
      BY <2>2 DEF Typed, NamesTyped
    <3>2. QED
      BY <2>2, <3>1, InterruptPuts
  <2>3. QED
    BY <2>1, <2>2
<1>3. QED
  BY <1>1, <1>2, GrantedKept

LEMMA GrantedStep ==
  ASSUME Typed, Lined, NEW w \in {"attach", "turn"}, NEW n, [Next]_vars
  PROVE  (Granted(w, n)' => Granted(w, n) \/ Grants(w, n))
<1>1. w \in Waiters
  BY DEF Waiters
<1>2. UNCHANGED <<answer, out, proc>> => (Granted(w, n)' => Granted(w, n) \/ Grants(w, n))
  BY DEF Granted
<1>3. ASSUME NEW p \in Procs, Ignore(p) PROVE (Granted(w, n)' => Granted(w, n) \/ Grants(w, n))
  <2>1. Read(p) /\ UNCHANGED <<proc, answer>>
    BY <1>3 DEF Ignore, Reads
  <2>2. QED
    BY <2>1, <1>1, GrantedRead
<1>4. ASSUME NEW p \in Procs, Answered(p) PROVE (Granted(w, n)' => Granted(w, n) \/ Grants(w, n))
  <2>1. /\ Read(p) /\ UNCHANGED proc /\ p = proc
        /\ \/ UNCHANGED answer
           \/ answer' = [answer EXCEPT ![First(p).to] = [is |-> First(p).is, id |-> First(p).id]]
    BY <1>4 DEF Answered, Reads
  <2>2. QED
    BY <2>1, <1>1, GrantedRead
<1>5. ASSUME NEW p \in Procs, Output(p) PROVE (Granted(w, n)' => Granted(w, n) \/ Grants(w, n))
  <2>1. Read(p) /\ UNCHANGED <<proc, answer>>
    BY <1>5 DEF Output, Reads
  <2>2. QED
    BY <2>1, <1>1, GrantedRead
<1>6. ASSUME NEW p \in Procs, Ended(p) PROVE (Granted(w, n)' => Granted(w, n) \/ Grants(w, n))
  <2>1. Read(p) /\ UNCHANGED <<proc, answer>>
    BY <1>6 DEF Ended, Reads
  <2>2. QED
    BY <2>1, <1>1, GrantedRead
<1>7. CASE Initialized
  <2>1. UNCHANGED <<proc, out>> /\ (answer'[w] = answer[w] \/ answer'[w].is # "ok")
    BY <1>7 DEF Initialized, Taken, Typed, AnswersTyped, Nothing, codexVars
  <2>2. QED
    BY <2>1 DEF Granted
<1>8. CASE SendThread
  <2>1. UNCHANGED proc
    BY <1>8 DEF SendThread
  <2>2. Answering("attach")
    BY <1>8, StartThreadSays, ResumeSays DEF SendThread
  <2>3. UNCHANGED out \/ (proc \in Procs /\ \E l \in Lines :
          Puts(proc, l) /\ l.to = "attach" /\ (threadId = None => (l.is = "ok" => threads' = threads + 1 /\ l.id = threads + 1)))
    <3>1. CASE threadId = None
      <4>1. StartThread("attach")
        BY <1>8, <3>1 DEF SendThread
      <4>2. CASE UNCHANGED out
        BY <4>2
      <4>3. CASE \E l \in Lines :
                   /\ Puts(proc, l) /\ l.to = "attach"
                   /\ \/ l.is = "refused" /\ UNCHANGED threads
                      \/ l.is = "ok" /\ threads' = threads + 1 /\ l.id = threads + 1
        <5>1. proc \in Procs \/ UNCHANGED out
          BY <4>1, StartThreadSays
        <5>2. QED
          BY <4>3, <5>1
      <4>4. QED
        BY <4>1, <4>2, <4>3, StartThreadSays
    <3>2. CASE threadId # None
      <4>1. ResumeThread
        BY <1>8, <3>2 DEF SendThread
      <4>2. UNCHANGED out \/ (proc \in Procs /\ \E l \in Lines : Puts(proc, l) /\ l.to = "attach")
        BY <4>1, ResumeSays
      <4>3. QED
        BY <3>2, <4>2
    <3>3. QED
      BY <3>1, <3>2
  <2>4. answer'[w] = answer[w] \/ answer'[w].is # "ok"
    <3>1. answer' = [answer EXCEPT !["attach"] = [is |-> "sent", id |-> proc]] /\ answer \in [Waiters -> Reply]
      BY <2>2 DEF Answering, Typed, AnswersTyped
    <3>2. QED
      BY <1>1, <3>1
  <2>5. CASE UNCHANGED out
    BY <2>1, <2>4, <2>5 DEF Granted
  <2>6. CASE ~ UNCHANGED out
    <3>1. proc \in Procs
      BY <2>3, <2>6
    <3>2. PICK l \in Lines : Puts(proc, l) /\ l.to = "attach" /\ (threadId = None => (l.is = "ok" => threads' = threads + 1 /\ l.id = threads + 1))
      BY <2>3, <2>6
    <3>3. Granted(w, n)' => Granted(w, n) \/ (l.to = w /\ l.is = "ok" /\ l.id = n)
      BY <1>1, <2>1, <2>4, <3>1, <3>2, GrantedPut
    <3>4. QED
      BY <1>8, <3>2, <3>3 DEF Grants
  <2>7. QED
    BY <2>5, <2>6
<1>9. CASE ThreadReady
  <2>1. UNCHANGED <<proc, out>> /\ (answer'[w] = answer[w] \/ answer'[w].is # "ok")
    BY <1>9 DEF ThreadReady, Taken, Typed, AnswersTyped, Nothing, codexVars
  <2>2. QED
    BY <2>1 DEF Granted
<1>10. CASE ThreadGone
  <2>1. UNCHANGED <<proc, out>> /\ (answer'[w] = answer[w] \/ answer'[w].is # "ok")
    BY <1>10 DEF ThreadGone, Taken, Typed, AnswersTyped, Nothing, codexVars
  <2>2. QED
    BY <2>1 DEF Granted
<1>11. CASE AttachFails
  <2>1. UNCHANGED <<proc, out>> /\ (answer'[w] = answer[w] \/ answer'[w].is # "ok")
    BY <1>11 DEF AttachFails, Taken, Typed, AnswersTyped, Nothing, codexVars
  <2>2. QED
    BY <2>1 DEF Granted
<1>12. CASE FoundOrphan
  <2>1. UNCHANGED proc /\ answer["attach"].id = Goal /\ Goal \in Turns
    BY <1>12, Names DEF FoundOrphan, Got, Typed, AnswersTyped
  <2>2. AskInterrupt(Goal, [answer EXCEPT !["attach"] = Nothing])
        \/ (answer' = [answer EXCEPT !["attach"] = Nothing] /\ UNCHANGED out)
    BY <1>12, <2>1 DEF FoundOrphan, Interrupt
  <2>3. QED
    BY <2>1, <2>2, GrantedBeside
<1>13. CASE InterruptTaken
  <2>1. UNCHANGED <<proc, out>> /\ (answer'[w] = answer[w] \/ answer'[w].is # "ok")
    BY <1>13 DEF InterruptTaken, Taken, Typed, AnswersTyped, Nothing, codexVars
  <2>2. QED
    BY <2>1 DEF Granted
<1>14. CASE Retarget
  <2>1. UNCHANGED proc /\ answer["interrupt"].id \in Turns
    BY <1>14 DEF Retarget, Mismatched, Got, Typed, AnswersTyped
  <2>2. CASE Taken("interrupt") /\ UNCHANGED out
    <3>1. answer'[w] = answer[w]
      BY <2>2 DEF Taken, Typed, AnswersTyped
    <3>2. QED
      BY <2>1, <2>2, <3>1 DEF Granted
  <2>3. CASE AskInterrupt(answer["interrupt"].id, answer)
    BY <2>1, <2>3, GrantedBeside
  <2>4. QED
    BY <1>14, <2>2, <2>3 DEF Retarget
<1>15. CASE InterruptOver \/ Take \/ Settled
  BY <1>15, <1>2
  DEF InterruptOver, Take, Settled, InterruptEnds, codexVars
<1>16. CASE InterruptFails
  <2>1. UNCHANGED <<proc, out>> /\ (answer'[w] = answer[w] \/ answer'[w].is # "ok")
    BY <1>16 DEF InterruptFails, Taken, Typed, AnswersTyped, Nothing, codexVars, InterruptEnds
  <2>2. QED
    BY <2>1 DEF Granted
<1>17. CASE SendTurn
  <2>1. UNCHANGED proc /\ cur \in Prompts /\ StartTurn
    BY <1>17 DEF SendTurn, Lined
  <2>2. Answering("turn")
    BY <2>1, StartTurnSays
  <2>3. UNCHANGED out \/ (proc \in Procs /\ \E l \in Lines :
          Puts(proc, l) /\ l.to = "turn" /\ (l.is = "ok" => l.id = cur))
    <3>1. \/ UNCHANGED out
          \/ /\ proc \in Procs
             /\ \E l \in Lines :
                  Puts(proc, l) /\ l.to = "turn" /\ (l.is = "refused" \/ (l.is = "ok" /\ l.id = cur))
      BY <2>1, StartTurnSays
    <3>2. QED
      BY <3>1
  <2>4. answer'[w] = answer[w] \/ answer'[w].is # "ok"
    <3>1. answer' = [answer EXCEPT !["turn"] = [is |-> "sent", id |-> proc]] /\ answer \in [Waiters -> Reply]
      BY <2>2 DEF Answering, Typed, AnswersTyped
    <3>2. QED
      BY <1>1, <3>1
  <2>5. CASE UNCHANGED out
    BY <2>1, <2>4, <2>5 DEF Granted
  <2>6. CASE ~ UNCHANGED out
    <3>1. proc \in Procs
      BY <2>3, <2>6
    <3>2. PICK l \in Lines : Puts(proc, l) /\ l.to = "turn" /\ (l.is = "ok" => l.id = cur)
      BY <2>3, <2>6
    <3>3. Granted(w, n)' => Granted(w, n) \/ (l.to = w /\ l.is = "ok" /\ l.id = n)
      BY <1>1, <2>1, <2>4, <3>1, <3>2, GrantedPut
    <3>4. QED
      BY <1>17, <3>2, <3>3 DEF Grants
  <2>7. QED
    BY <2>5, <2>6
<1>18. CASE Started
  <2>1. UNCHANGED <<proc, out>> /\ (answer'[w] = answer[w] \/ answer'[w].is # "ok")
    BY <1>18 DEF Started, Taken, Typed, AnswersTyped, Nothing, codexVars
  <2>2. QED
    BY <2>1 DEF Granted
<1>19. CASE StartFails
  <2>1. UNCHANGED <<proc, out>> /\ (answer'[w] = answer[w] \/ answer'[w].is # "ok")
    BY <1>19 DEF StartFails, Taken, Typed, AnswersTyped, Nothing, codexVars
  <2>2. QED
    BY <2>1 DEF Granted
<1>20. CASE Close \/ FailTurn
  BY <1>20, <1>2
  DEF Close, FailTurn, codexVars
<1>21. CASE Rebuild
  <2>1. UNCHANGED proc /\ StartThread("turn")
    BY <1>21 DEF Rebuild
  <2>2. Answering("turn")
    BY <2>1, StartThreadSays
  <2>3. UNCHANGED out \/ (proc \in Procs /\ \E l \in Lines :
          Puts(proc, l) /\ l.to = "turn" /\ (l.is = "ok" => threads' = threads + 1 /\ l.id = threads + 1))
    <3>1. \/ UNCHANGED out
          \/ /\ proc \in Procs
             /\ \E l \in Lines :
                  /\ Puts(proc, l) /\ l.to = "turn"
                  /\ \/ l.is = "refused" /\ UNCHANGED threads
                     \/ l.is = "ok" /\ threads' = threads + 1 /\ l.id = threads + 1
      BY <2>1, StartThreadSays
    <3>2. QED
      BY <3>1
  <2>4. answer'[w] = answer[w] \/ answer'[w].is # "ok"
    <3>1. answer' = [answer EXCEPT !["turn"] = [is |-> "sent", id |-> proc]] /\ answer \in [Waiters -> Reply]
      BY <2>2 DEF Answering, Typed, AnswersTyped
    <3>2. QED
      BY <1>1, <3>1
  <2>5. CASE UNCHANGED out
    BY <2>1, <2>4, <2>5 DEF Granted
  <2>6. CASE ~ UNCHANGED out
    <3>1. proc \in Procs
      BY <2>3, <2>6
    <3>2. PICK l \in Lines : Puts(proc, l) /\ l.to = "turn" /\ (l.is = "ok" => threads' = threads + 1 /\ l.id = threads + 1)
      BY <2>3, <2>6
    <3>3. Granted(w, n)' => Granted(w, n) \/ (l.to = w /\ l.is = "ok" /\ l.id = n)
      BY <1>1, <2>1, <2>4, <3>1, <3>2, GrantedPut
    <3>4. QED
      BY <1>21, <3>2, <3>3 DEF Grants
  <2>7. QED
    BY <2>5, <2>6
<1>22. CASE Rebuilt
  <2>1. UNCHANGED <<proc, out>> /\ (answer'[w] = answer[w] \/ answer'[w].is # "ok")
    BY <1>22 DEF Rebuilt, Taken, Typed, AnswersTyped, Nothing, codexVars
  <2>2. QED
    BY <2>1 DEF Granted
<1>23. CASE WarmedUp
  <2>1. UNCHANGED <<proc, out>> /\ (answer'[w] = answer[w] \/ answer'[w].is # "ok")
    BY <1>23 DEF WarmedUp, Taken, Typed, AnswersTyped, Nothing, codexVars
  <2>2. QED
    BY <2>1 DEF Granted
<1>24. CASE SendControl
  <2>1. UNCHANGED proc
    BY <1>24 DEF SendControl, threadVars
  <2>2. answer'[w] = answer[w]
    <3>1. Answering("control") /\ answer \in [Waiters -> Reply]
      BY <1>24, ControlSays DEF Typed, AnswersTyped
    <3>2. QED
      BY <1>1, <3>1 DEF Answering
  <2>3. UNCHANGED out \/ (proc \in Procs /\ Puts(proc, Line("control", "ok", None)))
    BY <1>24, ControlSays
  <2>4. Line("control", "ok", None) \in Lines /\ Line("control", "ok", None).to # w
    BY Spoken DEF Line, Lines, Message, Meant, Ids, Kinds, Waiters
  <2>5. QED
    BY <1>1, <2>1, <2>2, <2>3, <2>4, GrantedPut DEF Granted
<1>25. CASE Controlled
  <2>1. UNCHANGED <<proc, out>> /\ (answer'[w] = answer[w] \/ answer'[w].is # "ok")
    BY <1>25 DEF Controlled, Taken, Typed, AnswersTyped, Nothing, codexVars
  <2>2. QED
    BY <2>1 DEF Granted
<1>26. CASE \E s \in Prompts : Submit(s)
  BY <1>26, <1>2
  DEF Submit, codexVars
<1>27. CASE \E v \in {"attach", "warm"} : LaunchFails(v)
  BY <1>27, <1>2
  DEF LaunchFails, codexVars
<1>28. ASSUME NEW v \in {"attach", "warm"}, Launch(v) PROVE (Granted(w, n)' => Granted(w, n) \/ Grants(w, n))
  <2>1. /\ proc' \in Procs /\ DOMAIN out'[proc'] = {1} /\ out'[proc'][1] = Line(v, "ok", None)
        /\ answer' = [answer EXCEPT ![v] = [is |-> "sent", id |-> proc']]
    BY <1>28, Launched DEF Typed
  <2>2. CASE v = w
    BY <1>28, <2>2 DEF Grants
  <2>3. CASE v # w
    <3>1. answer'[w] = answer[w] /\ Line(v, "ok", None).to # w
      BY <2>1, <2>3 DEF Typed, AnswersTyped, Waiters, Line
    <3>2. QED
      BY <2>1, <3>1 DEF Granted
  <2>4. QED
    BY <2>2, <2>3
<1>29. CASE Warmup \/ Control \/ ItemsDone
  BY <1>29, <1>2
  DEF Warmup, Control, ItemsDone, codexVars
<1>30. CASE WarmTimeout
  <2>1. proc' = None /\ (answer'[w] = answer[w] \/ answer'[w] = Failure)
    <3>1. LoseProcess /\ Quiet
      BY <1>30 DEF WarmTimeout, ShutDown
    <3>2. QED
      BY <3>1, Losses
  <2>2. QED
    BY <2>1 DEF Granted, Failure
<1>31. CASE RolloutMissed
  <2>1. UNCHANGED proc /\ active \in Turns \cup {None} /\ active # None
    BY <1>31 DEF RolloutMissed, Typed, EventsTyped
  <2>2. AskInterrupt(active, answer) \/ (answer' = answer /\ UNCHANGED out)
    BY <1>31 DEF RolloutMissed, Interrupt
  <2>3. QED
    BY <2>1, <2>2, GrantedBeside
<1>32. CASE Shutdown
  <2>1. proc' = None /\ (answer'[w] = answer[w] \/ answer'[w] = Failure)
    <3>1. LoseProcess /\ Quiet
      BY <1>32 DEF Shutdown, ShutDown
    <3>2. QED
      BY <3>1, Losses
  <2>2. QED
    BY <2>1 DEF Granted, Failure
<1>33. ASSUME NEW source \in {"user", "system"}, Stop(source) PROVE (Granted(w, n)' => Granted(w, n) \/ Grants(w, n))
  <2>1. UNCHANGED proc /\ active \in Turns \cup {None} /\ active # None
    BY <1>33 DEF Stop, Typed, EventsTyped
  <2>2. AskInterrupt(active, answer) \/ (answer' = answer /\ UNCHANGED out)
    BY <1>33 DEF Stop, Interrupt
  <2>3. QED
    BY <2>1, <2>2, GrantedBeside
<1>34. CASE \E p \in Procs : GoalTurn(p)
  BY <1>34, <1>2
  DEF GoalTurn, codexVars
<1>35. ASSUME NEW p \in Procs, Speak(p) PROVE (Granted(w, n)' => Granted(w, n) \/ Grants(w, n))
  <2>1. UNCHANGED <<proc, answer>> /\ run[p] # None
    BY <1>35 DEF Speak
  <2>2. Line("thread", "output", run[p]) \in Lines /\ Puts(p, Line("thread", "output", run[p]))
    BY <1>35, <2>1, Spoken
  <2>3. Line("thread", "output", run[p]).to # w
    BY DEF Line
  <2>4. QED
    BY <1>1, <2>1, <2>2, <2>3, GrantedPut
<1>36. ASSUME NEW p \in Procs, Finish(p) PROVE (Granted(w, n)' => Granted(w, n) \/ Grants(w, n))
  <2>1. UNCHANGED <<proc, answer>> /\ run[p] # None
    BY <1>36 DEF Finish
  <2>2. Line("thread", "completed", run[p]) \in Lines /\ Puts(p, Line("thread", "completed", run[p]))
    BY <1>36, <2>1, Spoken
  <2>3. Line("thread", "completed", run[p]).to # w
    BY DEF Line
  <2>4. QED
    BY <1>1, <2>1, <2>2, <2>3, GrantedPut
<1>37. ASSUME NEW p \in Procs, Die(p) PROVE (Granted(w, n)' => Granted(w, n) \/ Grants(w, n))
  <2>1. UNCHANGED <<proc, answer>>
    BY <1>37 DEF Die
  <2>2. /\ \A q \in Procs \ {p} : out'[q] = out[q]
        /\ \A k \in DOMAIN out'[p] : k \in DOMAIN out[p] /\ out'[p][k] = out[p][k]
    BY <1>37, LinesCut DEF Typed
  <2>3. proc # None => \A k \in DOMAIN out'[proc] : k \in DOMAIN out[proc] /\ out'[proc][k] = out[proc][k]
    BY <2>2 DEF Typed, NamesTyped
  <2>4. QED
    BY <2>1, <2>3, GrantedKept
<1>38. ASSUME NEW p \in Procs, Closed(p) PROVE (Granted(w, n)' => Granted(w, n) \/ Grants(w, n))
  <2>1. CASE LoseProcess
    <3>1. proc' = None /\ (answer'[w] = answer[w] \/ answer'[w] = Failure)
      <4>1. Quiet
        BY <1>38 DEF Closed
      <4>2. QED
        BY <2>1, <4>1, Losses
    <3>2. QED
      BY <3>1 DEF Granted, Failure
  <2>2. CASE UNCHANGED <<proc, answer, out>>
    BY <2>2, <1>1 DEF Granted
  <2>3. QED
    BY <1>38, <2>1, <2>2 DEF Closed
<1>39. CASE UNCHANGED vars
  BY <1>39, <1>2
  DEF vars, codexVars
<1>40. QED
  BY <1>1, <1>3, <1>4, <1>5, <1>6, <1>7, <1>8, <1>9, <1>10, <1>11, <1>12, <1>13, <1>14, <1>15,
     <1>16, <1>17, <1>18, <1>19, <1>20, <1>21, <1>22, <1>23, <1>24, <1>25, <1>26, <1>27, <1>28,
     <1>29, <1>30, <1>31, <1>32, <1>33, <1>34, <1>35, <1>36, <1>37, <1>38, <1>39
  DEF Next, ReadStep, Continuation, Event

(* Which steps begin a turn, *)
LEMMA StartingStep ==
  ASSUME Typed, pc' = "starting", [Next]_vars
  PROVE  SendTurn \/ (pc = "starting" /\ UNCHANGED cur)
<1>1. CASE \E p \in Procs : Ignore(p) \/ Answered(p) \/ Output(p) \/ Ended(p)
  BY <1>1
  DEF Ignore, Answered, Output, Ended, Read, turnVars
<1>2. CASE \/ Initialized \/ SendThread \/ ThreadReady \/ ThreadGone \/ AttachFails
           \/ FoundOrphan \/ InterruptTaken \/ Retarget
  BY <1>2
  DEF Initialized, SendThread, ThreadReady, ThreadGone, AttachFails, FoundOrphan, InterruptTaken,
      Retarget, AttachEnds, turnVars
<1>3. CASE \/ InterruptOver \/ InterruptFails \/ Take \/ SendTurn \/ Started \/ StartFails
           \/ Settled
  BY <1>3
  DEF InterruptOver, InterruptFails, Take, SendTurn, Started, StartFails, Settled, InterruptEnds,
      AttachEnds, turnVars
<1>4. CASE Close \/ Rebuild \/ Rebuilt \/ FailTurn \/ WarmedUp \/ SendControl \/ Controlled
  BY <1>4
  DEF Close, Rebuild, Rebuilt, FailTurn, WarmedUp, SendControl, Controlled, End, turnVars
<1>5. CASE \E s \in Prompts : Submit(s)
  BY <1>5
  DEF Submit, turnVars
<1>6. CASE \E v \in {"attach", "warm"} : Launch(v) \/ LaunchFails(v)
  BY <1>6
  DEF Launch, LaunchFails, AttachEnds, turnVars
<1>7. CASE Warmup \/ WarmTimeout \/ Control \/ RolloutMissed \/ Shutdown \/ ItemsDone
  BY <1>7
  DEF Warmup, WarmTimeout, Control, RolloutMissed, Shutdown, ItemsDone, ShutDown, LoseProcess,
      turnVars
<1>8. CASE \E source \in {"user", "system"} : Stop(source)
  BY <1>8
  DEF Stop, turnVars
<1>9. CASE \E p \in Procs : Speak(p) \/ Finish(p) \/ GoalTurn(p) \/ Die(p) \/ Closed(p)
  BY <1>9
  DEF Speak, Finish, GoalTurn, Die, Closed, turnVars
<1>10. CASE UNCHANGED vars
  BY <1>10
  DEF vars, turnVars
<1>11. QED
  BY <1>1, <1>2, <1>3, <1>4, <1>5, <1>6, <1>7, <1>8, <1>9, <1>10
  DEF Next, ReadStep, Continuation, Event

(* ask for a thread, *)
LEMMA ExpectsStep ==
  ASSUME Typed, NEW w \in {"attach", "turn"}, Expects(w)', [Next]_vars
  PROVE  Expects(w) \/ (w = "attach" /\ SendThread /\ threadId = None) \/ (w = "turn" /\ Rebuild)
<1>1. CASE \E p \in Procs : Ignore(p) \/ Answered(p) \/ Output(p) \/ Ended(p)
  BY <1>1
  DEF Ignore, Answered, Output, Ended, Read, turnVars, Expects
<1>2. CASE \/ Initialized \/ SendThread \/ ThreadReady \/ ThreadGone \/ AttachFails
           \/ FoundOrphan \/ InterruptTaken \/ Retarget
  BY <1>2
  DEF Initialized, SendThread, ThreadReady, ThreadGone, AttachFails, FoundOrphan, InterruptTaken,
      Retarget, AttachEnds, turnVars, Expects
<1>3. CASE \/ InterruptOver \/ InterruptFails \/ Take \/ SendTurn \/ Started \/ StartFails
           \/ Settled
  BY <1>3
  DEF InterruptOver, InterruptFails, Take, SendTurn, Started, StartFails, Settled, InterruptEnds,
      AttachEnds, EnsureAttached, turnVars, Expects
<1>4. CASE Close \/ Rebuild \/ Rebuilt \/ FailTurn \/ WarmedUp \/ SendControl \/ Controlled
  BY <1>4
  DEF Close, Rebuild, Rebuilt, FailTurn, WarmedUp, SendControl, Controlled, End, turnVars, Expects
<1>5. CASE \E s \in Prompts : Submit(s)
  BY <1>5
  DEF Submit, turnVars, Expects
<1>6. CASE \E v \in {"attach", "warm"} : LaunchFails(v)
  BY <1>6
  DEF LaunchFails, AttachEnds, turnVars, Expects
<1>7. ASSUME NEW v \in {"attach", "warm"}, Launch(v) PROVE Expects(w) \/ (w = "attach" /\ SendThread /\ threadId = None) \/ (w = "turn" /\ Rebuild)
  BY <1>7
  DEF Launch, turnVars, Expects
<1>8. CASE Warmup \/ WarmTimeout \/ Control \/ RolloutMissed \/ Shutdown \/ ItemsDone
  BY <1>8
  DEF Warmup, WarmTimeout, Control, RolloutMissed, Shutdown, ItemsDone, ShutDown, LoseProcess,
      EnsureAttached, turnVars, Expects
<1>9. CASE \E source \in {"user", "system"} : Stop(source)
  BY <1>9
  DEF Stop, turnVars, Expects
<1>10. CASE \E p \in Procs : Speak(p) \/ Finish(p) \/ GoalTurn(p) \/ Die(p) \/ Closed(p)
  BY <1>10
  DEF Speak, Finish, GoalTurn, Die, Closed, turnVars, Expects
<1>11. CASE UNCHANGED vars
  BY <1>11
  DEF vars, turnVars, Expects
<1>12. QED
  BY <1>1, <1>2, <1>3, <1>4, <1>5, <1>6, <1>7, <1>8, <1>9, <1>10, <1>11
  DEF Next, ReadStep, Continuation, Event

(* run a turn on one, *)
LEMMA RanStep ==
  ASSUME Typed, [Next]_vars
  PROVE  UNCHANGED ran \/ (SendTurn /\ ran' = [ran EXCEPT ![cur] = threadId])
<1>1. CASE \E p \in Procs : Ignore(p) \/ Answered(p) \/ Output(p) \/ Ended(p)
  BY <1>1
  DEF Ignore, Answered, Output, Ended, Read, seenVars
<1>2. CASE \/ Initialized \/ SendThread \/ ThreadReady \/ ThreadGone \/ AttachFails
           \/ FoundOrphan \/ InterruptTaken \/ Retarget
  BY <1>2
  DEF Initialized, SendThread, ThreadReady, ThreadGone, AttachFails, FoundOrphan, InterruptTaken,
      Retarget, seenVars
<1>3. CASE \/ InterruptOver \/ InterruptFails \/ Take \/ SendTurn \/ Started \/ StartFails
           \/ Settled
  BY <1>3
  DEF InterruptOver, InterruptFails, Take, SendTurn, Started, StartFails, Settled, InterruptEnds,
      seenVars
<1>4. CASE Close \/ Rebuild \/ Rebuilt \/ FailTurn \/ WarmedUp \/ SendControl \/ Controlled
  BY <1>4
  DEF Close, Rebuild, Rebuilt, FailTurn, WarmedUp, SendControl, Controlled, seenVars
<1>5. CASE \E s \in Prompts : Submit(s)
  BY <1>5
  DEF Submit, seenVars
<1>6. CASE \E v \in {"attach", "warm"} : Launch(v) \/ LaunchFails(v)
  BY <1>6
  DEF Launch, LaunchFails, seenVars
<1>7. CASE Warmup \/ WarmTimeout \/ Control \/ RolloutMissed \/ Shutdown \/ ItemsDone
  BY <1>7
  DEF Warmup, WarmTimeout, Control, RolloutMissed, Shutdown, ItemsDone, ShutDown, LoseProcess,
      seenVars
<1>8. CASE \E source \in {"user", "system"} : Stop(source)
  BY <1>8
  DEF Stop, seenVars
<1>9. CASE \E p \in Procs : Speak(p) \/ Finish(p) \/ GoalTurn(p) \/ Die(p) \/ Closed(p)
  BY <1>9
  DEF Speak, Finish, GoalTurn, Die, Closed, seenVars
<1>10. CASE UNCHANGED vars
  BY <1>10
  DEF vars, seenVars
<1>11. QED
  BY <1>1, <1>2, <1>3, <1>4, <1>5, <1>6, <1>7, <1>8, <1>9, <1>10
  DEF Next, ReadStep, Continuation, Event

(* make one, *)
LEMMA ThreadsStep ==
  ASSUME Typed, [Next]_vars
  PROVE  UNCHANGED threads \/ ((SendThread \/ Rebuild) /\ threads' = threads + 1)
<1>1. CASE \E p \in Procs : Ignore(p) \/ Answered(p) \/ Output(p) \/ Ended(p)
  BY <1>1
  DEF Ignore, Answered, Output, Ended, Read, codexVars
<1>2. CASE \/ Initialized \/ SendThread \/ ThreadReady \/ ThreadGone \/ AttachFails
           \/ FoundOrphan \/ InterruptTaken \/ Retarget
  BY <1>2
  DEF Initialized, SendThread, ThreadReady, ThreadGone, AttachFails, FoundOrphan, InterruptTaken,
      Retarget, StartThread, ResumeThread, Unserved, Refuse, Interrupt, AskInterrupt, codexVars
<1>3. CASE \/ InterruptOver \/ InterruptFails \/ Take \/ SendTurn \/ Started \/ StartFails
           \/ Settled
  BY <1>3
  DEF InterruptOver, InterruptFails, Take, SendTurn, Started, StartFails, Settled, InterruptEnds,
      StartTurn, Unserved, Refuse, codexVars
<1>4. CASE Close \/ Rebuild \/ Rebuilt \/ FailTurn \/ WarmedUp \/ SendControl \/ Controlled
  BY <1>4
  DEF Close, Rebuild, Rebuilt, FailTurn, WarmedUp, SendControl, Controlled, StartThread, Unserved,
      Refuse, codexVars
<1>5. CASE \E s \in Prompts : Submit(s)
  BY <1>5
  DEF Submit, codexVars
<1>6. CASE \E v \in {"attach", "warm"} : Launch(v) \/ LaunchFails(v)
  BY <1>6
  DEF Launch, LaunchFails, codexVars
<1>7. CASE Warmup \/ WarmTimeout \/ Control \/ RolloutMissed \/ Shutdown \/ ItemsDone
  BY <1>7
  DEF Warmup, WarmTimeout, Control, RolloutMissed, Shutdown, ItemsDone, ShutDown, LoseProcess,
      Interrupt, AskInterrupt, codexVars
<1>8. CASE \E source \in {"user", "system"} : Stop(source)
  BY <1>8
  DEF Stop, Interrupt, AskInterrupt, codexVars
<1>9. CASE \E p \in Procs : Speak(p) \/ Finish(p) \/ GoalTurn(p) \/ Die(p) \/ Closed(p)
  BY <1>9
  DEF Speak, Finish, GoalTurn, Die, Closed, codexVars
<1>10. CASE UNCHANGED vars
  BY <1>10
  DEF vars, codexVars
<1>11. QED
  BY <1>1, <1>2, <1>3, <1>4, <1>5, <1>6, <1>7, <1>8, <1>9, <1>10
  DEF Next, ReadStep, Continuation, Event

GoesOver ==
  \/ UNCHANGED threadId
  \/ threadId' = None /\ (ThreadGone \/ Rebuild)
  \/ ThreadReady /\ attach = "start" /\ answer["attach"].is = "ok" /\ threadId' = answer["attach"].id
  \/ Rebuilt /\ pc = "rebuild" /\ answer["turn"].is = "ok" /\ threadId' = answer["turn"].id

(* and go over to one. *)
LEMMA ThreadIdStep ==
  ASSUME Typed, [Next]_vars
  PROVE  GoesOver
<1>1. CASE \E p \in Procs : Ignore(p) \/ Answered(p) \/ Output(p) \/ Ended(p)
  BY <1>1
  DEF Ignore, Answered, Output, Ended, Read, threadVars, GoesOver
<1>2. CASE \/ Initialized \/ SendThread \/ ThreadReady \/ ThreadGone \/ AttachFails
           \/ FoundOrphan \/ InterruptTaken \/ Retarget
  BY <1>2
  DEF Initialized, SendThread, ThreadReady, ThreadGone, AttachFails, FoundOrphan, InterruptTaken,
      Retarget, Got, threadVars, GoesOver
<1>3. CASE \/ InterruptOver \/ InterruptFails \/ Take \/ SendTurn \/ Started \/ StartFails
           \/ Settled
  BY <1>3
  DEF InterruptOver, InterruptFails, Take, SendTurn, Started, StartFails, Settled, InterruptEnds,
      threadVars, GoesOver
<1>4. CASE Close \/ Rebuild \/ Rebuilt \/ FailTurn \/ WarmedUp \/ SendControl \/ Controlled
  BY <1>4
  DEF Close, Rebuild, Rebuilt, FailTurn, WarmedUp, SendControl, Controlled, Got, threadVars,
      GoesOver
<1>5. CASE \E s \in Prompts : Submit(s)
  BY <1>5
  DEF Submit, threadVars, GoesOver
<1>6. CASE \E v \in {"attach", "warm"} : Launch(v) \/ LaunchFails(v)
  BY <1>6
  DEF Launch, LaunchFails, threadVars, GoesOver
<1>7. CASE Warmup \/ WarmTimeout \/ Control \/ RolloutMissed \/ Shutdown \/ ItemsDone
  BY <1>7
  DEF Warmup, WarmTimeout, Control, RolloutMissed, Shutdown, ItemsDone, ShutDown, LoseProcess,
      threadVars, GoesOver
<1>8. CASE \E source \in {"user", "system"} : Stop(source)
  BY <1>8
  DEF Stop, threadVars, GoesOver
<1>9. CASE \E p \in Procs : Speak(p) \/ Finish(p) \/ GoalTurn(p) \/ Die(p) \/ Closed(p)
  BY <1>9
  DEF Speak, Finish, GoalTurn, Die, Closed, LoseProcess, threadVars, GoesOver
<1>10. CASE UNCHANGED vars
  BY <1>10
  DEF vars, threadVars, GoesOver
<1>11. QED
  BY <1>1, <1>2, <1>3, <1>4, <1>5, <1>6, <1>7, <1>8, <1>9, <1>10
  DEF Next, ReadStep, Continuation, Event

(* Nobody is given an answer before it waits for one. *)
LEMMA NotGranted ==
  ASSUME Typed, Asked, NEW w \in Waiters, answer[w].is = "none", NEW n
  PROVE  ~ Granted(w, n)
<1>1. w # "thread"
  BY DEF Waiters
<1>2. [is |-> "sent", id |-> proc].is = "sent"
  OBVIOUS
<1>3. QED
  BY <1>1, <1>2 DEF Granted, Asked

(* Every step keeps that a turn is started with its own number, *)
LEMMA NumberedStep ==
  ASSUME Typed, Numbered, Asked, Turning, Lined, [Next]_vars
  PROVE  Numbered'
<1>1. ASSUME pc' = "starting", NEW n, Granted("turn", n)' PROVE n = cur'
  <2>1. SendTurn \/ (pc = "starting" /\ UNCHANGED cur)
    BY <1>1, StartingStep
  <2>2. Granted("turn", n) \/ Grants("turn", n)
    BY <1>1, GrantedStep
  <2>3. CASE SendTurn
    <3>1. answer["turn"].is = "none" /\ "turn" \in Waiters
      BY <2>3 DEF SendTurn, Turning, Nothing, Waiters
    <3>2. n = cur
      BY <2>2, <2>3, <3>1, NotGranted DEF Grants, SendTurn, Rebuild
    <3>3. QED
      BY <2>3, <3>2 DEF SendTurn
  <2>4. CASE pc = "starting" /\ UNCHANGED cur
    <3>1. ~ Grants("turn", n)
      BY <2>4 DEF Grants, SendTurn, Rebuild
    <3>2. QED
      BY <2>2, <2>4, <3>1 DEF Numbered, Granted
  <2>5. QED
    BY <2>1, <2>3, <2>4
<1>2. QED
  BY <1>1 DEF Numbered, Granted

(* and that a new thread is new. *)
LEMMA ThreadedStep ==
  ASSUME Typed, Threaded, Asked, Attaching, Turning, Lined, [Next]_vars
  PROVE  Threaded'
<1>1. /\ threads \in Nat /\ threads' \in Nat /\ threads <= threads' /\ 1..threads \subseteq 1..threads'
      /\ threads + 1 \notin 1..threads
  BY ThreadsStep DEF Typed, NamesTyped
<1>2. threadId' \in 1..threads' \cup {None}
  <2>1. threadId' \in 1..threads \cup {None}
    BY ThreadIdStep DEF GoesOver, Threaded, Expects, New
  <2>2. QED
    BY <1>1, <2>1
<1>3. \A s \in Prompts : ran'[s] \in 1..threads' \cup {None}
  <2>1. \A s \in Prompts : ran'[s] \in 1..threads \cup {None}
    BY RanStep DEF Threaded, Typed, SeenTyped
  <2>2. QED
    BY <1>1, <2>1
<1>4. ASSUME NEW w \in {"attach", "turn"}, Expects(w)', NEW n, Granted(w, n)' PROVE New(n)'
  <2>1. Granted(w, n) \/ Grants(w, n)
    BY <1>4, GrantedStep
  <2>2. UNCHANGED ran
    <3>1. ~ SendTurn
      BY <1>4 DEF SendTurn, Turning, Attaching, Expects
    <3>2. QED
      BY <3>1, RanStep
  <2>3. CASE Expects(w) /\ Granted(w, n)
    <3>1. New(n)
      BY <2>3 DEF Threaded, Granted
    <3>2. QED
      BY <1>1, <2>2, <3>1 DEF New
  <2>4. CASE n = threads + 1 /\ threads' = n
    <3>1. \A s \in Prompts : ran[s] # n
      BY <1>1, <2>4, Names DEF Threaded
    <3>2. QED
      BY <1>1, <2>2, <2>4, <3>1 DEF New
  <2>5. CASE Grants(w, n) /\ ~ (n = threads + 1 /\ threads' = n)
    BY <1>4, <2>5 DEF Grants, Expects, Launch, SendThread, SendTurn, turnVars
  <2>6. CASE ~ Expects(w) /\ Granted(w, n)
    <3>1. (w = "attach" /\ SendThread) \/ (w = "turn" /\ Rebuild)
      BY <1>4, <2>6, ExpectsStep
    <3>2. answer[w].is = "none" /\ w \in Waiters
      BY <3>1 DEF SendThread, Rebuild, Attaching, Turning, Nothing, Waiters
    <3>3. QED
      BY <2>6, <3>2, NotGranted
  <2>7. QED
    BY <2>1, <2>3, <2>4, <2>5, <2>6
<1>5. ASSUME NEW w \in {"attach", "turn"}, Expects(w)'
      PROVE  (/\ answer[w].is = "ok" => New(answer[w].id)
              /\ proc # None => \A k \in DOMAIN out[proc] :
                   out[proc][k].to = w /\ out[proc][k].is = "ok" => New(out[proc][k].id))'
  <2>1. \A n : Granted(w, n)' => n \in 1..threads' /\ \A s \in Prompts : ran'[s] # n
    BY <1>4, <1>5 DEF New
  <2>2. QED
    BY <2>1 DEF Granted, New
<1>6. QED
  BY <1>2, <1>3, <1>5 DEF Threaded

--------------------------------------------------------------------------------
(* A prompt is closed. *)
LEMMA LinedClosed ==
  ASSUME Typed, Lined, pc # "idle", pc' = "idle", UNCHANGED <<queue, cur, ran>>,
         NEW h, NEW b, h # "none", ends' = [ends EXCEPT ![cur] = [how |-> h, by |-> b]]
  PROVE  Lined'
<1>1. cur \in Prompts /\ ends \in [Prompts -> Closing] /\ queue \in Seq(Prompts)
  BY DEF Lined, Typed, SeenTyped, QueueTyped
<1>2. ends'[cur].how # "none" /\ \A s \in Prompts \ {cur} : ends'[s] = ends[s]
  BY <1>1
<1>3. \A k \in DOMAIN queue : queue[k] \in Prompts /\ cur < queue[k] /\ queue[k] # cur
  BY <1>1, Names DEF Lined
<1>4. \A t \in Prompts : cur < t => t # cur
  BY <1>1, Names
<1>5. \A s, t \in Prompts : s < t /\ ends'[t].how # "none" => ends'[s].how # "none"
  BY <1>1, <1>2 DEF Lined
<1>6. \A k \in DOMAIN queue : cur < queue[k] /\ ends'[queue[k]].how = "open"
  BY <1>2, <1>3 DEF Lined
<1>7. \A t \in Prompts : cur < t => ran[t] = None /\ ends'[t].how \in {"none", "open", "dropped"}
  BY <1>2, <1>4 DEF Lined
<1>8. QED
  BY <1>2, <1>5, <1>6, <1>7 DEF Lined

(* A prompt is taken. *)
LEMMA LinedTaken ==
  ASSUME Typed, Lined, Take
  PROVE  Lined'
<1>1. queue \in Seq(Prompts) /\ queue # <<>> /\ cur' = Head(queue) /\ queue' = Tail(queue) /\ UNCHANGED <<ends, ran>>
  BY DEF Take, Typed, QueueTyped
<1>2. /\ cur' = queue[1] /\ 1 \in DOMAIN queue /\ queue[1] \in Prompts
      /\ \A k \in DOMAIN queue' : k + 1 \in DOMAIN queue /\ k \in Nat /\ k > 0 /\ queue'[k] = queue[k + 1]
  <2>1. /\ cur' = queue[1] /\ 1 \in DOMAIN queue /\ queue[1] \in Prompts /\ DOMAIN queue' = 1..(Len(queue) - 1)
        /\ \A k \in DOMAIN queue' : k + 1 \in DOMAIN queue /\ queue'[k] = queue[k + 1]
        /\ Len(queue) \in Nat
    BY <1>1, Shrunk
  <2>2. QED
    BY <2>1
<1>3. cur \in Nat /\ cur' \in Nat /\ cur < cur' /\ ends[cur'].how = "open"
  BY <1>2, Names DEF Lined, Typed, QueueTyped
<1>4. \A k \in DOMAIN queue' : cur' < queue'[k] /\ ends[queue'[k]].how = "open"
  BY <1>2 DEF Lined
<1>5. \A i, j \in DOMAIN queue' : i < j => queue'[i] < queue'[j]
  <2>1. ASSUME NEW i \in DOMAIN queue', NEW j \in DOMAIN queue', i < j PROVE queue'[i] < queue'[j]
    <3>1. i + 1 \in DOMAIN queue /\ j + 1 \in DOMAIN queue /\ i + 1 < j + 1
      BY <1>2, <2>1
    <3>2. queue[i + 1] < queue[j + 1]
      BY <3>1 DEF Lined
    <3>3. QED
      BY <1>2, <3>2
  <2>2. QED
    BY <2>1
<1>6. \A t \in Prompts : cur' < t => ran[t] = None /\ ends[t].how \in {"none", "open", "dropped"}
  <2>1. \A t \in Prompts : cur' < t => cur < t
    BY <1>3, Names
  <2>2. QED
    BY <2>1 DEF Lined
<1>7. QED
  BY <1>1, <1>2, <1>3, <1>4, <1>5, <1>6 DEF Lined

(* A prompt is submitted. *)
LEMMA LinedSubmitted ==
  ASSUME Typed, Lined, NEW s \in Prompts, Submit(s)
  PROVE  Lined'
<1>1. /\ queue \in Seq(Prompts) /\ queue' = Append(queue, s) /\ ends \in [Prompts -> Closing]
      /\ ends[s].how = "none" /\ ends' = [ends EXCEPT ![s].how = "open"] /\ UNCHANGED <<cur, pc, ran>>
      /\ \A t \in Prompts : t < s => ends[t].how # "none"
  BY DEF Submit, Typed, QueueTyped, SeenTyped, turnVars
<1>2. ends'[s].how = "open" /\ \A t \in Prompts \ {s} : ends'[t] = ends[t]
  BY <1>1
<1>3. \A t \in Prompts : ends[t].how # "none" => t < s
  <2>1. \A t \in Prompts : t \in Nat /\ s \in Nat /\ (t < s \/ t = s \/ s < t)
    BY Names
  <2>2. QED
    BY <1>1, <2>1 DEF Lined
<1>4. cur < s
  <2>1. cur = 0 \/ cur \in Prompts
    BY Names DEF Typed, QueueTyped, Prompts
  <2>2. QED
    BY <1>3, <2>1, Names DEF Lined, Prompts
<1>5. /\ DOMAIN queue = 1..Len(queue) /\ DOMAIN queue' = 1..(Len(queue) + 1) /\ Len(queue) \in Nat
      /\ queue'[Len(queue) + 1] = s
      /\ \A k \in DOMAIN queue : queue'[k] = queue[k] /\ queue[k] \in Prompts
  BY <1>1
<1>6. \A k \in DOMAIN queue : queue[k] < s /\ queue[k] # s
  BY <1>3, <1>5, Names DEF Lined
<1>7. \A k \in DOMAIN queue' : (k \in DOMAIN queue /\ queue'[k] = queue[k]) \/ (k = Len(queue) + 1 /\ queue'[k] = s)
  BY <1>5
<1>8. \A k \in DOMAIN queue' : cur < queue'[k] /\ ends'[queue'[k]].how = "open"
  BY <1>2, <1>4, <1>5, <1>6, <1>7 DEF Lined
<1>9. \A i, j \in DOMAIN queue' : i < j => queue'[i] < queue'[j]
  BY <1>5, <1>6, <1>7 DEF Lined
<1>10. \A r, t \in Prompts : r < t /\ ends'[t].how # "none" => ends'[r].how # "none"
  BY <1>1, <1>2 DEF Lined
<1>11. \A t \in Prompts : cur < t => ran[t] = None /\ ends'[t].how \in {"none", "open", "dropped"}
  BY <1>2 DEF Lined
<1>12. QED
  BY <1>1, <1>2, <1>8, <1>9, <1>10, <1>11 DEF Lined

(* Those that wait are dropped. *)
LEMMA LinedDropped ==
  ASSUME Typed, Lined, ShutDown
  PROVE  Lined'
<1>1. /\ queue \in Seq(Prompts) /\ queue' = <<>> /\ UNCHANGED <<cur, pc, ran>>
      /\ ends' = [s \in Prompts |-> IF \E i \in DOMAIN queue : queue[i] = s
                                    THEN [how |-> "dropped", by |-> None] ELSE ends[s]]
  BY DEF ShutDown, Typed, QueueTyped
<1>2. \A s \in Prompts : /\ (\E i \in DOMAIN queue : queue[i] = s) => ends'[s].how = "dropped" /\ ends[s].how = "open" /\ s # cur
                         /\ ~ (\E i \in DOMAIN queue : queue[i] = s) => ends'[s] = ends[s]
  BY <1>1, Names DEF Lined, Typed, QueueTyped
<1>3. \A s, t \in Prompts : s < t /\ ends'[t].how # "none" => ends'[s].how # "none"
  <2>1. \A s \in Prompts : ends'[s].how # "none" <=> ends[s].how # "none"
    BY <1>2
  <2>2. QED
    BY <2>1 DEF Lined
<1>4. \A t \in Prompts : cur < t => ran[t] = None /\ ends'[t].how \in {"none", "open", "dropped"}
  BY <1>2 DEF Lined
<1>5. (pc # "idle" => cur \in Prompts /\ ends'[cur].how = "open") /\ (cur # 0 => ends'[cur].how # "none")
  <2>1. cur # 0 => cur \in Prompts
    BY Names DEF Typed, QueueTyped, Prompts
  <2>2. QED
    BY <1>2, <2>1 DEF Lined
<1>6. DOMAIN queue' = {}
  BY <1>1
<1>7. QED
  BY <1>1, <1>3, <1>4, <1>5, <1>6 DEF Lined

(* Every step keeps the order of the prompts. *)
LEMMA LinedStep ==
  ASSUME Typed, Lined, Turning, [Next]_vars
  PROVE  Lined'
<1>1. UNCHANGED <<queue, cur, ends, ran>> /\ (pc' = "idle" \/ pc # "idle") => Lined'
  BY DEF Lined
<1>2. UNCHANGED <<cur, ends, pc, queue, ran>> => Lined'
  BY DEF Lined
<1>3. CASE \E p \in Procs : Ignore(p) \/ Answered(p) \/ Output(p) \/ Ended(p)
  BY <1>3, <1>2
  DEF Ignore, Answered, Output, Ended, Read, turnVars, seenVars
<1>4. CASE \/ Initialized \/ SendThread \/ ThreadGone \/ FoundOrphan \/ InterruptTaken
           \/ Retarget
  BY <1>4, <1>2
  DEF Initialized, SendThread, ThreadGone, FoundOrphan, InterruptTaken, Retarget, turnVars,
      seenVars
<1>5. CASE ThreadReady
  BY <1>5, <1>1
  DEF ThreadReady, AttachEnds, turnVars, seenVars
<1>6. CASE AttachFails
  BY <1>6, <1>1
  DEF AttachFails, AttachEnds, turnVars, seenVars
<1>7. CASE InterruptOver
  BY <1>7, <1>1
  DEF InterruptOver, InterruptEnds, AttachEnds, turnVars, seenVars
<1>8. CASE InterruptFails
  BY <1>8, <1>1
  DEF InterruptFails, InterruptEnds, AttachEnds, turnVars, seenVars
<1>9. CASE Take
  BY <1>9, LinedTaken
<1>10. CASE SendTurn
  <2>1. UNCHANGED <<queue, cur, ends>> /\ pc # "idle" /\ ran' = [ran EXCEPT ![cur] = threadId]
    BY <1>10 DEF SendTurn
  <2>2. \A t \in Prompts : cur < t => ran'[t] = ran[t]
    BY <2>1, Names DEF Lined, Typed, SeenTyped
  <2>3. QED
    BY <2>1, <2>2 DEF Lined
<1>11. CASE Started
  BY <1>11, <1>1
  DEF Started, turnVars, seenVars
<1>12. CASE StartFails
  BY <1>12, <1>1
  DEF StartFails, turnVars, seenVars
<1>13. CASE Settled
  BY <1>13, <1>1
  DEF Settled, turnVars, seenVars
<1>14. CASE WarmedUp \/ SendControl \/ Controlled
  BY <1>14, <1>2
  DEF WarmedUp, SendControl, Controlled, turnVars, seenVars
<1>15. CASE Close
  <2>1. completer.is # "none" /\ UNCHANGED <<queue, cur, ran>> /\ pc = "close" /\ pc' = "idle"
    BY <1>15 DEF Close, End, Turning
  <2>2. PICK h \in {completer.is, "user"} : ends' = [ends EXCEPT ![cur] = [how |-> h, by |-> completer.id]]
    BY <1>15 DEF Close, End
  <2>3. QED
    BY <2>1, <2>2, LinedClosed
<1>16. CASE Rebuild
  BY <1>16, <1>1
  DEF Rebuild, turnVars, seenVars
<1>17. CASE Rebuilt
  <2>1. UNCHANGED <<queue, cur, ran>> /\ pc = "rebuild" /\ pc' = "idle"
    BY <1>17 DEF Rebuilt, End
  <2>2. ends' = [ends EXCEPT ![cur] = [how |-> "rollout", by |-> completer.id]]
    BY <1>17 DEF Rebuilt, End
  <2>3. QED
    BY <2>1, <2>2, LinedClosed
<1>18. CASE FailTurn
  BY <1>18, LinedClosed
  DEF FailTurn, turnVars, seenVars
<1>19. ASSUME NEW s \in Prompts, Submit(s) PROVE Lined'
  BY <1>19, LinedSubmitted
<1>20. CASE \E w \in {"attach", "warm"} : Launch(w)
  BY <1>20, <1>2
  DEF Launch, turnVars, seenVars
<1>21. ASSUME NEW w \in {"attach", "warm"}, LaunchFails(w) PROVE Lined'
  BY <1>21, <1>1
  DEF LaunchFails, AttachEnds, turnVars, seenVars
<1>22. CASE Warmup \/ Control \/ RolloutMissed \/ ItemsDone
  BY <1>22, <1>2
  DEF Warmup, Control, RolloutMissed, ItemsDone, turnVars, seenVars
<1>23. CASE WarmTimeout
  BY <1>23, LinedDropped DEF WarmTimeout
<1>24. CASE Shutdown
  BY <1>24, LinedDropped DEF Shutdown
<1>25. CASE \E source \in {"user", "system"} : Stop(source)
  BY <1>25, <1>2
  DEF Stop, turnVars, seenVars
<1>26. CASE \E p \in Procs : Speak(p) \/ Finish(p) \/ GoalTurn(p) \/ Die(p) \/ Closed(p)
  BY <1>26, <1>2
  DEF Speak, Finish, GoalTurn, Die, Closed, turnVars, seenVars
<1>27. CASE UNCHANGED vars
  BY <1>27, <1>2
  DEF vars, turnVars, seenVars
<1>28. QED
  BY <1>1, <1>3, <1>4, <1>5, <1>6, <1>7, <1>8, <1>9, <1>10, <1>11, <1>12, <1>13, <1>14, <1>15,
     <1>16, <1>17, <1>18, <1>19, <1>20, <1>21, <1>22, <1>23, <1>24, <1>25, <1>26, <1>27
  DEF Next, ReadStep, Continuation, Event

--------------------------------------------------------------------------------
(* How a step may close a prompt, *)
EndsAs(s) ==
  \/ ends'[s].how = ends[s].how
  \/ ends'[s].how \in {"open", "dropped", "error", "completed", "interrupted"}
  \/ Close /\ s = cur /\ reason = "user" /\ ends'[s].how = "user"
  \/ Rebuilt /\ s = cur /\ pc = "rebuild" /\ ends'[s].how = "rollout"
Remembers ==
  /\ stopped \subseteq stopped' /\ noticed \subseteq noticed'
  /\ reason' = "user" => cur' \in stopped'
  /\ reason' = "rollout" => cur' \in noticed'

(* what it does, *)
LEMMA EndsStep ==
  ASSUME Typed, Turning, NEW s \in Prompts, [Next]_vars
  PROVE  EndsAs(s)
<1>1. CASE \E p \in Procs : Ignore(p) \/ Answered(p) \/ Output(p) \/ Ended(p)
  BY <1>1
  DEF Ignore, Answered, Output, Ended, Read, seenVars, SeenTyped, Typed, EndsAs
<1>2. CASE \/ Initialized \/ SendThread \/ ThreadReady \/ ThreadGone \/ AttachFails
           \/ FoundOrphan \/ InterruptTaken \/ Retarget
  BY <1>2
  DEF Initialized, SendThread, ThreadReady, ThreadGone, AttachFails, FoundOrphan, InterruptTaken,
      Retarget, seenVars, SeenTyped, Typed, EndsAs
<1>3. CASE \/ InterruptOver \/ InterruptFails \/ Take \/ SendTurn \/ Started \/ StartFails
           \/ Settled
  BY <1>3
  DEF InterruptOver, InterruptFails, Take, SendTurn, Started, StartFails, Settled, InterruptEnds,
      seenVars, SeenTyped, Typed, EndsAs
<1>4. CASE Rebuild \/ WarmedUp \/ SendControl \/ Controlled
  BY <1>4
  DEF Rebuild, WarmedUp, SendControl, Controlled, seenVars, SeenTyped, Typed, EndsAs
<1>5. CASE Close
  <2>1. completer.is \in {"completed", "interrupted"} /\ ends \in [Prompts -> Closing]
    BY <1>5 DEF Close, Turning, Typed, SeenTyped
  <2>2. PICK h \in {"completed", "interrupted", "user"} :
          /\ h = "user" => reason = "user"
          /\ ends' = [ends EXCEPT ![cur] = [how |-> h, by |-> completer.id]]
    BY <1>5, <2>1 DEF Close, End
  <2>3. CASE s # cur
    BY <2>1, <2>2, <2>3 DEF EndsAs
  <2>4. CASE s = cur
    <3>1. ends'[s].how = h
      BY <2>1, <2>2, <2>4
    <3>2. QED
      BY <1>5, <2>2, <2>4, <3>1 DEF EndsAs
  <2>5. QED
    BY <2>3, <2>4
<1>6. CASE Rebuilt
  BY <1>6
  DEF Rebuilt, End, seenVars, SeenTyped, Typed, EndsAs
<1>7. CASE FailTurn
  BY <1>7
  DEF FailTurn, seenVars, SeenTyped, Typed, EndsAs
<1>8. ASSUME NEW t \in Prompts, Submit(t) PROVE EndsAs(s)
  <2>1. ends \in [Prompts -> Closing] /\ ends' = [ends EXCEPT ![t].how = "open"]
    BY <1>8 DEF Submit, Typed, SeenTyped
  <2>2. ends'[s] = IF s = t THEN [ends[s] EXCEPT !.how = "open"] ELSE ends[s]
    BY <2>1
  <2>3. ends[s] \in Closing
    BY <2>1
  <2>4. [ends[s] EXCEPT !.how = "open"].how = "open"
    BY <2>3 DEF Closing
  <2>5. CASE s = t
    <3>1. ends'[s].how = "open"
      BY <2>2, <2>4, <2>5
    <3>2. QED
      BY <3>1 DEF EndsAs
  <2>6. CASE s # t
    <3>1. ends'[s] = ends[s]
      BY <2>2, <2>6
    <3>2. QED
      BY <3>1 DEF EndsAs
  <2>7. QED
    BY <2>5, <2>6
<1>9. CASE \E w \in {"attach", "warm"} : Launch(w) \/ LaunchFails(w)
  BY <1>9
  DEF Launch, LaunchFails, seenVars, SeenTyped, Typed, EndsAs
<1>10. CASE Warmup \/ Control \/ RolloutMissed \/ ItemsDone
  BY <1>10
  DEF Warmup, Control, RolloutMissed, ItemsDone, seenVars, SeenTyped, Typed, EndsAs
<1>11. CASE WarmTimeout
  BY <1>11
  DEF WarmTimeout, ShutDown, LoseProcess, seenVars, SeenTyped, Typed, EndsAs
<1>12. CASE Shutdown
  BY <1>12
  DEF Shutdown, ShutDown, LoseProcess, seenVars, SeenTyped, Typed, EndsAs
<1>13. CASE \E source \in {"user", "system"} : Stop(source)
  BY <1>13
  DEF Stop, seenVars, SeenTyped, Typed, EndsAs
<1>14. CASE \E p \in Procs : Speak(p) \/ Finish(p) \/ GoalTurn(p) \/ Die(p) \/ Closed(p)
  BY <1>14
  DEF Speak, Finish, GoalTurn, Die, Closed, seenVars, SeenTyped, Typed, EndsAs
<1>15. CASE UNCHANGED vars
  BY <1>15
  DEF vars, seenVars, SeenTyped, Typed, EndsAs
<1>16. QED
  BY <1>1, <1>2, <1>3, <1>4, <1>5, <1>6, <1>7, <1>8, <1>9, <1>10, <1>11, <1>12, <1>13, <1>14,
     <1>15
  DEF Next, ReadStep, Continuation, Event

(* which prompts have lost their thread, *)
LEMMA LostStep ==
  ASSUME Typed, Turning, Lined, NEW s \in Prompts, Lost(s)', [Next]_vars
  PROVE  Lost(s) \/ (Rebuild /\ s = cur)
<1>1. UNCHANGED <<cur, ends, pc>> => Lost(s) \/ (Rebuild /\ s = cur)
  BY DEF Lost
<1>2. CASE \E p \in Procs : Ignore(p) \/ Answered(p) \/ Output(p) \/ Ended(p)
  BY <1>2, <1>1
  DEF Ignore, Answered, Output, Ended, Read, turnVars, seenVars
<1>3. CASE \/ Initialized \/ SendThread \/ ThreadGone \/ FoundOrphan \/ InterruptTaken
           \/ Retarget
  BY <1>3, <1>1
  DEF Initialized, SendThread, ThreadGone, FoundOrphan, InterruptTaken, Retarget, turnVars,
      seenVars
<1>4. CASE ThreadReady
  BY <1>4, EndsStep
  DEF ThreadReady, EndsAs, AttachEnds, Lost, turnVars, turnVars, seenVars
<1>5. CASE AttachFails
  BY <1>5, EndsStep
  DEF AttachFails, EndsAs, AttachEnds, Lost, turnVars, turnVars, seenVars
<1>6. CASE InterruptOver
  BY <1>6, EndsStep
  DEF InterruptOver, InterruptEnds, EndsAs, AttachEnds, Lost, turnVars, seenVars
<1>7. CASE InterruptFails
  BY <1>7, EndsStep
  DEF InterruptFails, InterruptEnds, EndsAs, AttachEnds, Lost, turnVars, seenVars
<1>8. CASE Take
  BY <1>8
  DEF Take, Lost, turnVars, seenVars
<1>9. CASE SendTurn
  BY <1>9
  DEF SendTurn, Lost, turnVars, seenVars
<1>10. CASE Started
  BY <1>10
  DEF Started, Lost, turnVars, seenVars
<1>11. CASE StartFails
  BY <1>11
  DEF StartFails, Lost, turnVars, seenVars
<1>12. CASE Settled
  BY <1>12
  DEF Settled, Lost, turnVars, seenVars
<1>13. CASE WarmedUp \/ SendControl \/ Controlled
  BY <1>13, <1>1
  DEF WarmedUp, SendControl, Controlled, turnVars, seenVars
<1>14. CASE Close
  BY <1>14, EndsStep
  DEF Close, EndsAs, End, Lost, Rebuilt, turnVars, seenVars
<1>15. CASE Rebuild
  BY <1>15
  DEF Rebuild, Lost, turnVars, seenVars
<1>16. CASE Rebuilt
  BY <1>16, EndsStep
  DEF Rebuilt, EndsAs, End, Lost, Close, turnVars, seenVars
<1>17. CASE FailTurn
  BY <1>17, EndsStep
  DEF FailTurn, EndsAs, Lost, turnVars, seenVars
<1>18. ASSUME NEW t \in Prompts, Submit(t) PROVE Lost(s) \/ (Rebuild /\ s = cur)
  BY <1>18, EndsStep
  DEF Submit, EndsAs, Lost, turnVars, seenVars
<1>19. CASE \E w \in {"attach", "warm"} : Launch(w)
  BY <1>19, <1>1
  DEF Launch, turnVars, seenVars
<1>20. ASSUME NEW w \in {"attach", "warm"}, LaunchFails(w) PROVE Lost(s) \/ (Rebuild /\ s = cur)
  BY <1>20, EndsStep
  DEF LaunchFails, EndsAs, AttachEnds, Lost, turnVars, turnVars, seenVars
<1>21. CASE Warmup \/ Control \/ RolloutMissed \/ ItemsDone
  BY <1>21, <1>1
  DEF Warmup, Control, RolloutMissed, ItemsDone, turnVars, seenVars
<1>22. CASE WarmTimeout
  <2>1. ends'[s].how \in {ends[s].how, "dropped"} /\ UNCHANGED <<pc, cur>>
    BY <1>22 DEF WarmTimeout, ShutDown
  <2>2. QED
    BY <2>1 DEF Lost
<1>23. CASE Shutdown
  <2>1. ends'[s].how \in {ends[s].how, "dropped"} /\ UNCHANGED <<pc, cur>>
    BY <1>23 DEF Shutdown, ShutDown
  <2>2. QED
    BY <2>1 DEF Lost
<1>24. CASE \E source \in {"user", "system"} : Stop(source)
  BY <1>24, <1>1
  DEF Stop, turnVars, seenVars
<1>25. CASE \E p \in Procs : Speak(p) \/ Finish(p) \/ GoalTurn(p) \/ Die(p) \/ Closed(p)
  BY <1>25, <1>1
  DEF Speak, Finish, GoalTurn, Die, Closed, turnVars, seenVars
<1>26. CASE UNCHANGED vars
  BY <1>26, <1>1
  DEF vars, turnVars, seenVars
<1>27. QED
  BY <1>2, <1>3, <1>4, <1>5, <1>6, <1>7, <1>8, <1>9, <1>10, <1>11, <1>12, <1>13, <1>14, <1>15,
     <1>16, <1>17, <1>18, <1>19, <1>20, <1>21, <1>22, <1>23, <1>24, <1>25, <1>26
  DEF Next, ReadStep, Continuation, Event

(* and for what reason. *)
LEMMA ReasonsStep ==
  ASSUME Typed, Caused, [Next]_vars
  PROVE  Remembers
<1>1. CASE \E p \in Procs : Ignore(p) \/ Answered(p) \/ Output(p) \/ Ended(p)
  BY <1>1
  DEF Ignore, Answered, Output, Ended, Read, turnVars, eventVars, seenVars, Caused, Remembers
<1>2. CASE \/ Initialized \/ SendThread \/ ThreadReady \/ ThreadGone \/ AttachFails
           \/ FoundOrphan \/ InterruptTaken \/ Retarget
  BY <1>2
  DEF Initialized, SendThread, ThreadReady, ThreadGone, AttachFails, FoundOrphan, InterruptTaken,
      Retarget, turnVars, eventVars, seenVars, Caused, Remembers
<1>3. CASE \/ InterruptOver \/ InterruptFails \/ Take \/ SendTurn \/ Started \/ StartFails
           \/ Settled
  BY <1>3
  DEF InterruptOver, InterruptFails, Take, SendTurn, Started, StartFails, Settled, InterruptEnds,
      Forget, turnVars, eventVars, seenVars, Caused, Remembers
<1>4. CASE Close \/ Rebuild \/ Rebuilt \/ FailTurn \/ WarmedUp \/ SendControl \/ Controlled
  BY <1>4
  DEF Close, Rebuild, Rebuilt, FailTurn, WarmedUp, SendControl, Controlled, turnVars, eventVars,
      seenVars, Caused, Remembers
<1>5. CASE \E t \in Prompts : Submit(t)
  BY <1>5
  DEF Submit, turnVars, eventVars, seenVars, Caused, Remembers
<1>6. CASE \E w \in {"attach", "warm"} : Launch(w) \/ LaunchFails(w)
  BY <1>6
  DEF Launch, LaunchFails, turnVars, eventVars, seenVars, Caused, Remembers
<1>7. CASE Warmup \/ WarmTimeout \/ Control \/ RolloutMissed \/ Shutdown \/ ItemsDone
  BY <1>7
  DEF Warmup, WarmTimeout, Control, RolloutMissed, Shutdown, ItemsDone, ShutDown, LoseProcess,
      turnVars, eventVars, seenVars, Caused, Remembers
<1>8. CASE \E source \in {"user", "system"} : Stop(source)
  BY <1>8
  DEF Stop, turnVars, eventVars, seenVars, Caused, Remembers
<1>9. CASE \E p \in Procs : Speak(p) \/ Finish(p) \/ GoalTurn(p) \/ Die(p) \/ Closed(p)
  BY <1>9
  DEF Speak, Finish, GoalTurn, Die, Closed, LoseProcess, turnVars, eventVars, seenVars, Caused,
      Remembers
<1>10. CASE UNCHANGED vars
  BY <1>10
  DEF vars, turnVars, eventVars, seenVars, Caused, Remembers
<1>11. QED
  BY <1>1, <1>2, <1>3, <1>4, <1>5, <1>6, <1>7, <1>8, <1>9, <1>10
  DEF Next, ReadStep, Continuation, Event

(* Every step keeps that a prompt ends for its cause. *)
LEMMA CausedStep ==
  ASSUME Typed, Caused, Threaded, Turning, Lined, [Next]_vars
  PROVE  Caused'
<1>1. /\ stopped \subseteq stopped' /\ noticed \subseteq noticed'
      /\ reason' = "user" => cur' \in stopped'
      /\ reason' = "rollout" => cur' \in noticed'
  BY ReasonsStep DEF Remembers
<1>2. ASSUME NEW s \in Prompts, ends'[s].how = "user" PROVE s \in stopped'
  BY <1>1, <1>2, EndsStep DEF EndsAs, Caused
<1>3. ASSUME NEW s \in Prompts, Lost(s)'
      PROVE  /\ s \in noticed'
             /\ ran'[s] # None => threadId' # ran'[s]
             /\ \A t \in Prompts : s < t /\ ran'[t] # None => ran'[t] # ran'[s]
  <2>1. CASE Lost(s)
    <3>1. /\ s \in noticed /\ (ran[s] # None => threadId # ran[s])
          /\ \A t \in Prompts : s < t /\ ran[t] # None => ran[t] # ran[s]
      BY <2>1 DEF Caused
    <3>2. ran[s] # None => threadId' # ran[s]
      BY <3>1, ThreadIdStep DEF GoesOver, Threaded, Expects, New
    <3>3. CASE UNCHANGED ran
      BY <1>1, <3>1, <3>2, <3>3
    <3>4. CASE SendTurn /\ ran' = [ran EXCEPT ![cur] = threadId]
      <4>1. s # cur /\ cur \in Prompts /\ UNCHANGED threadId
        BY <2>1, <3>4 DEF SendTurn, Lost, Lined, threadVars
      <4>2. ran'[s] = ran[s] /\ \A t \in Prompts : ran'[t] = IF t = cur THEN threadId ELSE ran[t]
        BY <3>4, <4>1 DEF Typed, SeenTyped
      <4>3. QED
        BY <1>1, <3>1, <3>2, <4>1, <4>2
    <3>5. QED
      BY <3>3, <3>4, RanStep
  <2>2. CASE Rebuild /\ s = cur
    <3>1. s \in noticed /\ threadId' = None /\ UNCHANGED ran
      BY <2>2 DEF Rebuild, RolloutBroken, Caused
    <3>2. \A t \in Prompts : s < t => ran[t] = None
      BY <2>2 DEF Lined
    <3>3. QED
      BY <1>1, <3>1, <3>2
  <2>3. QED
    BY <1>3, <2>1, <2>2, LostStep
<1>4. QED
  BY <1>1, <1>2, <1>3 DEF Caused

--------------------------------------------------------------------------------
(* Once two launches were prepared at once, they were. *)
LEMMA OverlapStep ==
  ASSUME overlap, [Next]_vars
  PROVE  overlap'
<1>1. CASE \E p \in Procs : Ignore(p) \/ Answered(p) \/ Output(p) \/ Ended(p)
  BY <1>1
  DEF Ignore, Answered, Output, Ended, Read, seenVars
<1>2. CASE \/ Initialized \/ SendThread \/ ThreadReady \/ ThreadGone \/ AttachFails
           \/ FoundOrphan \/ InterruptTaken \/ Retarget
  BY <1>2
  DEF Initialized, SendThread, ThreadReady, ThreadGone, AttachFails, FoundOrphan, InterruptTaken,
      Retarget, seenVars
<1>3. CASE \/ InterruptOver \/ InterruptFails \/ Take \/ SendTurn \/ Started \/ StartFails
           \/ Settled
  BY <1>3
  DEF InterruptOver, InterruptFails, Take, SendTurn, Started, StartFails, Settled, InterruptEnds,
      seenVars
<1>4. CASE Close \/ Rebuild \/ Rebuilt \/ FailTurn \/ WarmedUp \/ SendControl \/ Controlled
  BY <1>4
  DEF Close, Rebuild, Rebuilt, FailTurn, WarmedUp, SendControl, Controlled, seenVars
<1>5. CASE \E s \in Prompts : Submit(s)
  BY <1>5
  DEF Submit, seenVars
<1>6. CASE \E v \in {"attach", "warm"} : Launch(v) \/ LaunchFails(v)
  BY <1>6
  DEF Launch, LaunchFails, seenVars
<1>7. CASE Warmup \/ WarmTimeout \/ Control \/ RolloutMissed \/ Shutdown \/ ItemsDone
  BY <1>7
  DEF Warmup, WarmTimeout, Control, RolloutMissed, Shutdown, ItemsDone, ShutDown, LoseProcess,
      seenVars
<1>8. CASE \E source \in {"user", "system"} : Stop(source)
  BY <1>8
  DEF Stop, seenVars
<1>9. CASE \E p \in Procs : Speak(p) \/ Finish(p) \/ GoalTurn(p) \/ Die(p) \/ Closed(p)
  BY <1>9
  DEF Speak, Finish, GoalTurn, Die, Closed, seenVars
<1>10. CASE UNCHANGED vars
  BY <1>10
  DEF vars, seenVars
<1>11. QED
  BY <1>1, <1>2, <1>3, <1>4, <1>5, <1>6, <1>7, <1>8, <1>9, <1>10
  DEF Next, ReadStep, Continuation, Event

(* Every step keeps which processes run, *)
LEMMA UpStep ==
  ASSUME Typed, Alone, ~ overlap, [Next]_vars
  PROVE  \A q \in Procs : alive'[q] = "up" => q = proc'
<1>1. CASE \E p \in Procs : Ignore(p) \/ Answered(p) \/ Output(p) \/ Ended(p)
  BY <1>1
  DEF Ignore, Answered, Output, Ended, Read, codexVars, Alone
<1>2. CASE \/ Initialized \/ SendThread \/ ThreadReady \/ ThreadGone \/ AttachFails
           \/ FoundOrphan \/ InterruptTaken \/ Retarget
  BY <1>2
  DEF Initialized, SendThread, ThreadReady, ThreadGone, AttachFails, FoundOrphan, InterruptTaken,
      Retarget, StartThread, ResumeThread, Unserved, Refuse, Interrupt, AskInterrupt, codexVars,
      Alone
<1>3. CASE \/ InterruptOver \/ InterruptFails \/ Take \/ SendTurn \/ Started \/ StartFails
           \/ Settled
  BY <1>3
  DEF InterruptOver, InterruptFails, Take, SendTurn, Started, StartFails, Settled, InterruptEnds,
      StartTurn, Unserved, Refuse, codexVars, Alone
<1>4. CASE Close \/ Rebuild \/ Rebuilt \/ FailTurn \/ WarmedUp \/ SendControl \/ Controlled
  BY <1>4
  DEF Close, Rebuild, Rebuilt, FailTurn, WarmedUp, SendControl, Controlled, StartThread, Unserved,
      Refuse, codexVars, Alone
<1>5. CASE \E s \in Prompts : Submit(s)
  BY <1>5
  DEF Submit, codexVars, Alone
<1>6. CASE \E v \in {"attach", "warm"} : LaunchFails(v)
  BY <1>6
  DEF LaunchFails, codexVars, Alone
<1>7. ASSUME NEW v \in {"attach", "warm"}, Launch(v) PROVE \A q \in Procs : alive'[q] = "up" => q = proc'
  <2>1. proc = None
    BY <1>7 DEF Launch, Alone, OneLaunch
  <2>2. \A q \in Procs : alive[q] # "up"
    BY <2>1, Names DEF Alone
  <2>3. proc' \in Procs /\ alive' = [alive EXCEPT ![proc'] = "up"]
    BY <1>7, Launched DEF Typed
  <2>4. QED
    BY <2>2, <2>3 DEF Typed, CodexTyped
<1>8. CASE Warmup \/ Control \/ RolloutMissed \/ ItemsDone
  BY <1>8
  DEF Warmup, Control, RolloutMissed, ItemsDone, Interrupt, AskInterrupt, codexVars, Alone
<1>9. CASE WarmTimeout
  <2>1. proc' = None /\ alive' = IF proc = None THEN alive ELSE [alive EXCEPT ![proc] = "told"]
    BY <1>9 DEF WarmTimeout, ShutDown, LoseProcess
  <2>2. \A q \in Procs : alive'[q] = "up" => alive[q] = "up" /\ q # proc
    BY <2>1, Names DEF Typed, CodexTyped
  <2>3. QED
    BY <2>2 DEF Alone
<1>10. CASE Shutdown
  <2>1. proc' = None /\ alive' = IF proc = None THEN alive ELSE [alive EXCEPT ![proc] = "told"]
    BY <1>10 DEF Shutdown, ShutDown, LoseProcess
  <2>2. \A q \in Procs : alive'[q] = "up" => alive[q] = "up" /\ q # proc
    BY <2>1, Names DEF Typed, CodexTyped
  <2>3. QED
    BY <2>2 DEF Alone
<1>11. CASE \E source \in {"user", "system"} : Stop(source)
  BY <1>11
  DEF Stop, Interrupt, AskInterrupt, codexVars, Alone
<1>12. CASE \E p \in Procs : Speak(p) \/ Finish(p) \/ GoalTurn(p)
  BY <1>12
  DEF Speak, Finish, GoalTurn, codexVars, Alone
<1>13. ASSUME NEW p \in Procs, Die(p) PROVE \A q \in Procs : alive'[q] = "up" => q = proc'
  BY <1>13
  DEF Die, Typed, CodexTyped, codexVars, Alone
<1>14. ASSUME NEW p \in Procs, Closed(p) PROVE \A q \in Procs : alive'[q] = "up" => q = proc'
  BY <1>14
  DEF Closed, LoseProcess, Typed, CodexTyped, codexVars, Alone
<1>15. CASE UNCHANGED vars
  BY <1>15
  DEF vars, codexVars, Alone
<1>16. QED
  BY <1>1, <1>2, <1>3, <1>4, <1>5, <1>6, <1>7, <1>8, <1>9, <1>10, <1>11, <1>12, <1>13, <1>14,
     <1>15
  DEF Next, ReadStep, Continuation, Event

(* who launches one, *)
LEMMA LaunchingStep ==
  ASSUME Typed, Alone, ~ overlap', ~ overlap, [Next]_vars
  PROVE  OneLaunch'
<1>1. CASE \E p \in Procs : Ignore(p) \/ Answered(p) \/ Output(p) \/ Ended(p)
  BY <1>1
  DEF Ignore, Answered, Output, Ended, Read, callVars, Alone, OneLaunch
<1>2. CASE \/ Initialized \/ SendThread \/ ThreadReady \/ ThreadGone \/ AttachFails
           \/ FoundOrphan \/ InterruptTaken \/ Retarget
  BY <1>2
  DEF Initialized, SendThread, ThreadReady, ThreadGone, AttachFails, FoundOrphan, InterruptTaken,
      Retarget, AttachEnds, callVars, Alone, OneLaunch
<1>3. CASE InterruptOver \/ InterruptFails \/ SendTurn \/ Started \/ StartFails \/ Settled
  BY <1>3
  DEF InterruptOver, InterruptFails, SendTurn, Started, StartFails, Settled, InterruptEnds,
      AttachEnds, callVars, Alone, OneLaunch
<1>4. CASE Take
  BY <1>4
  DEF Take, EnsureAttached, callVars, Alone, OneLaunch
<1>5. CASE Close \/ Rebuild \/ Rebuilt \/ FailTurn \/ WarmedUp \/ SendControl \/ Controlled
  BY <1>5
  DEF Close, Rebuild, Rebuilt, FailTurn, WarmedUp, SendControl, Controlled, callVars, Alone,
      OneLaunch
<1>6. CASE \E s \in Prompts : Submit(s)
  BY <1>6
  DEF Submit, callVars, Alone, OneLaunch
<1>7. ASSUME NEW v \in {"attach", "warm"}, Launch(v) PROVE OneLaunch'
  BY <1>7
  DEF Launch, callVars, Alone, OneLaunch
<1>8. ASSUME NEW v \in {"attach", "warm"}, LaunchFails(v) PROVE OneLaunch'
  BY <1>8
  DEF LaunchFails, AttachEnds, callVars, Alone, OneLaunch
<1>9. CASE RolloutMissed \/ ItemsDone
  BY <1>9
  DEF RolloutMissed, ItemsDone, callVars, Alone, OneLaunch
<1>10. CASE Warmup
  BY <1>10
  DEF Warmup, callVars, Alone, OneLaunch
<1>11. CASE WarmTimeout
  BY <1>11
  DEF WarmTimeout, ShutDown, LoseProcess, callVars, Alone, OneLaunch
<1>12. CASE Control
  BY <1>12
  DEF Control, EnsureAttached, callVars, Alone, OneLaunch
<1>13. CASE Shutdown
  BY <1>13
  DEF Shutdown, ShutDown, LoseProcess, callVars, Alone, OneLaunch
<1>14. CASE \E source \in {"user", "system"} : Stop(source)
  BY <1>14
  DEF Stop, callVars, Alone, OneLaunch
<1>15. CASE \E p \in Procs : Speak(p) \/ Finish(p) \/ GoalTurn(p) \/ Die(p)
  BY <1>15
  DEF Speak, Finish, GoalTurn, Die, callVars, Alone, OneLaunch
<1>16. ASSUME NEW p \in Procs, Closed(p) PROVE OneLaunch'
  BY <1>16
  DEF Closed, LoseProcess, callVars, Alone, OneLaunch
<1>17. CASE UNCHANGED vars
  BY <1>17
  DEF vars, callVars, Alone, OneLaunch
<1>18. QED
  BY <1>1, <1>2, <1>3, <1>4, <1>5, <1>6, <1>7, <1>8, <1>9, <1>10, <1>11, <1>12, <1>13, <1>14,
     <1>15, <1>16, <1>17
  DEF Next, ReadStep, Continuation, Event

(* who waits for which, *)
LEMMA SentStep ==
  ASSUME Typed, Alone, Came, Lined, ~ overlap, [Next]_vars
  PROVE  AllWait'
<1>1. CASE \E p \in Procs : Ignore(p) \/ Output(p) \/ Ended(p)
  BY <1>1
  DEF Ignore, Output, Ended, Read, turnVars, Alone, AllWait
<1>2. ASSUME NEW p \in Procs, Answered(p) PROVE AllWait'
  <2>1. First(p).is \notin {"none", "sent", "failed"}
    BY <1>2, LineRead DEF Answered, Message, Kinds, Typed
  <2>2. \A w \in Waiters : answer'[w] = answer[w] \/ answer'[w].is = First(p).is
    BY <1>2 DEF Answered, Typed, AnswersTyped
  <2>3. UNCHANGED <<proc, pc>>
    BY <1>2 DEF Answered, turnVars
  <2>4. QED
    BY <2>1, <2>2, <2>3 DEF Alone, AllWait
<1>3. CASE Initialized
  BY <1>3
  DEF Initialized, Taken, Nothing, Typed, AnswersTyped, turnVars, threadVars, turnVars, Alone,
      AllWait
<1>4. CASE SendThread
  <2>1. UNCHANGED proc
    BY <1>4 DEF SendThread, turnVars
  <2>2. Answering("attach") /\ answer \in [Waiters -> Reply]
    BY <1>4, StartThreadSays, ResumeSays DEF SendThread, Typed, AnswersTyped
  <2>3. \A w \in Waiters : answer'[w] = answer[w] \/ (w = "attach" /\ answer'[w].id = proc)
    BY <2>2 DEF Answering
  <2>4. QED
    BY <1>4, <2>1, <2>3 DEF SendThread, turnVars, Alone, AllWait
<1>5. CASE ThreadReady
  BY <1>5
  DEF ThreadReady, Taken, Nothing, Typed, AnswersTyped, turnVars, threadVars, AttachEnds,
      turnVars, Alone, AllWait
<1>6. CASE ThreadGone
  BY <1>6
  DEF ThreadGone, Taken, Nothing, Typed, AnswersTyped, turnVars, threadVars, turnVars, Alone,
      AllWait
<1>7. CASE AttachFails
  BY <1>7
  DEF AttachFails, Taken, Nothing, Typed, AnswersTyped, turnVars, threadVars, AttachEnds,
      turnVars, Alone, AllWait
<1>8. CASE FoundOrphan
  <2>1. UNCHANGED <<proc, pc>>
    BY <1>8 DEF FoundOrphan, turnVars
  <2>2. \/ answer' = [answer EXCEPT !["attach"] = Nothing]
        \/ answer' = [[answer EXCEPT !["attach"] = Nothing] EXCEPT !["interrupt"] = [is |-> "sent", id |-> proc]]
    BY <1>8 DEF FoundOrphan, Interrupt, AskInterrupt
  <2>3. \A w \in Waiters : answer'[w] = answer[w] \/ answer'[w] = Nothing \/ answer'[w].id = proc
    BY <2>2 DEF Typed, AnswersTyped
  <2>4. QED
    BY <2>1, <2>3 DEF Alone, AllWait, Nothing
<1>9. CASE InterruptTaken
  BY <1>9
  DEF InterruptTaken, Taken, Nothing, Typed, AnswersTyped, turnVars, threadVars, turnVars, Alone,
      AllWait
<1>10. CASE Retarget
  <2>1. UNCHANGED <<proc, pc>>
    BY <1>10 DEF Retarget, turnVars
  <2>2. \A w \in Waiters : answer'[w] = answer[w] \/ answer'[w] = Nothing \/ answer'[w].id = proc
    BY <1>10 DEF Retarget, Taken, AskInterrupt, Typed, AnswersTyped
  <2>3. QED
    BY <2>1, <2>2 DEF Alone, AllWait, Nothing
<1>11. CASE InterruptOver
  BY <1>11
  DEF InterruptOver, InterruptEnds, AttachEnds, turnVars, Alone, AllWait
<1>12. CASE InterruptFails
  BY <1>12
  DEF InterruptFails, InterruptEnds, Taken, Nothing, Typed, AnswersTyped, turnVars, threadVars,
      AttachEnds, turnVars, Alone, AllWait
<1>13. CASE Take
  BY <1>13
  DEF Take, turnVars, Alone, AllWait
<1>14. CASE SendTurn
  <2>1. UNCHANGED proc
    BY <1>14 DEF SendTurn
  <2>2. Answering("turn") /\ answer \in [Waiters -> Reply]
    BY <1>14, StartTurnSays DEF SendTurn, Lined, Typed, AnswersTyped
  <2>3. \A w \in Waiters : answer'[w] = answer[w] \/ (w = "turn" /\ answer'[w].id = proc)
    BY <2>2 DEF Answering
  <2>4. QED
    BY <1>14, <2>1, <2>3 DEF SendTurn, Alone, AllWait
<1>15. CASE Started
  BY <1>15
  DEF Started, Taken, Nothing, Typed, AnswersTyped, turnVars, threadVars, turnVars, Alone, AllWait
<1>16. CASE StartFails
  BY <1>16
  DEF StartFails, Taken, Nothing, Typed, AnswersTyped, turnVars, threadVars, turnVars, Alone,
      AllWait
<1>17. CASE Settled
  BY <1>17
  DEF Settled, turnVars, Alone, AllWait
<1>18. CASE Close
  BY <1>18
  DEF Close, End, turnVars, Alone, AllWait
<1>19. CASE Rebuild
  <2>1. UNCHANGED proc
    BY <1>19 DEF Rebuild
  <2>2. Answering("turn") /\ answer \in [Waiters -> Reply]
    BY <1>19, StartThreadSays DEF Rebuild, Typed, AnswersTyped
  <2>3. \A w \in Waiters : answer'[w] = answer[w] \/ (w = "turn" /\ answer'[w].id = proc)
    BY <2>2 DEF Answering
  <2>4. QED
    BY <1>19, <2>1, <2>3 DEF Rebuild, Alone, AllWait
<1>20. CASE Rebuilt
  BY <1>20
  DEF Rebuilt, Taken, Nothing, Typed, AnswersTyped, turnVars, threadVars, End, turnVars, Alone,
      AllWait
<1>21. CASE FailTurn
  BY <1>21
  DEF FailTurn, turnVars, Alone, AllWait
<1>22. CASE WarmedUp
  BY <1>22
  DEF WarmedUp, Taken, Nothing, Typed, AnswersTyped, turnVars, threadVars, turnVars, Alone,
      AllWait
<1>23. CASE SendControl
  <2>1. UNCHANGED proc
    BY <1>23 DEF SendControl, turnVars, threadVars
  <2>2. Answering("control") /\ answer \in [Waiters -> Reply]
    BY <1>23, ControlSays DEF Typed, AnswersTyped
  <2>3. \A w \in Waiters : answer'[w] = answer[w] \/ (w = "control" /\ answer'[w].id = proc)
    BY <2>2 DEF Answering
  <2>4. QED
    BY <1>23, <2>1, <2>3 DEF SendControl, turnVars, threadVars, Alone, AllWait
<1>24. CASE Controlled
  BY <1>24
  DEF Controlled, Taken, Nothing, Typed, AnswersTyped, turnVars, threadVars, turnVars, Alone,
      AllWait
<1>25. CASE \E s \in Prompts : Submit(s)
  BY <1>25
  DEF Submit, turnVars, Alone, AllWait
<1>26. ASSUME NEW v \in {"attach", "warm"}, Launch(v) PROVE AllWait'
  <2>1. answer' = [answer EXCEPT ![v] = [is |-> "sent", id |-> proc']] /\ answer \in [Waiters -> Reply]
    BY <1>26, Launched DEF Typed, AnswersTyped
  <2>2. proc = None /\ UNCHANGED pc
    BY <1>26 DEF Launch, Alone, OneLaunch, turnVars
  <2>3. \A w \in Waiters : answer'[w].id = proc' \/ answer'[w] = answer[w]
    BY <2>1
  <2>4. QED
    BY <2>2, <2>3 DEF Came, AllWait
<1>27. ASSUME NEW v \in {"attach", "warm"}, LaunchFails(v) PROVE AllWait'
  BY <1>27
  DEF LaunchFails, AttachEnds, turnVars, Alone, AllWait
<1>28. CASE Warmup \/ Control \/ ItemsDone
  BY <1>28
  DEF Warmup, Control, ItemsDone, turnVars, Alone, AllWait
<1>29. CASE WarmTimeout
  <2>1. LoseProcess /\ Quiet
    BY <1>29 DEF WarmTimeout, ShutDown
  <2>2. \A w \in Waiters : answer'[w].is # "sent"
    BY <2>1, Losses DEF Waiters, Nothing, Failure
  <2>3. QED
    BY <2>2 DEF AllWait
<1>30. CASE RolloutMissed
  <2>1. UNCHANGED <<proc, pc>> /\ active \in Turns
    BY <1>30 DEF RolloutMissed, turnVars, Typed, EventsTyped
  <2>2. UNCHANGED answer \/ AskInterrupt(active, answer)
    BY <1>30 DEF RolloutMissed, Interrupt
  <2>3. \A w \in Waiters : answer'[w] = answer[w] \/ answer'[w].id = proc
    BY <2>2 DEF AskInterrupt, Typed, AnswersTyped
  <2>4. QED
    BY <2>1, <2>3 DEF Alone, AllWait
<1>31. CASE Shutdown
  <2>1. LoseProcess /\ Quiet
    BY <1>31 DEF Shutdown, ShutDown
  <2>2. \A w \in Waiters : answer'[w].is # "sent"
    BY <2>1, Losses DEF Waiters, Nothing, Failure
  <2>3. QED
    BY <2>2 DEF AllWait
<1>32. ASSUME NEW source \in {"user", "system"}, Stop(source) PROVE AllWait'
  <2>1. UNCHANGED <<proc, pc>> /\ active \in Turns
    BY <1>32 DEF Stop, turnVars, Typed, EventsTyped
  <2>2. UNCHANGED answer \/ AskInterrupt(active, answer)
    BY <1>32 DEF Stop, Interrupt
  <2>3. \A w \in Waiters : answer'[w] = answer[w] \/ answer'[w].id = proc
    BY <2>2 DEF AskInterrupt, Typed, AnswersTyped
  <2>4. QED
    BY <2>1, <2>3 DEF Alone, AllWait
<1>33. CASE \E p \in Procs : Speak(p) \/ Finish(p) \/ GoalTurn(p) \/ Die(p)
  BY <1>33
  DEF Speak, Finish, GoalTurn, Die, turnVars, Alone, AllWait
<1>34. ASSUME NEW p \in Procs, Closed(p) PROVE AllWait'
  <2>1. CASE LoseProcess
    <3>1. Quiet
      BY <1>34 DEF Closed
    <3>2. \A w \in Waiters : answer'[w].is # "sent"
      BY <2>1, <3>1, Losses DEF Waiters, Nothing, Failure
    <3>3. QED
      BY <3>2 DEF AllWait
  <2>2. CASE UNCHANGED <<proc, answer>>
    BY <1>34, <2>2 DEF Closed, Alone, AllWait, turnVars
  <2>3. QED
    BY <1>34, <2>1, <2>2 DEF Closed
<1>35. CASE UNCHANGED vars
  BY <1>35
  DEF vars, turnVars, Alone, AllWait
<1>36. QED
  BY <1>1, <1>2, <1>3, <1>4, <1>5, <1>6, <1>7, <1>8, <1>9, <1>10, <1>11, <1>12, <1>13, <1>14,
     <1>15, <1>16, <1>17, <1>18, <1>19, <1>20, <1>21, <1>22, <1>23, <1>24, <1>25, <1>26, <1>27,
     <1>28, <1>29, <1>30, <1>31, <1>32, <1>33, <1>34, <1>35
  DEF Next, ReadStep, Continuation, Event

(* and that a runner that was shut down has none. *)
LEMMA DownStep ==
  ASSUME Typed, Alone, [Next]_vars
  PROVE  down' => Halted'
<1>1. CASE \E p \in Procs : Ignore(p) \/ Answered(p) \/ Output(p) \/ Ended(p)
  BY <1>1
  DEF Ignore, Answered, Output, Ended, Read, callVars, turnVars, seenVars, Alone, Halted
<1>2. CASE \/ Initialized \/ SendThread \/ ThreadReady \/ ThreadGone \/ AttachFails
           \/ FoundOrphan \/ InterruptTaken \/ Retarget
  BY <1>2
  DEF Initialized, SendThread, ThreadReady, ThreadGone, AttachFails, FoundOrphan, InterruptTaken,
      Retarget, AttachEnds, callVars, turnVars, seenVars, Alone, Halted
<1>3. CASE InterruptOver \/ InterruptFails \/ SendTurn \/ Started \/ StartFails \/ Settled
  BY <1>3
  DEF InterruptOver, InterruptFails, SendTurn, Started, StartFails, Settled, InterruptEnds,
      AttachEnds, callVars, turnVars, seenVars, Alone, Halted
<1>4. CASE Take
  BY <1>4
  DEF Take, callVars, turnVars, seenVars, Alone, Halted
<1>5. CASE Close \/ Rebuild \/ Rebuilt \/ FailTurn \/ WarmedUp \/ SendControl \/ Controlled
  BY <1>5
  DEF Close, Rebuild, Rebuilt, FailTurn, WarmedUp, SendControl, Controlled, callVars, turnVars,
      seenVars, Alone, Halted
<1>6. ASSUME NEW s \in Prompts, Submit(s) PROVE down' => Halted'
  BY <1>6
  DEF Submit, callVars, turnVars, seenVars, Alone, Halted
<1>7. ASSUME NEW w \in {"attach", "warm"}, Launch(w) PROVE down' => Halted'
  BY <1>7
  DEF Launch, callVars, turnVars, seenVars, Alone, Halted
<1>8. ASSUME NEW w \in {"attach", "warm"}, LaunchFails(w) PROVE down' => Halted'
  BY <1>8
  DEF LaunchFails, AttachEnds, callVars, turnVars, seenVars, Alone, Halted
<1>9. CASE RolloutMissed \/ ItemsDone
  BY <1>9
  DEF RolloutMissed, ItemsDone, callVars, turnVars, seenVars, Alone, Halted
<1>10. CASE Warmup
  BY <1>10
  DEF Warmup, callVars, turnVars, seenVars, Alone, Halted
<1>11. CASE WarmTimeout
  BY <1>11
  DEF WarmTimeout, ShutDown, LoseProcess, callVars, turnVars, seenVars, Alone, Halted
<1>12. CASE Control
  BY <1>12
  DEF Control, callVars, turnVars, seenVars, Alone, Halted
<1>13. CASE Shutdown
  BY <1>13
  DEF Shutdown, ShutDown, LoseProcess, callVars, turnVars, seenVars, Alone, Halted
<1>14. CASE \E source \in {"user", "system"} : Stop(source)
  BY <1>14
  DEF Stop, callVars, turnVars, seenVars, Alone, Halted
<1>15. CASE \E p \in Procs : Speak(p) \/ Finish(p) \/ GoalTurn(p) \/ Die(p)
  BY <1>15
  DEF Speak, Finish, GoalTurn, Die, callVars, turnVars, seenVars, Alone, Halted
<1>16. ASSUME NEW p \in Procs, Closed(p) PROVE down' => Halted'
  BY <1>16
  DEF Closed, LoseProcess, callVars, turnVars, seenVars, Alone, Halted
<1>17. CASE UNCHANGED vars
  BY <1>17
  DEF vars, callVars, turnVars, seenVars, Alone, Halted
<1>18. QED
  BY <1>1, <1>2, <1>3, <1>4, <1>5, <1>6, <1>7, <1>8, <1>9, <1>10, <1>11, <1>12, <1>13, <1>14,
     <1>15, <1>16, <1>17
  DEF Next, ReadStep, Continuation, Event

LEMMA AloneStep ==
  ASSUME Typed, Alone, Came, Lined, [Next]_vars
  PROVE  Alone'
<1>1. ~ overlap' => ~ overlap
  BY OverlapStep
<1>2. ASSUME ~ overlap'
      PROVE  /\ \A p \in Procs : alive'[p] = "up" => p = proc'
             /\ OneLaunch' /\ AllWait'
  <2>1. ~ overlap
    BY <1>1, <1>2
  <2>2. QED
    BY <1>2, <2>1, UpStep, LaunchingStep, SentStep
<1>3. down' => Halted'
  BY DownStep
<1>4. QED
  BY <1>2, <1>3 DEF Alone

--------------------------------------------------------------------------------
(* The inductive invariant. *)
IInv ==
  /\ Typed
  /\ Attaching /\ Calling /\ Turning /\ Interrupting /\ Came /\ Asked
  /\ Numbered /\ Lined /\ Threaded /\ Caused /\ Alone

LEMMA InitHolds == Init => IInv
<1> SUFFICES ASSUME Init PROVE IInv
  OBVIOUS
<1> USE DEF Init
<1>1. PcTyped /\ CallsTyped /\ FlagsTyped /\ NamesTyped
  <2>1. PcTyped /\ CallsTyped
    BY DEF PcTyped, CallsTyped
  <2>2. upsets \in 0..MaxUpsets
    BY BoundAssumption
  <2>3. initialized \in BOOLEAN /\ attached \in BOOLEAN /\ held \in BOOLEAN /\ items \in BOOLEAN
        /\ raced \in BOOLEAN /\ overlap \in BOOLEAN /\ down \in BOOLEAN
    OBVIOUS
  <2>4. NamesTyped
    BY DEF NamesTyped
  <2>5. QED
    BY <2>1, <2>2, <2>3, <2>4 DEF FlagsTyped
<1>2. QueueTyped /\ EventsTyped /\ AnswersTyped
  <2>1. queue \in Seq(Prompts)
    OBVIOUS
  <2>2. cur \in 0..MaxPrompts
    BY BoundAssumption
  <2>3. EventsTyped
    BY DEF EventsTyped, Nothing, NoInterrupt, Outcome, Pending
  <2>4. Nothing \in Reply
    BY DEF Nothing, Reply, Ids
  <2>5. AnswersTyped
    <3>1. answer \in [Waiters -> Reply]
      BY <2>4
    <3>2. answer["attach"].is = "none" /\ answer["interrupt"].is = "none"
      BY DEF Nothing, Waiters
    <3>3. QED
      BY <3>1, <3>2 DEF AnswersTyped
  <2>6. QED
    BY <2>1, <2>2, <2>3, <2>5 DEF QueueTyped
<1>3. CodexTyped /\ LinesTyped
  BY DEF CodexTyped, LinesTyped
<1>4. SeenTyped
  BY Names DEF SeenTyped, Closing
<1>5. Attaching /\ Calling /\ Turning /\ Interrupting /\ Came /\ Asked /\ Numbered
  BY DEF Attaching, Calling, Turning, Interrupting, Came, Asked, Numbered, Nothing, NoInterrupt, Waiters
<1>6. Lined
  BY Names DEF Lined
<1>7. Threaded
  BY Names, BoundAssumption DEF Threaded, Expects
<1>8. Caused /\ Alone
  BY DEF Caused, Lost, Alone, OneLaunch, AllWait, Nothing
<1>9. QED
  BY <1>1, <1>2, <1>3, <1>4, <1>5, <1>6, <1>7, <1>8 DEF IInv, Typed

LEMMA StepHolds == IInv /\ [Next]_vars => IInv'
BY TypedStep, AttachingStep, CallingStep, TurningStep, InterruptingStep, CameStep, AskedStep,
   NumberedStep, LinedStep, ThreadedStep, CausedStep, AloneStep
DEF IInv

THEOREM RunnerInvariance == Spec => []IInv
BY InitHolds, StepHolds, PTL DEF Spec

--------------------------------------------------------------------------------
(* What the run checks for a few prompts. *)

(* Every variable of the runner and of its process has its type: whatever was *)
(* answered late, stopped, lost or launched twice in between. *)
THEOREM RunnerTypes == Spec => []TypeOK
<1>1. ASSUME IInv PROVE TypeOK
  <2> USE <1>1 DEF IInv, Typed
  <2>1. /\ pc \in {"idle", "attach", "send", "starting", "running", "close", "rebuild", "fail"}
        /\ queue \in Seq(Prompts) /\ cur \in 0..MaxPrompts
        /\ threadId \in Nat \cup {None} /\ proc \in Procs \cup {None} /\ threads \in Nat
    BY DEF PcTyped, QueueTyped, NamesTyped
  <2>2. /\ {initialized, attached, held, items, raced, overlap, down} \subseteq BOOLEAN
        /\ upsets \in 0..MaxUpsets
    BY DEF FlagsTyped
  <2>3. /\ attach \in {"idle", "launch", "init", "spawned", "start", "resume", "orphan"}
        /\ warm \in {"idle", "launch", "init"}
        /\ control \in {"idle", "attach", "send", "sent"}
    BY DEF CallsTyped
  <2>4. \A w \in Waiters :
          answer[w].is \in {"none", "sent", "failed", "ok", "orphan", "gone", "mismatch", "refused"}
    BY DEF AnswersTyped, Reply
  <2>5. /\ active \in Turns \cup {None}
        /\ completer.is \in {"none", "open", "failed", "completed", "interrupted"}
        /\ completer.id \in Turns \cup {None}
        /\ interrupting.target \in Turns \cup {None}
        /\ reason \in {"none", "user", "system", "rollout"}
    BY DEF EventsTyped, Outcome, Pending
  <2>6. /\ alive \in [Procs -> {"none", "up", "told", "dead"}]
        /\ run \in [Procs -> Turns \cup {None}]
        /\ waiting \in [Procs -> Seq(Turns)]
        /\ spoken \subseteq Turns
    BY DEF CodexTyped
  <2>7. heard \subseteq Prompts \X Turns /\ stopped \subseteq Prompts /\ noticed \subseteq Prompts
    BY DEF SeenTyped
  <2>8. QED
    BY <2>1, <2>2, <2>3, <2>4, <2>5, <2>6, <2>7 DEF TypeOK
<1>2. QED
  BY RunnerInvariance, <1>1, PTL

(* A prompt is told the cause that ended it (turnTerminationReason): the user's *)
(* Stop of this prompt and no other, or a rollout that was missed while it ran, *)
(* after which rebuildThreadAfterRolloutLoss never goes back to that thread.    *)
THEOREM PromptsKnowTheirCause == Spec => []EndsForItsCause
<1>1. IInv => EndsForItsCause
  BY DEF IInv, Caused, Lost, EndsForItsCause
<1>2. QED
  BY RunnerInvariance, <1>1, PTL

(* Who waits, waits for the process that there is, so that its answer or its    *)
(* close event ends the wait; no other process runs that was not told to stop;  *)
(* and after a shutdown() that did not come during a launch there is none, nor  *)
(* a prompt that waits.                                                         *)
THEOREM OneProcessServes == Spec => []OneProcess
<1>1. ASSUME IInv PROVE OneProcess
  <2> USE <1>1 DEF IInv
  <2>1. ASSUME ~ overlap, NEW w \in Waiters, Got(w, "sent")
        PROVE  \/ proc # None /\ answer[w].id = proc
               \/ w = "turn" /\ pc = "rebuild" /\ answer[w].id = None
    BY <2>1 DEF Got, Alone, AllWait, Came
  <2>2. completer.is = "open" \/ interrupting # NoInterrupt => proc # None
    BY DEF Turning, Attaching, Interrupting
  <2>3. attach = "orphan" /\ Quiet => interrupting # NoInterrupt
    <3>1. ASSUME attach = "orphan", Quiet PROVE interrupting.target # None
      <4>1. answer["attach"].is # "failed"
        BY <3>1 DEF Quiet, Ready, Waiters
      <4>2. QED
        BY <3>1, <4>1 DEF Attaching
    <3>2. QED
      BY <3>1 DEF NoInterrupt
  <2>4. ~ overlap => \A p \in Procs : alive[p] = "up" => p = proc
    BY DEF Alone
  <2>5. down => proc = None /\ queue = <<>>
    BY DEF Alone, Halted
  <2>6. QED
    BY <2>1, <2>2, <2>3, <2>4, <2>5 DEF OneProcess
<1>2. QED
  BY RunnerInvariance, <1>1, PTL

--------------------------------------------------------------------------------
(* Whose turn it is: the second invariant, of the steps before a goal's turn   *)
(* begins in an attached thread.                                               *)

(* What the process still has to say of turn t, and of a request of w. *)
Says(k, t) == out[proc][k].to = "thread" /\ out[proc][k].id = t
Over(k, t) == Says(k, t) /\ out[proc][k].is # "output"
Runs(t)    == proc # None /\ (run[proc] = t \/ \E k \in DOMAIN out[proc] : Says(k, t))
Past(k, t) == run[proc] # t /\ \A j \in DOMAIN out[proc] : k < j => ~ Says(j, t)
Told(w, is) ==
  proc # None /\
    \/ answer[w].is = is
    \/ \E k \in DOMAIN out[proc] : out[proc][k].to = w /\ out[proc][k].is = is

(* The process is up, or it has ended and runs nothing. *)
Lively ==
  proc # None => alive[proc] = "up" \/ (alive[proc] = "dead" /\ run[proc] = None)

(* A turn is active, or the interrupt of one is pending, only with the thread
   attached, or after a rebuild that failed: then the next thread is new, and
   no turn goes on in it. *)
Tied ==
  \/ attached /\ (pc = "rebuild" => threadId = None)
  \/ ~ attached /\ threadId = None /\ pc \in {"idle", "attach", "fail"}
Held ==
  /\ active # None \/ (interrupting.target # None /\ attach # "orphan") => Tied
  /\ attach = "resume" => active = None /\ interrupting.target = None
  /\ attach = "orphan" /\ interrupting.target # None => interrupting.mode = "orphan"

(* The prompt's own turn is the active one, the one heard of and the one whose
   end is passed on. *)
Named ==
  /\ active \in {None, cur} /\ completer.id \in {None, cur}
  /\ pc \in {"idle", "attach", "send"} => active = None
  /\ \A h \in heard : h[1] = h[2]
  /\ \A s \in Prompts : ends[s].by \in {s, None}

(* The process runs no other prompt's turn and has nothing to say of one, and of
   this prompt's only while its end is awaited. *)
Mine ==
  /\ proc # None => waiting[proc] = <<>>
  /\ \A t \in Prompts : Runs(t) =>
       t = cur /\ completer.is = "open" /\ pc # "fail" /\ ~ Told("turn", "refused")

(* A goal's turn is found by the attach that resumed its thread, which does not
   succeed before the turn is over and all it had to say is read. *)
Goals ==
  /\ Runs(Goal) =>
       \/ attach = "resume" /\ \A is \in {"ok", "gone", "refused"} : ~ Told("attach", is)
       \/ /\ attach = "orphan" /\ run[proc] # Goal
          /\ ~ interrupting.over /\ answer["interrupt"].is # "refused"
  /\ attach = "orphan" /\ proc # None =>
       \A k \in DOMAIN out[proc] :
         out[proc][k].to = "interrupt" /\ out[proc][k].is = "refused" => Past(k, Goal)
  /\ attach = "orphan" /\ interrupting.target # None => interrupting.target = Goal

(* The end of a turn is the last that is heard of it, *)
EndsLast ==
  proc # None => \A t \in Turns : \A k \in DOMAIN out[proc] : Over(k, t) => Past(k, t)

(* and an interrupt is never told that another turn runs. *)
Agreed == ~ Told("interrupt", "mismatch")

Own == ~ raced => Named /\ Mine /\ Goals /\ EndsLast /\ Agreed

(* Every step keeps what an active turn and a pending interrupt hold. *)
LEMMA HeldStep ==
  ASSUME IInv, Held, [Next]_vars
  PROVE  Held'
<1>1. UNCHANGED <<active, attach, attached, interrupting, pc, threadId>> => Held'
  BY DEF Held, Tied
<1>2. CASE \E p \in Procs : Ignore(p) \/ Answered(p)
  BY <1>2, <1>1
  DEF Ignore, Answered, Read, turnVars, threadVars, eventVars
<1>3. ASSUME NEW p \in Procs, Output(p) PROVE Held'
  <2>1. active' # None => active # None \/ completer.is = "open"
    BY <1>3 DEF Output
  <2>2. completer.is = "open" => attached /\ attach = "idle" /\ pc # "rebuild"
    BY DEF IInv, Turning, Attaching
  <2>3. UNCHANGED <<interrupting, attach, attached, pc, threadId>>
    BY <1>3 DEF Output, turnVars, threadVars
  <2>4. QED
    BY <2>1, <2>2, <2>3 DEF Held, Tied
<1>4. ASSUME NEW p \in Procs, Ended(p) PROVE Held'
  <2>1. interrupting'.target = interrupting.target /\ interrupting'.mode = interrupting.mode
    BY <1>4 DEF Ended, TurnEnded, IInv, Typed, EventsTyped, Pending
  <2>2. UNCHANGED <<active, attach, attached, pc, threadId>>
    BY <1>4 DEF Ended, turnVars, threadVars
  <2>3. QED
    BY <2>1, <2>2 DEF Held, Tied
<1>5. CASE InterruptTaken
  BY <1>5, <1>1
  DEF InterruptTaken, turnVars, threadVars, eventVars
<1>6. CASE Initialized
  BY <1>6
  DEF Initialized, turnVars, threadVars, eventVars, Held, Tied
<1>7. CASE SendThread
  <2>1. attach = "spawned" /\ attach' = IF threadId = None THEN "start" ELSE "resume"
    BY <1>7 DEF SendThread
  <2>2. ~ attached
    BY <2>1 DEF IInv, Attaching
  <2>3. UNCHANGED <<active, interrupting, attached, pc, threadId>>
    BY <1>7 DEF SendThread, turnVars, threadVars, eventVars
  <2>4. QED
    BY <2>1, <2>2, <2>3 DEF Held, Tied
<1>8. CASE ThreadReady
  BY <1>8
  DEF ThreadReady, IInv, AttachEnds, Attaching, Typed, FlagsTyped, PcTyped, turnVars, threadVars,
      eventVars, Held, Tied
<1>9. CASE ThreadGone
  BY <1>9
  DEF ThreadGone, IInv, Attaching, turnVars, threadVars, eventVars, Held, Tied
<1>10. CASE AttachFails
  <2>1. ~ attached /\ (attach = "orphan" => interrupting.target = None)
    BY <1>10 DEF AttachFails, Got, IInv, Attaching, Nothing, Failure
  <2>2. QED
    BY <1>10, <2>1 DEF AttachFails, AttachEnds, eventVars, Held, Tied
<1>11. CASE FoundOrphan
  <2>1. active = None /\ interrupting.target = None /\ attach' = "orphan"
    BY <1>11 DEF FoundOrphan, Held
  <2>2. interrupting = NoInterrupt
    BY <2>1 DEF IInv, Interrupting
  <2>3. interrupting' = [NoInterrupt EXCEPT !.target = answer["attach"].id, !.mode = "orphan"]
    BY <1>11, <2>2 DEF FoundOrphan, Interrupt
  <2>4. interrupting'.mode = "orphan"
    BY <2>3 DEF NoInterrupt
  <2>5. QED
    BY <1>11, <2>1, <2>4 DEF FoundOrphan, Held
<1>12. CASE Retarget
  <2>1. interrupting.target # None
    BY <1>12 DEF Retarget, Mismatched, Got, IInv, Interrupting
  <2>2. interrupting'.mode = interrupting.mode
    BY <1>12 DEF Retarget, IInv, Typed, EventsTyped, Pending
  <2>3. active' = active \/ interrupting.mode = "public"
    BY <1>12 DEF Retarget
  <2>4. UNCHANGED <<attach, attached, pc, threadId>>
    BY <1>12 DEF Retarget, turnVars, threadVars
  <2>5. QED
    BY <2>1, <2>2, <2>3, <2>4 DEF Held, Tied
<1>13. CASE InterruptOver
  BY <1>13
  DEF InterruptOver, InterruptEnds, NoInterrupt, IInv, AttachEnds, Attaching, Typed, FlagsTyped,
      PcTyped, turnVars, threadVars, eventVars, Held, Tied
<1>14. CASE InterruptFails
  BY <1>14
  DEF InterruptFails, InterruptEnds, NoInterrupt, IInv, AttachEnds, Attaching, Typed, FlagsTyped,
      PcTyped, turnVars, threadVars, eventVars, Held, Tied
<1>15. CASE Take
  BY <1>15
  DEF Take, EnsureAttached, IInv, Attaching, turnVars, threadVars, eventVars, Held, Tied
<1>16. CASE SendTurn
  BY <1>16
  DEF SendTurn, IInv, Turning, turnVars, threadVars, eventVars, Held, Tied
<1>17. CASE Started
  <2>1. attached /\ pc' = "running"
    BY <1>17 DEF Started, Got, IInv, Turning
  <2>2. attach = "idle"
    BY <2>1 DEF IInv, Attaching
  <2>3. QED
    BY <1>17, <2>1, <2>2 DEF Started, threadVars, Held, Tied
<1>18. CASE StartFails
  BY <1>18
  DEF StartFails, turnVars, threadVars, eventVars, Held, Tied
<1>19. CASE Settled
  BY <1>19
  DEF Settled, turnVars, threadVars, eventVars, Held, Tied
<1>20. CASE WarmedUp \/ SendControl \/ Controlled
  BY <1>20, <1>1
  DEF WarmedUp, SendControl, Controlled, turnVars, threadVars, eventVars
<1>21. CASE Close
  BY <1>21
  DEF Close, End, turnVars, threadVars, eventVars, Held, Tied
<1>22. CASE Rebuild
  BY <1>22
  DEF Rebuild, turnVars, threadVars, eventVars, Held, Tied
<1>23. CASE Rebuilt
  <2>1. active' = None /\ pc' = "idle" /\ pc = "rebuild"
    BY <1>23 DEF Rebuilt, End
  <2>2. attached' = (attached /\ Got("turn", "ok")) /\ (~ Got("turn", "ok") => UNCHANGED threadId)
    BY <1>23 DEF Rebuilt
  <2>3. UNCHANGED <<attach, interrupting>> /\ attached \in BOOLEAN
    BY <1>23 DEF Rebuilt, IInv, Typed, FlagsTyped
  <2>4. QED
    BY <2>1, <2>2, <2>3 DEF Held, Tied
<1>24. CASE FailTurn
  BY <1>24
  DEF FailTurn, turnVars, threadVars, eventVars, Held, Tied
<1>25. CASE \E s \in Prompts : Submit(s)
  BY <1>25, <1>1
  DEF Submit, turnVars, threadVars, eventVars
<1>26. ASSUME NEW w \in {"attach", "warm"}, Launch(w) PROVE Held'
  BY <1>26
  DEF Launch, turnVars, threadVars, eventVars, Held, Tied
<1>27. ASSUME NEW w \in {"attach", "warm"}, LaunchFails(w) PROVE Held'
  BY <1>27
  DEF LaunchFails, IInv, AttachEnds, Attaching, Typed, FlagsTyped, PcTyped, turnVars, threadVars,
      eventVars, Held, Tied
<1>28. CASE Warmup \/ ItemsDone
  BY <1>28, <1>1
  DEF Warmup, ItemsDone, turnVars, threadVars, eventVars
<1>29. CASE WarmTimeout
  <2>1. LoseProcess /\ Quiet /\ UNCHANGED attach
    BY <1>29 DEF WarmTimeout, ShutDown
  <2>2. active' = None /\ interrupting'.target = None
    BY <2>1, Losses DEF IInv, NoInterrupt
  <2>3. QED
    BY <2>1, <2>2 DEF Held
<1>30. CASE Control
  BY <1>30
  DEF Control, EnsureAttached, IInv, Attaching, turnVars, threadVars, eventVars, Held, Tied
<1>31. CASE RolloutMissed
  <2>1. proc # None /\ active # None /\ UNCHANGED <<active, attach, attached, pc, threadId>>
    BY <1>31 DEF RolloutMissed, turnVars, threadVars
  <2>2. attach = "orphan" => interrupting.target # None
    <3>1. answer["attach"].is # "failed"
      BY <2>1 DEF IInv, Came, Waiters
    <3>2. QED
      BY <3>1 DEF IInv, Attaching
  <2>3. attach = "orphan" => UNCHANGED interrupting
    BY <1>31, <2>2 DEF RolloutMissed, Interrupt, NoInterrupt
  <2>4. QED
    BY <2>1, <2>3 DEF Held, Tied
<1>32. CASE Shutdown
  <2>1. LoseProcess /\ Quiet /\ UNCHANGED attach
    BY <1>32 DEF Shutdown, ShutDown
  <2>2. active' = None /\ interrupting'.target = None
    BY <2>1, Losses DEF IInv, NoInterrupt
  <2>3. QED
    BY <2>1, <2>2 DEF Held
<1>33. ASSUME NEW source \in {"user", "system"}, Stop(source) PROVE Held'
  <2>1. proc # None /\ active # None /\ UNCHANGED <<active, attach, attached, pc, threadId>>
    BY <1>33 DEF Stop, turnVars, threadVars
  <2>2. attach = "orphan" => interrupting.target # None
    <3>1. answer["attach"].is # "failed"
      BY <2>1 DEF IInv, Came, Waiters
    <3>2. QED
      BY <3>1 DEF IInv, Attaching
  <2>3. attach = "orphan" => UNCHANGED interrupting
    BY <1>33, <2>2 DEF Stop, Interrupt, NoInterrupt
  <2>4. QED
    BY <2>1, <2>3 DEF Held, Tied
<1>34. CASE \E p \in Procs : Speak(p) \/ Finish(p) \/ GoalTurn(p) \/ Die(p)
  BY <1>34, <1>1
  DEF Speak, Finish, GoalTurn, Die, turnVars, threadVars, eventVars
<1>35. ASSUME NEW p \in Procs, Closed(p) PROVE Held'
  <2>1. (LoseProcess \/ UNCHANGED <<active, interrupting, attached, threadId>>) /\ Quiet
        /\ UNCHANGED <<attach, pc>>
    BY <1>35 DEF Closed, turnVars, threadVars, eventVars
  <2>2. CASE LoseProcess
    <3>1. active' = None /\ interrupting'.target = None
      BY <2>1, <2>2, Losses DEF IInv, NoInterrupt
    <3>2. QED
      BY <2>1, <3>1 DEF Held
  <2>3. QED
    BY <2>1, <2>2 DEF Held, Tied
<1>36. CASE UNCHANGED vars
  BY <1>36, <1>1
  DEF vars, turnVars, threadVars, eventVars
<1>37. QED
  BY <1>2, <1>3, <1>4, <1>5, <1>6, <1>7, <1>8, <1>9, <1>10, <1>11, <1>12, <1>13, <1>14, <1>15,
     <1>16, <1>17, <1>18, <1>19, <1>20, <1>21, <1>22, <1>23, <1>24, <1>25, <1>26, <1>27, <1>28,
     <1>29, <1>30, <1>31, <1>32, <1>33, <1>34, <1>35, <1>36
  DEF Next, ReadStep, Continuation, Event

(* How what the process has to say moves: a line that stays keeps its place    *)
(* before the others, and what is new is in S and comes last.                  *)
About(l, t) == l.to = "thread" /\ l.id = t
Moved(S) ==
  \A k \in DOMAIN out'[proc] :
    \/ \E j \in DOMAIN out[proc] :
         /\ out'[proc][k] = out[proc][j]
         /\ \A t \in Turns :
              Past(j, t) /\ run'[proc] # t /\ (\A l \in S : ~ About(l, t)) => Past(k, t)'
    \/ /\ out'[proc][k] \in S
       /\ \A t \in Turns :
            run'[proc] # t /\ (\A l \in S : l # out'[proc][k] => ~ About(l, t)) => Past(k, t)'

(* When nothing is put out, and what there is is cut short or read, *)
LEMMA MovedFew ==
  ASSUME proc \in Procs, UNCHANGED proc, NEW d \in {0, 1},
         run'[proc] \in {run[proc], None},
         \A k \in DOMAIN out'[proc] :
           k \in Nat /\ k + d \in DOMAIN out[proc] /\ out'[proc][k] = out[proc][k + d]
  PROVE  Moved({})
<1>1. ASSUME NEW k \in DOMAIN out'[proc], NEW t \in Turns, Past(k + d, t) PROVE Past(k, t)'
  <2>1. run'[proc] # t
    BY <1>1, Names DEF Past
  <2>2. ASSUME NEW j \in DOMAIN out'[proc], k < j PROVE ~ Says(j, t)'
    <3>1. j + d \in DOMAIN out[proc] /\ out'[proc][j] = out[proc][j + d] /\ k + d < j + d
      BY <2>2
    <3>2. ~ Says(j + d, t)
      BY <1>1, <3>1 DEF Past
    <3>3. QED
      BY <3>1, <3>2 DEF Says
  <2>3. QED
    BY <2>1, <2>2 DEF Past
<1>2. QED
  BY <1>1 DEF Moved

(* when one line is put out, *)
LEMMA MovedPut ==
  ASSUME Typed, proc \in Procs, UNCHANGED proc, NEW l \in Lines, Puts(proc, l)
  PROVE  Moved({l})
<1>1. /\ \A k \in DOMAIN out'[proc] :
           \/ k \in DOMAIN out[proc] /\ out'[proc][k] = out[proc][k]
           \/ k = Len(out[proc]) + 1 /\ out'[proc][k] = l
      /\ DOMAIN out[proc] = 1..Len(out[proc]) /\ Len(out[proc]) \in Nat
  BY LinePut DEF Lines, Typed
<1>2. ASSUME NEW k \in DOMAIN out[proc], k \in DOMAIN out'[proc], NEW t \in Turns,
             Past(k, t), run'[proc] # t, ~ About(l, t)
      PROVE  Past(k, t)'
  <2>1. ASSUME NEW j \in DOMAIN out'[proc], k < j PROVE ~ Says(j, t)'
    <3>1. CASE j \in DOMAIN out[proc] /\ out'[proc][j] = out[proc][j]
      BY <1>2, <2>1, <3>1 DEF Past, Says
    <3>2. CASE out'[proc][j] = l
      BY <1>2, <3>2 DEF Says, About
    <3>3. QED
      BY <1>1, <3>1, <3>2
  <2>2. QED
    BY <1>2, <2>1 DEF Past
<1>3. ASSUME NEW k \in DOMAIN out'[proc], k = Len(out[proc]) + 1, NEW t \in Turns, run'[proc] # t
      PROVE  Past(k, t)'
  <2>1. \A j \in DOMAIN out'[proc] : ~ (k < j)
    BY <1>1, <1>3
  <2>2. QED
    BY <1>3, <2>1 DEF Past
<1>4. QED
  BY <1>1, <1>2, <1>3 DEF Moved

(* and when two are. *)
LEMMA MovedPair ==
  ASSUME Typed, proc \in Procs, UNCHANGED proc, NEW l \in Lines, NEW m \in Lines, l # m,
         PutsBoth(proc, l, m)
  PROVE  Moved({l, m})
<1>1. /\ \A k \in DOMAIN out'[proc] :
           \/ k \in DOMAIN out[proc] /\ out'[proc][k] = out[proc][k]
           \/ k = Len(out[proc]) + 1 /\ out'[proc][k] = l
           \/ k = Len(out[proc]) + 2 /\ out'[proc][k] = m
      /\ DOMAIN out[proc] = 1..Len(out[proc]) /\ Len(out[proc]) \in Nat
  BY PairPut DEF Lines, Typed
<1>2. ASSUME NEW k \in DOMAIN out[proc], k \in DOMAIN out'[proc], NEW t \in Turns,
             Past(k, t), run'[proc] # t, ~ About(l, t), ~ About(m, t)
      PROVE  Past(k, t)'
  <2>1. ASSUME NEW j \in DOMAIN out'[proc], k < j PROVE ~ Says(j, t)'
    <3>1. CASE j \in DOMAIN out[proc] /\ out'[proc][j] = out[proc][j]
      BY <1>2, <2>1, <3>1 DEF Past, Says
    <3>2. CASE out'[proc][j] = l \/ out'[proc][j] = m
      BY <1>2, <3>2 DEF Says, About
    <3>3. QED
      BY <1>1, <3>1, <3>2
  <2>2. QED
    BY <1>2, <2>1 DEF Past
<1>3. ASSUME NEW k \in DOMAIN out'[proc], k = Len(out[proc]) + 1, NEW t \in Turns,
             run'[proc] # t, ~ About(m, t)
      PROVE  Past(k, t)'
  <2>1. \A j \in DOMAIN out'[proc] : k < j => out'[proc][j] = m
    BY <1>1, <1>3
  <2>2. QED
    BY <1>3, <2>1 DEF Past, Says, About
<1>4. ASSUME NEW k \in DOMAIN out'[proc], k = Len(out[proc]) + 2, NEW t \in Turns, run'[proc] # t
      PROVE  Past(k, t)'
  <2>1. \A j \in DOMAIN out'[proc] : ~ (k < j)
    BY <1>1, <1>4
  <2>2. QED
    BY <1>4, <2>1 DEF Past
<1>5. ASSUME NEW k \in DOMAIN out'[proc]
      PROVE  \/ \E j \in DOMAIN out[proc] :
                  /\ out'[proc][k] = out[proc][j]
                  /\ \A t \in Turns : Past(j, t) /\ run'[proc] # t
                                      /\ (\A x \in {l, m} : ~ About(x, t)) => Past(k, t)'
             \/ /\ out'[proc][k] \in {l, m}
                /\ \A t \in Turns : run'[proc] # t
                     /\ (\A x \in {l, m} : x # out'[proc][k] => ~ About(x, t)) => Past(k, t)'
  <2>1. CASE k \in DOMAIN out[proc] /\ out'[proc][k] = out[proc][k]
    BY <1>2, <2>1
  <2>2. CASE k = Len(out[proc]) + 1 /\ out'[proc][k] = l
    BY <1>3, <2>2
  <2>3. CASE k = Len(out[proc]) + 2 /\ out'[proc][k] = m
    BY <1>4, <2>3
  <2>4. QED
    BY <1>1, <2>1, <2>2, <2>3
<1>6. QED
  BY <1>5 DEF Moved

(* Who writes a line that answers a request, *)
Wrote(l) ==
  \/ l.to = "turn" /\ (SendTurn \/ Rebuild) /\ (l.is = "refused" => run'[proc] = run[proc])
  \/ l.to = "attach" /\ SendThread /\ (l.is # "orphan" => run'[proc] = run[proc])
  \/ l.to = "control"
  \/ /\ l.to = "interrupt"
     /\ \/ l.is = "ok"
        \/ l.is = "refused" /\ run[proc] = None /\ run'[proc] = None
        \/ /\ l.is = "mismatch" /\ run[proc] # None
           /\ Retarget \/ (FoundOrphan /\ run[proc] # Goal) \/ (active # None /\ run[proc] # active)

(* and what a step makes of what the process does and says. *)
MovesBy(S) ==
  /\ Moved(S)
  /\ \A l \in S : IF l.to = "thread"
                  THEN l.id = run[proc] /\ (l.is # "output" => run'[proc] = None)
                  ELSE Wrote(l)
  /\ \A l, m \in S : l.to = "thread" /\ m.to = "thread" => l = m
  /\ waiting'[proc] = <<>>
  /\ \/ run'[proc] \in {run[proc], None}
     \/ SendTurn /\ run'[proc] = cur /\ \A l \in S : l.is = "ok"
     \/ SendThread /\ run'[proc] = Goal /\ \A l \in S : l.is = "orphan"
Moves == \E S \in SUBSET Lines : MovesBy(S)

LEMMA MovesStill ==
  ASSUME Typed, proc \in Procs, UNCHANGED proc, waiting[proc] = <<>>, waiting'[proc] = waiting[proc],
         run'[proc] \in {run[proc], None}, out'[proc] = out[proc]
  PROVE  Moves
<1>1. \A k \in DOMAIN out'[proc] : k \in Nat /\ k + 0 \in DOMAIN out[proc] /\ out'[proc][k] = out[proc][k + 0]
  <2>1. out[proc] \in Seq(Message)
    BY DEF Typed, LinesTyped
  <2>2. DOMAIN out[proc] \subseteq Nat
    BY <2>1
  <2>3. \A k \in Nat : k + 0 = k
    OBVIOUS
  <2>4. QED
    BY <2>2, <2>3
<1>2. Moved({})
  BY <1>1, MovedFew
<1>3. QED
  BY <1>2 DEF Moves, MovesBy

LEMMA MovesRead ==
  ASSUME Typed, proc \in Procs, UNCHANGED proc, waiting[proc] = <<>>, NEW p \in Procs, Read(p)
  PROVE  Moves
<1>1. UNCHANGED <<run, waiting>>
  BY DEF Read
<1>2. CASE p # proc
  <2>1. out'[proc] = out[proc]
    BY <1>2, LineRead DEF Typed
  <2>2. QED
    BY <1>1, <2>1, MovesStill
<1>3. CASE p = proc
  <2>1. \A k \in DOMAIN out'[proc] : k \in Nat /\ k + 1 \in DOMAIN out[proc] /\ out'[proc][k] = out[proc][k + 1]
    BY <1>3, LineRead DEF Typed
  <2>2. Moved({})
    BY <1>1, <2>1, MovedFew
  <2>3. QED
    BY <1>1, <2>2 DEF Moves, MovesBy
<1>4. QED
  BY <1>2, <1>3

LEMMA MovesOne ==
  ASSUME Typed, proc \in Procs, UNCHANGED proc, waiting'[proc] = <<>>, NEW l \in Lines, Puts(proc, l),
         IF l.to = "thread" THEN l.id = run[proc] /\ (l.is # "output" => run'[proc] = None) ELSE Wrote(l),
         \/ run'[proc] \in {run[proc], None}
         \/ SendTurn /\ run'[proc] = cur /\ l.is = "ok"
         \/ SendThread /\ run'[proc] = Goal /\ l.is = "orphan"
  PROVE  Moves
<1> DEFINE S == {l}
<1>1. Moved(S) /\ S \in SUBSET Lines
  BY MovedPut
<1>2. \A m \in S : m = l
  OBVIOUS
<1> HIDE DEF S
<1>3. QED
  BY <1>1, <1>2 DEF Moves, MovesBy

LEMMA MovesInterrupt ==
  ASSUME Typed, proc \in Procs, UNCHANGED proc, waiting[proc] = <<>>, NEW t \in Turns, NEW answers,
         AskInterrupt(t, answers) \/ UNCHANGED <<run, waiting, out>>,
         \/ Retarget
         \/ FoundOrphan /\ t = Goal
         \/ active = t
  PROVE  Moves
<1>1. CASE UNCHANGED <<out, run, waiting>>
  BY <1>1, MovesStill
<1>2. ASSUME NEW l \in Lines, NEW m \in Lines, PutsBoth(proc, l, m), run[proc] = t, TurnOver(proc),
             {l, m} = {Line("interrupt", "ok", None), Line("thread", "interrupted", t)}
      PROVE  Moves
  <2> DEFINE yes  == Line("interrupt", "ok", None)
             over == Line("thread", "interrupted", t)
             S    == {l, m}
  <2>1. /\ yes.to = "interrupt" /\ yes.is = "ok"
        /\ over.to = "thread" /\ over.id = t /\ over.is = "interrupted" /\ yes # over
    BY DEF Line
  <2>2. S = {yes, over}
    BY <1>2
  <2>3. l # m
    BY <1>2, <2>1
  <2>4. Moved(S) /\ S \in SUBSET Lines
    BY <1>2, <2>3, MovedPair
  <2>5. run'[proc] = None /\ waiting'[proc] = <<>>
    BY <1>2 DEF TurnOver, Typed, CodexTyped
  <2> HIDE DEF yes, over, S
  <2>6. \A x \in S : IF x.to = "thread" THEN x.id = run[proc] /\ (x.is # "output" => run'[proc] = None)
                     ELSE Wrote(x)
    BY <1>2, <2>1, <2>2, <2>5 DEF Wrote
  <2>7. \A x, y \in S : x.to = "thread" /\ y.to = "thread" => x = y
    BY <2>1, <2>2
  <2>8. QED
    BY <2>4, <2>5, <2>6, <2>7 DEF Moves, MovesBy
<1>3. ASSUME NEW l \in Lines, Puts(proc, l), l.to = "interrupt", UNCHANGED <<run, waiting>>,
             \/ l.is = "refused" /\ run[proc] = None
             \/ l.is = "mismatch" /\ l.id = run[proc] /\ run[proc] # None /\ run[proc] # t
      PROVE  Moves
  <2>1. Wrote(l)
    BY <1>3, Names DEF Wrote
  <2>2. QED
    BY <1>3, <2>1, MovesOne
<1>4. CASE AskInterrupt(t, answers)
  <2>1. \/ UNCHANGED <<out, run, waiting>>
        \/ /\ run[proc] = t /\ TurnOver(proc)
           /\ \E l, m \in Lines :
                /\ PutsBoth(proc, l, m)
                /\ {l, m} = {Line("interrupt", "ok", None), Line("thread", "interrupted", t)}
        \/ /\ UNCHANGED <<run, waiting>>
           /\ \E l \in Lines :
                /\ Puts(proc, l) /\ l.to = "interrupt"
                /\ \/ l.is = "refused" /\ run[proc] = None
                   \/ l.is = "mismatch" /\ l.id = run[proc] /\ run[proc] # None /\ run[proc] # t
    BY <1>4, InterruptSays
  <2>2. QED
    BY <1>1, <1>2, <1>3, <2>1
<1>5. QED
  BY <1>1, <1>4

(* Every step that is not a launch moves it so. *)
LEMMA MovesStep ==
  ASSUME IInv, proc \in Procs, UNCHANGED proc, waiting[proc] = <<>>, SendTurn => run[proc] = None,
         \A w \in {"attach", "warm"} : ~ Launch(w), ~ raced', [Next]_vars
  PROVE  Moves
<1>1. UNCHANGED <<run, waiting, out>> => Moves
  BY MovesStill DEF IInv
<1>2. ASSUME NEW p \in Procs, Ignore(p) PROVE Moves
  <2>1. Read(p)
    BY <1>2 DEF Ignore
  <2>2. QED
    BY <2>1, MovesRead DEF IInv
<1>3. ASSUME NEW p \in Procs, Answered(p) PROVE Moves
  <2>1. Read(p)
    BY <1>3 DEF Answered
  <2>2. QED
    BY <2>1, MovesRead DEF IInv
<1>4. ASSUME NEW p \in Procs, Output(p) PROVE Moves
  <2>1. Read(p)
    BY <1>4 DEF Output
  <2>2. QED
    BY <2>1, MovesRead DEF IInv
<1>5. ASSUME NEW p \in Procs, Ended(p) PROVE Moves
  <2>1. Read(p)
    BY <1>5 DEF Ended
  <2>2. QED
    BY <2>1, MovesRead DEF IInv
<1>6. CASE Initialized \/ ThreadReady \/ ThreadGone \/ AttachFails \/ InterruptTaken
  BY <1>6, <1>1
  DEF Initialized, ThreadReady, ThreadGone, AttachFails, InterruptTaken, codexVars
<1>7. CASE SendThread
  <2>1. StartThread("attach") \/ ResumeThread
    BY <1>7 DEF SendThread
  <2>2. CASE UNCHANGED <<out, run>> /\ UNCHANGED waiting
    BY <2>2, MovesStill DEF IInv
  <2>3. ASSUME NEW l \in Lines, Puts(proc, l), l.to = "attach", UNCHANGED waiting,
               \/ l.is \in {"ok", "refused", "gone"} /\ UNCHANGED run
               \/ l.is = "orphan" /\ run' = [run EXCEPT ![proc] = Goal]
        PROVE  Moves
    <3>1. run'[proc] = run[proc] \/ (l.is = "orphan" /\ run'[proc] = Goal)
      BY <2>3 DEF IInv, Typed, CodexTyped
    <3>2. Wrote(l)
      BY <1>7, <2>3, <3>1 DEF Wrote
    <3>3. QED
      BY <1>7, <2>3, <3>1, <3>2, MovesOne DEF IInv
  <2>4. \/ UNCHANGED <<out, run>> /\ UNCHANGED waiting
        \/ /\ UNCHANGED waiting
           /\ \E l \in Lines :
                /\ Puts(proc, l) /\ l.to = "attach"
                /\ \/ l.is \in {"ok", "refused", "gone"} /\ UNCHANGED run
                   \/ l.is = "orphan" /\ run' = [run EXCEPT ![proc] = Goal]
    <3>1. CASE StartThread("attach")
      BY <3>1, StartThreadSays DEF IInv
    <3>2. CASE ResumeThread
      BY <3>2, ResumeSays DEF IInv
    <3>3. QED
      BY <2>1, <3>1, <3>2
  <2>5. QED
    BY <2>2, <2>3, <2>4
<1>8. CASE FoundOrphan
  <2>1. answer["attach"].id = Goal /\ Goal \in Turns
    BY <1>8, Names DEF FoundOrphan, Got, IInv, Typed, AnswersTyped
  <2>2. \/ \E answers : AskInterrupt(Goal, answers)
        \/ UNCHANGED <<run, waiting, out>>
    BY <1>8, <2>1 DEF FoundOrphan, Interrupt
  <2>3. QED
    BY <1>8, <2>1, <2>2, MovesInterrupt DEF IInv
<1>9. CASE Retarget
  <2>1. answer["interrupt"].id \in Turns
    BY <1>9 DEF Retarget, Mismatched, Got, IInv, Typed, AnswersTyped
  <2>2. AskInterrupt(answer["interrupt"].id, answer) \/ UNCHANGED <<run, waiting, out>>
    BY <1>9 DEF Retarget
  <2>3. QED
    BY <1>9, <2>1, <2>2, MovesInterrupt DEF IInv
<1>10. CASE InterruptOver \/ InterruptFails \/ Take \/ Started \/ StartFails \/ Settled
  BY <1>10, <1>1
  DEF InterruptOver, InterruptFails, Take, Started, StartFails, Settled, InterruptEnds, codexVars
<1>11. CASE SendTurn
  <2>1. cur \in Prompts /\ StartTurn
    BY <1>11 DEF SendTurn, IInv, Lined
  <2>2. UNCHANGED waiting
    BY <1>11, <2>1, StartTurnSays DEF IInv
  <2>3. \/ UNCHANGED <<out, run>>
        \/ \E l \in Lines :
             /\ Puts(proc, l) /\ l.to = "turn"
             /\ \/ l.is = "refused" /\ UNCHANGED run
                \/ l.is = "ok" /\ run' = [run EXCEPT ![proc] = cur]
    BY <1>11, <2>1, StartTurnSays DEF IInv
  <2>4. ASSUME NEW l \in Lines, Puts(proc, l), l.to = "turn",
               \/ l.is = "refused" /\ UNCHANGED run
               \/ l.is = "ok" /\ run' = [run EXCEPT ![proc] = cur]
        PROVE  Moves
    <3>1. run'[proc] = run[proc] \/ (l.is = "ok" /\ run'[proc] = cur)
      BY <2>4 DEF IInv, Typed, CodexTyped
    <3>2. Wrote(l)
      BY <1>11, <2>4, <3>1 DEF Wrote
    <3>3. QED
      BY <1>11, <2>2, <2>4, <3>1, <3>2, MovesOne DEF IInv
  <2>5. QED
    BY <1>1, <2>2, <2>3, <2>4
<1>12. CASE Close \/ Rebuilt \/ FailTurn \/ WarmedUp \/ Controlled
  BY <1>12, <1>1
  DEF Close, Rebuilt, FailTurn, WarmedUp, Controlled, codexVars
<1>13. CASE Rebuild
  <2>1. UNCHANGED <<run, waiting>> /\ (UNCHANGED out \/ \E l \in Lines : Puts(proc, l) /\ l.to = "turn")
    BY <1>13, StartThreadSays DEF Rebuild, IInv
  <2>2. ASSUME NEW l \in Lines, Puts(proc, l), l.to = "turn" PROVE Moves
    <3>1. Wrote(l)
      BY <1>13, <2>1, <2>2 DEF Wrote
    <3>2. QED
      BY <2>1, <2>2, <3>1, MovesOne DEF IInv
  <2>3. QED
    BY <1>1, <2>1, <2>2
<1>14. CASE SendControl
  <2>1. UNCHANGED <<run, waiting>>
    BY <1>14 DEF SendControl
  <2>2. UNCHANGED out \/ \E l \in Lines : Puts(proc, l) /\ l.to = "control"
    <3>1. Line("control", "ok", None) \in Lines /\ Line("control", "ok", None).to = "control"
      BY Spoken DEF IInv, Line
    <3>2. QED
      BY <1>14, <3>1, ControlSays DEF IInv
  <2>3. ASSUME NEW l \in Lines, Puts(proc, l), l.to = "control" PROVE Moves
    <3>1. Wrote(l)
      BY <2>3 DEF Wrote
    <3>2. QED
      BY <2>1, <2>3, <3>1, MovesOne DEF IInv
  <2>4. QED
    BY <1>1, <2>1, <2>2, <2>3
<1>15. CASE \E s \in Prompts : Submit(s)
  BY <1>15, <1>1
  DEF Submit, codexVars
<1>16. CASE \E w \in {"attach", "warm"} : LaunchFails(w)
  BY <1>16, <1>1
  DEF LaunchFails, codexVars
<1>17. ASSUME NEW w \in {"attach", "warm"}, Launch(w) PROVE Moves
  BY <1>17
<1>18. CASE Warmup \/ WarmTimeout \/ Control \/ Shutdown \/ ItemsDone
  BY <1>18, <1>1
  DEF Warmup, WarmTimeout, Control, Shutdown, ItemsDone, ShutDown, LoseProcess, codexVars
<1>19. CASE RolloutMissed
  <2>1. active \in Turns
    BY <1>19 DEF RolloutMissed, IInv, Typed, EventsTyped
  <2>2. AskInterrupt(active, answer) \/ UNCHANGED <<run, waiting, out>>
    BY <1>19 DEF RolloutMissed, Interrupt
  <2>3. QED
    BY <2>1, <2>2, MovesInterrupt DEF IInv
<1>20. ASSUME NEW source \in {"user", "system"}, Stop(source) PROVE Moves
  <2>1. active \in Turns
    BY <1>20 DEF Stop, IInv, Typed, EventsTyped
  <2>2. AskInterrupt(active, answer) \/ UNCHANGED <<run, waiting, out>>
    BY <1>20 DEF Stop, Interrupt
  <2>3. QED
    BY <2>1, <2>2, MovesInterrupt DEF IInv
<1>21. CASE \E p \in Procs : Closed(p)
  BY <1>21, <1>1
  DEF Closed, codexVars
<1>22. ASSUME NEW p \in Procs, Speak(p) PROVE Moves
  <2>1. /\ Line("thread", "output", run[p]) \in Lines /\ Puts(p, Line("thread", "output", run[p]))
        /\ UNCHANGED <<run, waiting>>
    BY <1>22, Spoken DEF Speak, IInv
  <2>2. CASE p # proc
    <3>1. out'[proc] = out[proc]
      BY <2>1, <2>2, LinePut DEF Lines, IInv, Typed
    <3>2. QED
      BY <2>1, <3>1, MovesStill DEF IInv
  <2>3. CASE p = proc
    <3>1. /\ Line("thread", "output", run[p]).to = "thread" /\ Line("thread", "output", run[p]).is = "output"
          /\ Line("thread", "output", run[p]).id = run[p]
      BY DEF Line
    <3>2. QED
      BY <2>1, <2>3, <3>1, MovesOne DEF IInv
  <2>4. QED
    BY <2>2, <2>3
<1>23. ASSUME NEW p \in Procs, Finish(p) PROVE Moves
  <2>1. /\ Line("thread", "completed", run[p]) \in Lines /\ Puts(p, Line("thread", "completed", run[p]))
        /\ TurnOver(p)
    BY <1>23, Spoken DEF Finish, IInv
  <2>2. CASE p # proc
    <3>1. out'[proc] = out[proc]
      BY <2>1, <2>2, LinePut DEF Lines, IInv, Typed
    <3>2. run'[proc] = run[proc] /\ waiting'[proc] = waiting[proc]
      BY <2>1, <2>2 DEF TurnOver, IInv, Typed, CodexTyped
    <3>3. QED
      BY <3>1, <3>2, MovesStill DEF IInv
  <2>3. CASE p = proc
    <3>1. /\ Line("thread", "completed", run[p]).to = "thread"
          /\ Line("thread", "completed", run[p]).id = run[p]
      BY DEF Line
    <3>2. run'[proc] = None /\ waiting'[proc] = <<>>
      BY <2>1, <2>3 DEF TurnOver, IInv, Typed, CodexTyped
    <3>3. QED
      BY <2>1, <2>3, <3>1, <3>2, MovesOne DEF IInv
  <2>4. QED
    BY <2>2, <2>3
<1>24. ASSUME NEW p \in Procs, GoalTurn(p) PROVE Moves
  BY <1>24 DEF GoalTurn
<1>25. ASSUME NEW p \in Procs, Die(p) PROVE Moves
  <2>1. run' = [run EXCEPT ![p] = None] /\ waiting' = [waiting EXCEPT ![p] = <<>>]
    BY <1>25 DEF Die
  <2>2. run'[proc] \in {run[proc], None} /\ waiting'[proc] = <<>>
    BY <2>1 DEF IInv, Typed, CodexTyped
  <2>3. /\ \A q \in Procs \ {p} : out'[q] = out[q]
        /\ \A k \in DOMAIN out'[p] : k \in DOMAIN out[p] /\ out'[p][k] = out[p][k]
    BY <1>25, LinesCut DEF IInv, Typed
  <2>4. out[proc] \in Seq(Message)
    BY DEF IInv, Typed, LinesTyped
  <2>5. DOMAIN out[proc] \subseteq Nat /\ \A k \in Nat : k + 0 = k
    BY <2>4
  <2>6. \A k \in DOMAIN out'[proc] : k \in DOMAIN out[proc] /\ out'[proc][k] = out[proc][k]
    BY <2>3
  <2>7. Moved({})
    <3>1. \A k \in DOMAIN out'[proc] : k \in Nat /\ k + 0 \in DOMAIN out[proc] /\ out'[proc][k] = out[proc][k + 0]
      BY <2>5, <2>6
    <3>2. QED
      BY <2>2, <3>1, MovedFew
  <2>8. QED
    BY <2>2, <2>7 DEF Moves, MovesBy
<1>26. CASE UNCHANGED vars
  BY <1>26, <1>1
  DEF vars, codexVars
<1>27. QED
  BY <1>1, <1>2, <1>3, <1>4, <1>5, <1>6, <1>7, <1>8, <1>9, <1>10, <1>11, <1>12, <1>13, <1>14,
     <1>15, <1>16, <1>17, <1>18, <1>19, <1>20, <1>21, <1>22, <1>23, <1>24, <1>25, <1>26
  DEF Next, ReadStep, Continuation, Event

(* Every step keeps that the process is up or has nothing to do. *)
LEMMA LivelyStep ==
  ASSUME IInv, Lively, [Next]_vars
  PROVE  Lively'
<1>1. UNCHANGED <<alive, proc, run>> => Lively'
  BY DEF Lively
<1>2. CASE \E p \in Procs : Ignore(p) \/ Answered(p) \/ Output(p) \/ Ended(p)
  BY <1>2, <1>1
  DEF Ignore, Answered, Output, Ended, Read, codexVars
<1>3. CASE Initialized \/ ThreadReady \/ ThreadGone \/ AttachFails \/ InterruptTaken
  BY <1>3, <1>1
  DEF Initialized, ThreadReady, ThreadGone, AttachFails, InterruptTaken, codexVars
<1>4. CASE SendThread
  <2>1. UNCHANGED <<proc, alive>>
    BY <1>4, StartThreadSays, ResumeSays DEF SendThread, IInv
  <2>2. UNCHANGED run \/ Served
    BY <1>4, StartThreadSays, ResumeSays DEF SendThread, IInv
  <2>3. QED
    BY <2>1, <2>2 DEF Lively, Served
<1>5. CASE FoundOrphan
  <2>1. UNCHANGED <<proc, alive>>
    BY <1>5 DEF FoundOrphan, Interrupt, AskInterrupt
  <2>2. UNCHANGED run \/ Served
    BY <1>5 DEF FoundOrphan, Interrupt, AskInterrupt
  <2>3. QED
    BY <2>1, <2>2 DEF Lively, Served
<1>6. CASE Retarget
  <2>1. UNCHANGED <<proc, alive>>
    BY <1>6 DEF Retarget, Interrupt, AskInterrupt
  <2>2. UNCHANGED run \/ Served
    BY <1>6 DEF Retarget, Interrupt, AskInterrupt
  <2>3. QED
    BY <2>1, <2>2 DEF Lively, Served
<1>7. CASE InterruptOver \/ InterruptFails \/ Take \/ Started \/ StartFails \/ Settled
  BY <1>7, <1>1
  DEF InterruptOver, InterruptFails, Take, Started, StartFails, Settled, InterruptEnds, codexVars
<1>8. CASE SendTurn
  <2>1. UNCHANGED <<proc, alive>>
    BY <1>8 DEF SendTurn, StartTurn, Unserved, Refuse, codexVars
  <2>2. UNCHANGED run \/ Served
    BY <1>8 DEF SendTurn, StartTurn, Unserved, Refuse, codexVars
  <2>3. QED
    BY <2>1, <2>2 DEF Lively, Served
<1>9. CASE Close \/ Rebuilt \/ FailTurn \/ WarmedUp \/ SendControl \/ Controlled
  BY <1>9, <1>1
  DEF Close, Rebuilt, FailTurn, WarmedUp, SendControl, Controlled, codexVars
<1>10. CASE Rebuild
  <2>1. UNCHANGED <<proc, alive, run>>
    BY <1>10, StartThreadSays DEF Rebuild, IInv
  <2>2. QED
    BY <2>1 DEF Lively
<1>11. CASE \E s \in Prompts : Submit(s)
  BY <1>11, <1>1
  DEF Submit, codexVars
<1>12. CASE \E v \in {"attach", "warm"} : LaunchFails(v)
  BY <1>12, <1>1
  DEF LaunchFails, codexVars
<1>13. ASSUME NEW v \in {"attach", "warm"}, Launch(v) PROVE Lively'
  <2>1. proc' \in Procs /\ alive' = [alive EXCEPT ![proc'] = "up"]
    BY <1>13, Launched DEF IInv, Typed
  <2>2. QED
    BY <2>1 DEF Lively, IInv, Typed, CodexTyped
<1>14. CASE Warmup \/ Control \/ ItemsDone
  BY <1>14, <1>1
  DEF Warmup, Control, ItemsDone, codexVars
<1>15. CASE WarmTimeout
  <2>1. proc' = None
    BY <1>15 DEF WarmTimeout, ShutDown, LoseProcess
  <2>2. QED
    BY <2>1 DEF Lively
<1>16. CASE RolloutMissed
  <2>1. UNCHANGED <<proc, alive>>
    BY <1>16 DEF RolloutMissed, Interrupt, AskInterrupt
  <2>2. UNCHANGED run \/ Served
    BY <1>16 DEF RolloutMissed, Interrupt, AskInterrupt
  <2>3. QED
    BY <2>1, <2>2 DEF Lively, Served
<1>17. CASE Shutdown
  <2>1. proc' = None
    BY <1>17 DEF Shutdown, ShutDown, LoseProcess
  <2>2. QED
    BY <2>1 DEF Lively
<1>18. ASSUME NEW source \in {"user", "system"}, Stop(source) PROVE Lively'
  <2>1. UNCHANGED <<proc, alive>>
    BY <1>18 DEF Stop, Interrupt, AskInterrupt
  <2>2. UNCHANGED run \/ Served
    BY <1>18 DEF Stop, Interrupt, AskInterrupt
  <2>3. QED
    BY <2>1, <2>2 DEF Lively, Served
<1>19. ASSUME NEW p \in Procs, Speak(p) PROVE Lively'
  BY <1>19
  DEF Speak, codexVars, Lively
<1>20. ASSUME NEW p \in Procs, Finish(p) PROVE Lively'
  <2>1. alive[p] = "up" /\ UNCHANGED <<proc, alive>>
    BY <1>20 DEF Finish
  <2>2. p # proc /\ proc # None => run'[proc] = run[proc]
    BY <1>20 DEF Finish, TurnOver, IInv, Typed, CodexTyped, NamesTyped
  <2>3. QED
    BY <2>1, <2>2 DEF Lively
<1>21. ASSUME NEW p \in Procs, GoalTurn(p) PROVE Lively'
  BY <1>21
  DEF GoalTurn, codexVars, Lively
<1>22. ASSUME NEW p \in Procs, Die(p) PROVE Lively'
  BY <1>22
  DEF Die, IInv, Typed, CodexTyped, NamesTyped, codexVars, Lively
<1>23. ASSUME NEW p \in Procs, Closed(p) PROVE Lively'
  <2>1. CASE proc = p
    BY <1>23, <2>1 DEF Closed, LoseProcess, Lively
  <2>2. CASE proc # p
    BY <1>23, <2>2 DEF Closed, Lively, IInv, Typed, CodexTyped, NamesTyped
  <2>3. QED
    BY <2>1, <2>2
<1>24. CASE UNCHANGED vars
  BY <1>24, <1>1
  DEF vars, codexVars
<1>25. QED
  BY <1>2, <1>3, <1>4, <1>5, <1>6, <1>7, <1>8, <1>9, <1>10, <1>11, <1>12, <1>13, <1>14, <1>15,
     <1>16, <1>17, <1>18, <1>19, <1>20, <1>21, <1>22, <1>23, <1>24
  DEF Next, ReadStep, Continuation, Event

(* How an answer may change while the process stays: it is asked for, taken, or
   read from the first line. *)
Answers(w) ==
  \/ answer'[w].is \in {"none", "sent", answer[w].is}
  \/ /\ Answered(proc) /\ 1 \in DOMAIN out[proc]
     /\ out[proc][1].to = w /\ answer'[w].is = out[proc][1].is

(* Every step keeps to that. *)
LEMMA AnswerStep ==
  ASSUME Typed, proc \in Procs, UNCHANGED proc, NEW w \in Waiters, [Next]_vars
  PROVE  Answers(w)
<1>1. UNCHANGED answer => Answers(w)
  BY DEF Answers
<1>2. CASE \E p \in Procs : Ignore(p) \/ Output(p) \/ Ended(p)
  BY <1>2, <1>1
  DEF Ignore, Output, Ended, Read
<1>3. ASSUME NEW p \in Procs, Answered(p) PROVE Answers(w)
  <2>1. p = proc /\ 1 \in DOMAIN out[p] /\ First(p) = out[p][1]
    BY <1>3, LineRead DEF Answered, Reads, Typed
  <2>2. \/ UNCHANGED answer
        \/ answer' = [answer EXCEPT ![First(p).to] = [is |-> First(p).is, id |-> First(p).id]]
    BY <1>3 DEF Answered
  <2>3. QED
    BY <1>3, <2>1, <2>2 DEF Answers, Typed, AnswersTyped
<1>4. CASE Initialized
  BY <1>4
  DEF Initialized, Taken, Nothing, Typed, AnswersTyped, Answers
<1>5. CASE SendThread
  <2>1. Answering("attach")
    BY <1>5, StartThreadSays, ResumeSays DEF SendThread
  <2>2. QED
    BY <2>1 DEF Answering, Answers, Typed, AnswersTyped
<1>6. CASE ThreadReady
  BY <1>6
  DEF ThreadReady, Taken, Nothing, Typed, AnswersTyped, Answers
<1>7. CASE ThreadGone
  BY <1>7
  DEF ThreadGone, Taken, Nothing, Typed, AnswersTyped, Answers
<1>8. CASE AttachFails
  BY <1>8
  DEF AttachFails, Taken, Nothing, Typed, AnswersTyped, Answers
<1>9. CASE FoundOrphan
  <2> DEFINE rest == [answer EXCEPT !["attach"] = Nothing]
  <2>1. answer' = rest \/ answer' = [rest EXCEPT !["interrupt"] = [is |-> "sent", id |-> proc]]
    BY <1>9 DEF FoundOrphan, Interrupt, AskInterrupt
  <2>2. rest[w].is \in {"none", answer[w].is}
    BY DEF Nothing, Typed, AnswersTyped
  <2>3. rest \in [Waiters -> {Nothing} \cup Reply]
    BY DEF Typed, AnswersTyped
  <2> HIDE DEF rest
  <2>4. QED
    BY <2>1, <2>2, <2>3 DEF Answers
<1>10. CASE InterruptTaken
  BY <1>10
  DEF InterruptTaken, Taken, Nothing, Typed, AnswersTyped, Answers
<1>11. CASE Retarget
  <2>1. \/ UNCHANGED answer
        \/ answer' = [answer EXCEPT !["interrupt"] = [is |-> "sent", id |-> proc]]
        \/ Taken("interrupt")
    BY <1>11 DEF Retarget, Interrupt, AskInterrupt
  <2>2. QED
    BY <2>1 DEF Answers, Typed, AnswersTyped, Taken, Nothing
<1>12. CASE InterruptOver \/ Take \/ Settled
  BY <1>12, <1>1
  DEF InterruptOver, Take, Settled, InterruptEnds
<1>13. CASE InterruptFails
  BY <1>13
  DEF InterruptFails, InterruptEnds, Taken, Nothing, Typed, AnswersTyped, Answers
<1>14. CASE SendTurn
  BY <1>14
  DEF SendTurn, StartTurn, Send, Typed, AnswersTyped, Answers
<1>15. CASE Started
  BY <1>15
  DEF Started, Taken, Nothing, Typed, AnswersTyped, Answers
<1>16. CASE StartFails
  BY <1>16
  DEF StartFails, Taken, Nothing, Typed, AnswersTyped, Answers
<1>17. CASE Close \/ FailTurn
  BY <1>17, <1>1
  DEF Close, FailTurn
<1>18. CASE Rebuild
  <2>1. Answering("turn")
    BY <1>18, StartThreadSays DEF Rebuild
  <2>2. QED
    BY <2>1 DEF Answering, Answers, Typed, AnswersTyped
<1>19. CASE Rebuilt
  BY <1>19
  DEF Rebuilt, Taken, Nothing, Typed, AnswersTyped, Answers
<1>20. CASE WarmedUp
  BY <1>20
  DEF WarmedUp, Taken, Nothing, Typed, AnswersTyped, Answers
<1>21. CASE SendControl
  BY <1>21
  DEF SendControl, Send, Typed, AnswersTyped, Answers
<1>22. CASE Controlled
  BY <1>22
  DEF Controlled, Taken, Nothing, Typed, AnswersTyped, Answers
<1>23. CASE \E s \in Prompts : Submit(s)
  BY <1>23, <1>1
  DEF Submit
<1>24. CASE \E v \in {"attach", "warm"} : LaunchFails(v)
  BY <1>24, <1>1
  DEF LaunchFails
<1>25. ASSUME NEW v \in {"attach", "warm"}, Launch(v) PROVE Answers(w)
  <2>1. answer' = [answer EXCEPT ![v] = [is |-> "sent", id |-> proc']]
    BY <1>25, Launched DEF Typed
  <2>2. QED
    BY <2>1 DEF Answers, Typed, AnswersTyped
<1>26. CASE Warmup \/ Control \/ ItemsDone
  BY <1>26, <1>1
  DEF Warmup, Control, ItemsDone
<1>27. CASE WarmTimeout
  <2>1. proc' = None
    BY <1>27 DEF WarmTimeout, ShutDown, LoseProcess
  <2>2. QED
    BY <2>1, Names
<1>28. CASE RolloutMissed
  <2>1. \/ UNCHANGED answer
        \/ answer' = [answer EXCEPT !["interrupt"] = [is |-> "sent", id |-> proc]]
    BY <1>28 DEF RolloutMissed, Interrupt, AskInterrupt
  <2>2. QED
    BY <2>1 DEF Answers, Typed, AnswersTyped
<1>29. CASE Shutdown
  <2>1. proc' = None
    BY <1>29 DEF Shutdown, ShutDown, LoseProcess
  <2>2. QED
    BY <2>1, Names
<1>30. ASSUME NEW source \in {"user", "system"}, Stop(source) PROVE Answers(w)
  <2>1. \/ UNCHANGED answer
        \/ answer' = [answer EXCEPT !["interrupt"] = [is |-> "sent", id |-> proc]]
    BY <1>30 DEF Stop, Interrupt, AskInterrupt
  <2>2. QED
    BY <2>1 DEF Answers, Typed, AnswersTyped
<1>31. CASE \E p \in Procs : Speak(p) \/ Finish(p) \/ GoalTurn(p) \/ Die(p)
  BY <1>31, <1>1
  DEF Speak, Finish, GoalTurn, Die
<1>32. ASSUME NEW p \in Procs, Closed(p) PROVE Answers(w)
  <2>1. proc' = None \/ UNCHANGED answer
    BY <1>32 DEF Closed, LoseProcess
  <2>2. QED
    BY <2>1, Names DEF Answers
<1>33. CASE UNCHANGED vars
  BY <1>33, <1>1
  DEF vars
<1>34. QED
  BY <1>2, <1>3, <1>4, <1>5, <1>6, <1>7, <1>8, <1>9, <1>10, <1>11, <1>12, <1>13, <1>14, <1>15,
     <1>16, <1>17, <1>18, <1>19, <1>20, <1>21, <1>22, <1>23, <1>24, <1>25, <1>26, <1>27, <1>28,
     <1>29, <1>30, <1>31, <1>32, <1>33
  DEF Next, ReadStep, Continuation, Event

(* What is told was told before, unless it is new among the lines. *)
LEMMA ToldStep ==
  ASSUME Typed, proc \in Procs, UNCHANGED proc, [Next]_vars, NEW S \in SUBSET Lines, Moved(S),
         NEW w \in Waiters, NEW is \in {"ok", "gone", "refused", "mismatch"}, Told(w, is)'
  PROVE  Told(w, is) \/ \E l \in S : l.to = w /\ l.is = is
<1>1. proc # None
  BY Names
<1>2. CASE answer'[w].is = is
  <2>1. Answers(w)
    BY AnswerStep
  <2>2. QED
    BY <1>1, <1>2, <2>1 DEF Answers, Told
<1>3. ASSUME NEW k \in DOMAIN out'[proc], out'[proc][k].to = w, out'[proc][k].is = is
      PROVE  Told(w, is) \/ \E l \in S : l.to = w /\ l.is = is
  BY <1>1, <1>3 DEF Moved, Told
<1>4. QED
  BY <1>2, <1>3 DEF Told

(* What is read last of a turn that does not run is all there is of it. *)
LEMMA ReadLast ==
  ASSUME Typed, proc \in Procs, UNCHANGED proc, NEW t \in Turns, Read(proc), Past(1, t)
  PROVE  ~ Runs(t)'
<1>1. run'[proc] # t
  BY DEF Read, Past
<1>2. ASSUME NEW k \in DOMAIN out'[proc] PROVE ~ Says(k, t)'
  <2>1. k + 1 \in DOMAIN out[proc] /\ k + 1 # 1 /\ k \in Nat /\ out'[proc][k] = out[proc][k + 1]
        /\ DOMAIN out[proc] = 1..Len(out[proc]) /\ Len(out[proc]) \in Nat
    BY LineRead DEF Typed
  <2>2. 1 < k + 1
    BY <2>1
  <2>3. ~ Says(k + 1, t)
    BY <2>1, <2>2 DEF Past
  <2>4. QED
    BY <2>1, <2>3 DEF Says
<1>3. QED
  BY <1>1, <1>2 DEF Runs

(* What a step leaves of a turn whose end is awaited, *)
Awaited ==
  /\ cur' = cur /\ pc' # "fail"
  /\ \/ completer'.is = "open"
     \/ Ended(proc) /\ active \in {None, First(proc).id}

(* when nothing of it has failed. *)
LEMMA AwaitedStep ==
  ASSUME IInv, proc \in Procs, UNCHANGED proc, completer.is = "open", pc # "fail",
         answer["turn"].is # "refused", ~ Retarget, [Next]_vars
  PROVE  Awaited
<1>1. UNCHANGED <<completer, cur, pc>> => Awaited
  BY DEF Awaited
<1>2. CASE \E p \in Procs : Ignore(p) \/ Answered(p) \/ Output(p)
  BY <1>2, <1>1
  DEF Ignore, Answered, Output, Read, turnVars, eventVars
<1>3. ASSUME NEW p \in Procs, Ended(p) PROVE Awaited
  <2>1. UNCHANGED <<cur, pc>> /\ p = proc
    BY <1>3 DEF Ended, Reads, turnVars
  <2>2. completer' = completer \/ active \in {None, First(p).id}
    BY <1>3 DEF Ended, TurnEnded, Closes
  <2>3. QED
    BY <1>3, <2>1, <2>2 DEF Awaited
<1>4. CASE Initialized \/ SendThread \/ ThreadGone \/ FoundOrphan \/ InterruptTaken
  BY <1>4, <1>1
  DEF Initialized, SendThread, ThreadGone, FoundOrphan, InterruptTaken, turnVars, eventVars
<1>5. CASE ThreadReady
  BY <1>5
  DEF ThreadReady, AttachEnds, IInv, Turning, turnVars, eventVars, Awaited
<1>6. CASE AttachFails
  BY <1>6
  DEF AttachFails, AttachEnds, IInv, Turning, turnVars, eventVars, Awaited
<1>7. CASE Retarget
  BY <1>7
<1>8. CASE InterruptOver
  BY <1>8
  DEF InterruptOver, InterruptEnds, AttachEnds, IInv, Turning, turnVars, eventVars, Awaited
<1>9. CASE InterruptFails
  BY <1>9
  DEF InterruptFails, InterruptEnds, AttachEnds, IInv, Turning, turnVars, eventVars, Awaited
<1>10. CASE Take
  BY <1>10
  DEF Take, IInv, Turning, Nothing, turnVars, eventVars, Awaited
<1>11. CASE SendTurn
  BY <1>11
  DEF SendTurn, IInv, Turning, Nothing, turnVars, eventVars, Awaited
<1>12. CASE Started
  BY <1>12
  DEF Started, turnVars, eventVars, Awaited
<1>13. CASE StartFails
  <2>1. answer["turn"].is = "failed"
    BY <1>13 DEF StartFails, Got
  <2>2. QED
    BY <2>1, Names DEF IInv, Came, Waiters
<1>14. CASE Settled
  BY <1>14
  DEF Settled, turnVars, eventVars, Awaited
<1>15. CASE WarmedUp \/ SendControl \/ Controlled
  BY <1>15, <1>1
  DEF WarmedUp, SendControl, Controlled, turnVars, eventVars
<1>16. CASE Close
  BY <1>16
  DEF Close, IInv, Turning, turnVars, eventVars, Awaited
<1>17. CASE Rebuild
  BY <1>17
  DEF Rebuild, IInv, Turning, turnVars, eventVars, Awaited
<1>18. CASE Rebuilt
  BY <1>18
  DEF Rebuilt, IInv, Turning, turnVars, eventVars, Awaited
<1>19. CASE FailTurn
  BY <1>19
  DEF FailTurn, turnVars, eventVars, Awaited
<1>20. CASE \E s \in Prompts : Submit(s)
  BY <1>20, <1>1
  DEF Submit, turnVars, eventVars
<1>21. CASE \E w \in {"attach", "warm"} : Launch(w)
  BY <1>21, <1>1
  DEF Launch, turnVars, eventVars
<1>22. ASSUME NEW w \in {"attach", "warm"}, LaunchFails(w) PROVE Awaited
  BY <1>22
  DEF LaunchFails, AttachEnds, IInv, Turning, turnVars, eventVars, Awaited
<1>23. CASE Warmup \/ Control \/ RolloutMissed \/ ItemsDone
  BY <1>23, <1>1
  DEF Warmup, Control, RolloutMissed, ItemsDone, turnVars, eventVars
<1>24. CASE WarmTimeout
  <2>1. proc' = None
    BY <1>24 DEF WarmTimeout, ShutDown, LoseProcess
  <2>2. QED
    BY <2>1, Names
<1>25. CASE Shutdown
  <2>1. proc' = None
    BY <1>25 DEF Shutdown, ShutDown, LoseProcess
  <2>2. QED
    BY <2>1, Names
<1>26. CASE \E source \in {"user", "system"} : Stop(source)
  BY <1>26, <1>1
  DEF Stop, turnVars, eventVars
<1>27. CASE \E p \in Procs : Speak(p) \/ Finish(p) \/ GoalTurn(p) \/ Die(p)
  BY <1>27, <1>1
  DEF Speak, Finish, GoalTurn, Die, turnVars, eventVars
<1>28. ASSUME NEW p \in Procs, Closed(p) PROVE Awaited
  <2>1. proc' = None \/ UNCHANGED <<cur, pc, completer>>
    BY <1>28 DEF Closed, LoseProcess, turnVars, eventVars
  <2>2. QED
    BY <2>1, Names DEF Awaited
<1>29. CASE UNCHANGED vars
  BY <1>29, <1>1
  DEF vars, turnVars, eventVars
<1>30. QED
  BY <1>2, <1>3, <1>4, <1>5, <1>6, <1>7, <1>8, <1>9, <1>10, <1>11, <1>12, <1>13, <1>14, <1>15,
     <1>16, <1>17, <1>18, <1>19, <1>20, <1>21, <1>22, <1>23, <1>24, <1>25, <1>26, <1>27, <1>28,
     <1>29
  DEF Next, ReadStep, Continuation, Event

(* of an attach that resumed a thread, *)
Resuming ==
  /\ attach = "resume" => attach' = "resume" \/ FoundOrphan \/ answer["attach"].is \in {"ok", "gone", "refused"}
  /\ attach = "orphan" =>
       attach' = "orphan" \/ interrupting.over \/ answer["interrupt"].is \in {"refused", "mismatch"}
  /\ attach' = "resume" => attach = "resume" \/ SendThread
  /\ attach' = "orphan" => attach = "orphan" \/ FoundOrphan

(* that leads nowhere but to its thread or to the turn found in it, *)
LEMMA ResumingStep ==
  ASSUME IInv, proc \in Procs, UNCHANGED proc, [Next]_vars
  PROVE  Resuming
<1>1. UNCHANGED attach => Resuming
  BY DEF Resuming
<1>2. CASE \E p \in Procs : Ignore(p) \/ Answered(p) \/ Output(p) \/ Ended(p)
  BY <1>2, <1>1
  DEF Ignore, Answered, Output, Ended, Read
<1>3. CASE InterruptTaken \/ Retarget
  BY <1>3, <1>1
  DEF InterruptTaken, Retarget
<1>4. CASE Initialized
  BY <1>4
  DEF Initialized, Resuming
<1>5. CASE SendThread
  BY <1>5
  DEF SendThread, Resuming
<1>6. CASE ThreadReady
  BY <1>6
  DEF ThreadReady, AttachEnds, Got, Resuming
<1>7. CASE ThreadGone
  BY <1>7
  DEF ThreadGone, Got, Resuming
<1>8. CASE AttachFails
  <2>1. answer["attach"].is = "refused" /\ attach' = "idle"
    BY <1>8, Names DEF AttachFails, AttachEnds, Got, IInv, Came, Waiters
  <2>2. attach # "orphan"
    BY <2>1 DEF IInv, Attaching, Nothing, Failure
  <2>3. QED
    BY <2>1, <2>2 DEF Resuming
<1>9. CASE FoundOrphan
  BY <1>9
  DEF FoundOrphan, Resuming
<1>10. CASE SendTurn \/ Started \/ StartFails \/ Settled
  BY <1>10, <1>1
  DEF SendTurn, Started, StartFails, Settled
<1>11. CASE InterruptOver
  BY <1>11
  DEF InterruptOver, InterruptEnds, AttachEnds, Got, Resuming
<1>12. CASE InterruptFails
  BY <1>12
  DEF InterruptFails, InterruptEnds, AttachEnds, Got, Resuming
<1>13. CASE Take
  BY <1>13
  DEF Take, EnsureAttached, Resuming
<1>14. CASE Close \/ Rebuild \/ Rebuilt \/ FailTurn \/ WarmedUp \/ SendControl \/ Controlled
  BY <1>14, <1>1
  DEF Close, Rebuild, Rebuilt, FailTurn, WarmedUp, SendControl, Controlled
<1>15. CASE \E s \in Prompts : Submit(s)
  BY <1>15, <1>1
  DEF Submit
<1>16. ASSUME NEW w \in {"attach", "warm"}, Launch(w) PROVE Resuming
  BY <1>16
  DEF Launch, Resuming
<1>17. ASSUME NEW w \in {"attach", "warm"}, LaunchFails(w) PROVE Resuming
  BY <1>17
  DEF LaunchFails, AttachEnds, Resuming
<1>18. CASE Warmup \/ RolloutMissed \/ ItemsDone
  BY <1>18, <1>1
  DEF Warmup, RolloutMissed, ItemsDone
<1>19. CASE WarmTimeout
  <2>1. proc' = None
    BY <1>19 DEF WarmTimeout, ShutDown, LoseProcess
  <2>2. QED
    BY <2>1, Names
<1>20. CASE Control
  BY <1>20
  DEF Control, EnsureAttached, Resuming
<1>21. CASE Shutdown
  <2>1. proc' = None
    BY <1>21 DEF Shutdown, ShutDown, LoseProcess
  <2>2. QED
    BY <2>1, Names
<1>22. CASE \E source \in {"user", "system"} : Stop(source)
  BY <1>22, <1>1
  DEF Stop
<1>23. CASE \E p \in Procs : Speak(p) \/ Finish(p) \/ GoalTurn(p) \/ Die(p) \/ Closed(p)
  BY <1>23, <1>1
  DEF Speak, Finish, GoalTurn, Die, Closed
<1>24. CASE UNCHANGED vars
  BY <1>24, <1>1
  DEF vars
<1>25. QED
  BY <1>2, <1>3, <1>4, <1>5, <1>6, <1>7, <1>8, <1>9, <1>10, <1>11, <1>12, <1>13, <1>14, <1>15,
     <1>16, <1>17, <1>18, <1>19, <1>20, <1>21, <1>22, <1>23, <1>24
  DEF Next, ReadStep, Continuation, Event

(* and of the interrupt of the turn found in it. *)
Stopping ==
  attach' = "orphan" /\ attach = "orphan" =>
    /\ interrupting'.target = interrupting.target
    /\ interrupting'.over =>
         interrupting.over \/ (Ended(proc) /\ First(proc).id = interrupting.target)

(* Every step keeps to that. *)
LEMMA StoppingStep ==
  ASSUME IInv, proc \in Procs, UNCHANGED proc, ~ Retarget, [Next]_vars
  PROVE  Stopping
<1>1. UNCHANGED <<attach, interrupting>> => Stopping
  BY DEF Stopping
<1>2. CASE \E p \in Procs : Ignore(p) \/ Answered(p) \/ Output(p)
  BY <1>2, <1>1
  DEF Ignore, Answered, Output, Read, eventVars
<1>3. ASSUME NEW p \in Procs, Ended(p) PROVE Stopping
  <2>1. UNCHANGED attach /\ p = proc /\ interrupting \in Pending /\ First(p).id # None
    BY <1>3, Names, LineRead DEF Ended, Reads, Meant, IInv, Typed, EventsTyped
  <2>2. \/ interrupting' = [interrupting EXCEPT !.kept = @ \cup {[id |-> First(p).id, how |-> First(p).is]}]
        \/ interrupting' = [interrupting EXCEPT !.over = interrupting.target = First(p).id]
    BY <1>3 DEF Ended, TurnEnded
  <2>3. interrupting'.target = interrupting.target
        /\ (interrupting'.over => interrupting.over \/ interrupting.target = First(p).id)
    BY <2>1, <2>2 DEF Pending
  <2>4. QED
    BY <1>3, <2>1, <2>3 DEF Stopping
<1>4. CASE InterruptTaken
  BY <1>4, <1>1
  DEF InterruptTaken, eventVars
<1>5. CASE Initialized
  BY <1>5
  DEF Initialized, eventVars, Stopping
<1>6. CASE SendThread
  BY <1>6
  DEF SendThread, eventVars, Stopping
<1>7. CASE ThreadReady
  BY <1>7
  DEF ThreadReady, AttachEnds, eventVars, Stopping
<1>8. CASE ThreadGone
  BY <1>8
  DEF ThreadGone, eventVars, Stopping
<1>9. CASE AttachFails
  BY <1>9
  DEF AttachFails, AttachEnds, eventVars, Stopping
<1>10. CASE FoundOrphan
  BY <1>10
  DEF FoundOrphan, eventVars, Stopping
<1>11. CASE Retarget
  BY <1>11
<1>12. CASE SendTurn \/ Started \/ StartFails \/ Settled
  BY <1>12, <1>1
  DEF SendTurn, Started, StartFails, Settled, eventVars
<1>13. CASE InterruptOver
  BY <1>13
  DEF InterruptOver, InterruptEnds, AttachEnds, eventVars, Stopping
<1>14. CASE InterruptFails
  BY <1>14
  DEF InterruptFails, InterruptEnds, AttachEnds, eventVars, Stopping
<1>15. CASE Take
  BY <1>15
  DEF Take, EnsureAttached, eventVars, Stopping
<1>16. CASE Close \/ Rebuild \/ Rebuilt \/ FailTurn \/ WarmedUp \/ SendControl \/ Controlled
  BY <1>16, <1>1
  DEF Close, Rebuild, Rebuilt, FailTurn, WarmedUp, SendControl, Controlled, eventVars
<1>17. CASE \E s \in Prompts : Submit(s)
  BY <1>17, <1>1
  DEF Submit, eventVars
<1>18. ASSUME NEW w \in {"attach", "warm"}, Launch(w) PROVE Stopping
  BY <1>18
  DEF Launch, eventVars, Stopping
<1>19. ASSUME NEW w \in {"attach", "warm"}, LaunchFails(w) PROVE Stopping
  BY <1>19
  DEF LaunchFails, AttachEnds, eventVars, Stopping
<1>20. CASE Warmup \/ ItemsDone
  BY <1>20, <1>1
  DEF Warmup, ItemsDone, eventVars
<1>21. CASE WarmTimeout
  <2>1. proc' = None
    BY <1>21 DEF WarmTimeout, ShutDown, LoseProcess
  <2>2. QED
    BY <2>1, Names
<1>22. CASE Control
  BY <1>22
  DEF Control, EnsureAttached, eventVars, Stopping
<1>23. CASE RolloutMissed
  <2>1. attach = "orphan" => interrupting.target # None
    BY Names DEF IInv, Attaching, Came, Waiters
  <2>2. attach = "orphan" => UNCHANGED interrupting
    BY <1>23, <2>1 DEF RolloutMissed, Interrupt, NoInterrupt
  <2>3. QED
    BY <2>2 DEF Stopping
<1>24. CASE Shutdown
  <2>1. proc' = None
    BY <1>24 DEF Shutdown, ShutDown, LoseProcess
  <2>2. QED
    BY <2>1, Names
<1>25. ASSUME NEW source \in {"user", "system"}, Stop(source) PROVE Stopping
  <2>1. attach = "orphan" => interrupting.target # None
    BY Names DEF IInv, Attaching, Came, Waiters
  <2>2. attach = "orphan" => UNCHANGED interrupting
    BY <1>25, <2>1 DEF Stop, Interrupt, NoInterrupt
  <2>3. QED
    BY <2>2 DEF Stopping
<1>26. CASE \E p \in Procs : Speak(p) \/ Finish(p) \/ GoalTurn(p) \/ Die(p)
  BY <1>26, <1>1
  DEF Speak, Finish, GoalTurn, Die, eventVars
<1>27. ASSUME NEW p \in Procs, Closed(p) PROVE Stopping
  <2>1. proc' = None \/ UNCHANGED <<attach, interrupting>>
    BY <1>27 DEF Closed, LoseProcess, eventVars
  <2>2. QED
    BY <2>1, Names DEF Stopping
<1>28. CASE UNCHANGED vars
  BY <1>28, <1>1
  DEF vars, eventVars
<1>29. QED
  BY <1>2, <1>3, <1>4, <1>5, <1>6, <1>7, <1>8, <1>9, <1>10, <1>11, <1>12, <1>13, <1>14, <1>15,
     <1>16, <1>17, <1>18, <1>19, <1>20, <1>21, <1>22, <1>23, <1>24, <1>25, <1>26, <1>27, <1>28
  DEF Next, ReadStep, Continuation, Event

(* Only the turn of the prompt is taken for it. *)
LEMMA NamedStep ==
  ASSUME IInv, Named, Mine, Goals, Agreed, [Next]_vars
  PROVE  Named'
<1>1. UNCHANGED <<active, completer, cur, ends, heard, pc>> => Named'
  BY DEF Named
<1>2. CASE \E p \in Procs : Ignore(p) \/ Answered(p)
  BY <1>2, <1>1
  DEF Ignore, Answered, Read, turnVars, eventVars, seenVars
<1>3. ASSUME NEW p \in Procs, Output(p) PROVE Named'
  <2>1. p = proc /\ proc # None /\ First(p).to = "thread" /\ First(p).id \in Turns
        /\ 1 \in DOMAIN out[proc] /\ out[proc][1] = First(p)
    BY <1>3, Names, LineRead DEF Output, Reads, Meant, IInv, Typed
  <2>2. Runs(First(p).id)
    BY <2>1 DEF Runs, Says
  <2>3. First(p).id # cur => First(p).id = Goal /\ attach # "idle"
    BY <2>1, <2>2 DEF Mine, Goals, Turns
  <2>4. completer.is = "open" => attach = "idle" /\ pc \notin {"idle", "attach", "send"}
    BY DEF IInv, Turning, Attaching
  <2>5. UNCHANGED <<cur, pc, completer, ends>>
    BY <1>3 DEF Output, turnVars
  <2>6. CASE First(p).id = cur
    <3>1. \/ UNCHANGED <<active, heard>>
          \/ active' = cur /\ heard' = heard \cup {<<cur, cur>>} /\ pc \notin {"idle", "attach", "send"}
      BY <1>3, <2>1, <2>4, <2>6, Names DEF Output, Named
    <3>2. QED
      BY <2>5, <3>1 DEF Named
  <2>7. CASE First(p).id # cur
    <3>1. UNCHANGED <<active, heard>>
      BY <1>3, <2>1, <2>3, <2>4, <2>7, Names DEF Output, Named
    <3>2. QED
      BY <2>5, <3>1 DEF Named
  <2>8. QED
    BY <2>6, <2>7
<1>4. ASSUME NEW p \in Procs, Ended(p) PROVE Named'
  <2>1. p = proc /\ proc # None /\ First(p).to = "thread" /\ First(p).id \in Turns
        /\ 1 \in DOMAIN out[proc] /\ out[proc][1] = First(p)
    BY <1>4, Names, LineRead DEF Ended, Reads, Meant, IInv, Typed
  <2>2. Runs(First(p).id)
    BY <2>1 DEF Runs, Says
  <2>3. First(p).id # cur => First(p).id = Goal /\ attach # "idle"
    BY <2>1, <2>2 DEF Mine, Goals, Turns
  <2>4. completer.is = "open" => attach = "idle"
    BY DEF IInv, Turning, Attaching
  <2>5. completer'.id \in {completer.id, cur}
    BY <1>4, <2>3, <2>4 DEF Ended, TurnEnded, Closes
  <2>6. UNCHANGED <<cur, pc, active, heard, ends>>
    BY <1>4 DEF Ended, turnVars
  <2>7. QED
    BY <2>5, <2>6 DEF Named
<1>5. CASE Initialized \/ SendThread \/ ThreadGone \/ FoundOrphan \/ InterruptTaken
  BY <1>5, <1>1
  DEF Initialized, SendThread, ThreadGone, FoundOrphan, InterruptTaken, turnVars, eventVars,
      seenVars
<1>6. CASE ThreadReady
  BY <1>6
  DEF ThreadReady, AttachEnds, turnVars, eventVars, seenVars, Named
<1>7. CASE AttachFails
  BY <1>7
  DEF AttachFails, AttachEnds, turnVars, eventVars, seenVars, Named
<1>8. CASE Retarget
  <2>1. Told("interrupt", "mismatch")
    BY <1>8, Names DEF Retarget, Mismatched, Got, Told, IInv, Came, Waiters
  <2>2. QED
    BY <2>1 DEF Agreed
<1>9. CASE InterruptOver
  BY <1>9
  DEF InterruptOver, InterruptEnds, AttachEnds, turnVars, eventVars, seenVars, Named
<1>10. CASE InterruptFails
  BY <1>10
  DEF InterruptFails, InterruptEnds, AttachEnds, turnVars, eventVars, seenVars, Named
<1>11. CASE Take
  <2>1. active = None /\ completer.id = None
    BY <1>11 DEF Take, Named, IInv, Turning, Nothing
  <2>2. UNCHANGED <<active, completer, heard, ends>>
    BY <1>11 DEF Take
  <2>3. QED
    BY <2>1, <2>2 DEF Named
<1>12. CASE SendTurn
  BY <1>12
  DEF SendTurn, turnVars, eventVars, seenVars, Named
<1>13. CASE Started
  <2>1. active' = cur /\ pc' = "running" /\ UNCHANGED <<completer, cur, heard, ends>>
    BY <1>13 DEF Started, Got, IInv, Numbered, seenVars
  <2>2. QED
    BY <2>1 DEF Named
<1>14. CASE StartFails
  BY <1>14
  DEF StartFails, turnVars, eventVars, seenVars, Named
<1>15. CASE Settled
  BY <1>15
  DEF Settled, turnVars, eventVars, seenVars, Named
<1>16. CASE WarmedUp \/ SendControl \/ Controlled
  BY <1>16, <1>1
  DEF WarmedUp, SendControl, Controlled, turnVars, eventVars, seenVars
<1>17. CASE Close
  <2>1. active' = None /\ completer'.id = None /\ UNCHANGED <<cur, heard>>
    BY <1>17 DEF Close, End, Nothing
  <2>2. \A s \in Prompts : IF s = cur THEN ends'[s].by \in {completer.id, None} ELSE ends'[s] = ends[s]
    <3>1. PICK h \in {"completed", "interrupted", "user", "rollout", "error"}, b \in {completer.id, None} :
            ends' = [ends EXCEPT ![cur] = [how |-> h, by |-> b]]
      BY <1>17 DEF Close, End, IInv, Turning
    <3>2. cur \in Prompts /\ ends \in [Prompts -> Closing]
      BY <1>17 DEF Close, IInv, Lined, Typed, SeenTyped
    <3>3. QED
      BY <3>1, <3>2
  <2>3. \A s \in Prompts : ends'[s].by \in {s, None}
    BY <2>2 DEF Named, IInv, Typed, SeenTyped
  <2>4. QED
    BY <2>1, <2>3 DEF Named
<1>18. CASE Rebuild
  BY <1>18
  DEF Rebuild, turnVars, eventVars, seenVars, Named
<1>19. CASE Rebuilt
  <2>1. active' = None /\ completer'.id = None /\ UNCHANGED <<cur, heard>>
    BY <1>19 DEF Rebuilt, End, Nothing
  <2>2. \A s \in Prompts : IF s = cur THEN ends'[s].by \in {completer.id, None} ELSE ends'[s] = ends[s]
    <3>1. PICK h \in {"completed", "interrupted", "user", "rollout", "error"}, b \in {completer.id, None} :
            ends' = [ends EXCEPT ![cur] = [how |-> h, by |-> b]]
      BY <1>19 DEF Rebuilt, End, IInv, Turning
    <3>2. cur \in Prompts /\ ends \in [Prompts -> Closing]
      BY <1>19 DEF Rebuilt, IInv, Lined, Typed, SeenTyped
    <3>3. QED
      BY <3>1, <3>2
  <2>3. \A s \in Prompts : ends'[s].by \in {s, None}
    BY <2>2 DEF Named, IInv, Typed, SeenTyped
  <2>4. QED
    BY <2>1, <2>3 DEF Named
<1>20. CASE FailTurn
  <2>1. active' = None /\ completer'.id = None /\ UNCHANGED <<cur, heard>>
    BY <1>20 DEF FailTurn, End, Nothing
  <2>2. \A s \in Prompts : IF s = cur THEN ends'[s].by \in {completer.id, None} ELSE ends'[s] = ends[s]
    <3>1. PICK h \in {"completed", "interrupted", "user", "rollout", "error"}, b \in {completer.id, None} :
            ends' = [ends EXCEPT ![cur] = [how |-> h, by |-> b]]
      BY <1>20 DEF FailTurn, End, IInv, Turning
    <3>2. cur \in Prompts /\ ends \in [Prompts -> Closing]
      BY <1>20 DEF FailTurn, IInv, Lined, Typed, SeenTyped
    <3>3. QED
      BY <3>1, <3>2
  <2>3. \A s \in Prompts : ends'[s].by \in {s, None}
    BY <2>2 DEF Named, IInv, Typed, SeenTyped
  <2>4. QED
    BY <2>1, <2>3 DEF Named
<1>21. ASSUME NEW s \in Prompts, Submit(s) PROVE Named'
  <2>1. ends \in [Prompts -> Closing] /\ ends' = [ends EXCEPT ![s].how = "open"]
    BY <1>21 DEF Submit, IInv, Typed, SeenTyped
  <2>2. \A t \in Prompts : ends'[t] = IF t = s THEN [ends[s] EXCEPT !.how = "open"] ELSE ends[t]
    BY <2>1
  <2>3. ends[s] \in Closing
    BY <2>1
  <2>4. [ends[s] EXCEPT !.how = "open"].by = ends[s].by
    BY <2>3 DEF Closing
  <2>5. \A t \in Prompts : ends'[t].by = ends[t].by
    BY <2>2, <2>4
  <2>6. QED
    BY <1>21, <2>5 DEF Submit, eventVars, Named
<1>22. CASE \E w \in {"attach", "warm"} : Launch(w)
  BY <1>22, <1>1
  DEF Launch, turnVars, eventVars, seenVars
<1>23. ASSUME NEW w \in {"attach", "warm"}, LaunchFails(w) PROVE Named'
  BY <1>23
  DEF LaunchFails, AttachEnds, turnVars, eventVars, seenVars, Named
<1>24. CASE Warmup \/ Control \/ RolloutMissed \/ ItemsDone
  BY <1>24, <1>1
  DEF Warmup, Control, RolloutMissed, ItemsDone, turnVars, eventVars, seenVars
<1>25. CASE WarmTimeout
  <2>1. active' = None /\ completer'.id \in {None, completer.id} /\ UNCHANGED <<cur, heard>>
    BY <1>25 DEF WarmTimeout, ShutDown, LoseProcess, Failure
  <2>2. \A s \in Prompts : ends'[s].by \in {None, ends[s].by}
    BY <1>25 DEF WarmTimeout, ShutDown
  <2>3. QED
    BY <2>1, <2>2 DEF Named
<1>26. CASE Shutdown
  <2>1. active' = None /\ completer'.id \in {None, completer.id} /\ UNCHANGED <<cur, heard>>
    BY <1>26 DEF Shutdown, ShutDown, LoseProcess, Failure
  <2>2. \A s \in Prompts : ends'[s].by \in {None, ends[s].by}
    BY <1>26 DEF Shutdown, ShutDown
  <2>3. QED
    BY <2>1, <2>2 DEF Named
<1>27. CASE \E source \in {"user", "system"} : Stop(source)
  BY <1>27, <1>1
  DEF Stop, turnVars, eventVars, seenVars
<1>28. CASE \E p \in Procs : Speak(p) \/ Finish(p) \/ GoalTurn(p) \/ Die(p)
  BY <1>28, <1>1
  DEF Speak, Finish, GoalTurn, Die, turnVars, eventVars, seenVars
<1>29. ASSUME NEW p \in Procs, Closed(p) PROVE Named'
  <2>1. UNCHANGED <<cur, pc, heard, ends>>
    BY <1>29 DEF Closed, turnVars, seenVars
  <2>2. \/ UNCHANGED <<active, completer>>
        \/ active' = None /\ completer'.id \in {None, completer.id}
    BY <1>29 DEF Closed, LoseProcess, Failure, eventVars
  <2>3. QED
    BY <2>1, <2>2 DEF Named
<1>30. CASE UNCHANGED vars
  BY <1>30, <1>1
  DEF vars, turnVars, eventVars, seenVars
<1>31. QED
  BY <1>2, <1>3, <1>4, <1>5, <1>6, <1>7, <1>8, <1>9, <1>10, <1>11, <1>12, <1>13, <1>14, <1>15,
     <1>16, <1>17, <1>18, <1>19, <1>20, <1>21, <1>22, <1>23, <1>24, <1>25, <1>26, <1>27, <1>28,
     <1>29, <1>30
  DEF Next, ReadStep, Continuation, Event

(* A step of a process that stays, before a goal's turn begins. *)
Owned == Held /\ Lively /\ Named /\ Mine /\ Goals /\ EndsLast /\ Agreed
Goes  ==
  /\ IInv /\ Owned /\ proc \in Procs
  /\ [Next]_vars
  /\ UNCHANGED proc /\ ~ raced' /\ \A w \in {"attach", "warm"} : ~ Launch(w)

(* Nothing is heard of a turn when one is to be started, nor of a goal's when
   the thread is to be resumed; and no interrupt changes its target. *)
LEMMA Unheard ==
  ASSUME IInv, Mine, Goals, Agreed, proc \in Procs
  PROVE  /\ pc = "send" => \A t \in Turns : ~ Runs(t)
         /\ attach \in {"idle", "spawned"} => ~ Runs(Goal)
         /\ \A t \in Turns : run[proc] = t => Runs(t)
         /\ ~ Retarget
<1>1. pc = "send" => attach = "idle" /\ completer.is # "open"
  BY DEF IInv, Turning, Attaching, Nothing
<1>2. ~ Retarget
  BY Names DEF Retarget, Mismatched, Got, Agreed, Told
<1>3. QED
  BY <1>1, <1>2, Names DEF Mine, Goals, Runs, Turns

LEMMA GoesBy ==
  ASSUME Goes
  PROVE  \E S \in SUBSET Lines : MovesBy(S)
<1>1. waiting[proc] = <<>> /\ run[proc] \in Turns \cup {None}
  BY Names DEF Goes, Owned, Mine, IInv, Typed, CodexTyped
<1>2. SendTurn => run[proc] = None
  BY <1>1, Unheard DEF SendTurn, Goes, Owned
<1>3. Moves
  BY <1>1, <1>2, MovesStep DEF Goes
<1>4. QED
  BY <1>3 DEF Moves

(* A turn of which there is something to hear was there before, or begins. *)
LEMMA RunsStep ==
  ASSUME Goes, NEW S \in SUBSET Lines, MovesBy(S), NEW t \in Turns, Runs(t)'
  PROVE  \/ Runs(t)
         \/ SendTurn /\ t = cur /\ run'[proc] = t /\ \A l \in S : l.is = "ok"
         \/ SendThread /\ t = Goal /\ \A l \in S : l.is = "orphan"
<1>1. proc # None /\ proc' = proc /\ t # None
  BY Names DEF Goes
<1>2. CASE run'[proc] = t
  <2>1. run[proc] = t => Runs(t)
    BY <1>1 DEF Runs
  <2>2. QED
    BY <1>1, <1>2, <2>1 DEF MovesBy
<1>3. ASSUME NEW k \in DOMAIN out'[proc], Says(k, t)' PROVE Runs(t)
  <2>1. CASE \E j \in DOMAIN out[proc] : out'[proc][k] = out[proc][j]
    BY <1>1, <1>3, <2>1 DEF Says, Runs
  <2>2. CASE out'[proc][k] \in S
    BY <1>1, <1>3, <2>2 DEF Says, Runs, MovesBy
  <2>3. QED
    BY <2>1, <2>2 DEF MovesBy, Moved
<1>4. QED
  BY <1>1, <1>2, <1>3 DEF Runs

(* The end of a turn stays the last that is heard of it. *)
LEMMA EndsLastStep ==
  ASSUME Goes
  PROVE  EndsLast'
<1>1. PICK S \in SUBSET Lines : MovesBy(S)
  BY GoesBy
<1>2. ASSUME NEW t \in Turns, NEW k \in DOMAIN out'[proc], Over(k, t)' PROVE Past(k, t)'
  <2>1. proc # None /\ proc' = proc /\ t # None
    BY Names DEF Goes
  <2>2. ASSUME NEW j \in DOMAIN out[proc], out'[proc][k] = out[proc][j],
               Past(j, t) /\ run'[proc] # t /\ (\A l \in S : ~ About(l, t)) => Past(k, t)'
        PROVE  Past(k, t)'
    <3>1. Over(j, t)
      BY <1>2, <2>1, <2>2 DEF Over, Says
    <3>2. Past(j, t) /\ Runs(t)
      BY <2>1, <3>1 DEF Goes, Owned, EndsLast, Runs, Over
    <3>3. run'[proc] # t
      <4>1. ~ SendTurn /\ (t = Goal => ~ SendThread)
        BY <3>2, Unheard DEF Goes, Owned, SendTurn, SendThread
      <4>2. QED
        BY <1>1, <2>1, <3>2, <4>1 DEF Past, MovesBy
    <3>4. \A l \in S : ~ About(l, t)
      BY <1>1, <3>2 DEF About, Past, MovesBy
    <3>5. QED
      BY <2>2, <3>2, <3>3, <3>4
  <2>3. ASSUME out'[proc][k] \in S,
               run'[proc] # t /\ (\A l \in S : l # out'[proc][k] => ~ About(l, t)) => Past(k, t)'
        PROVE  Past(k, t)'
    <3>1. out'[proc][k].to = "thread" /\ out'[proc][k].is # "output"
      BY <1>2, <2>1 DEF Over, Says
    <3>2. run'[proc] # t
      BY <1>1, <2>1, <2>3, <3>1 DEF MovesBy
    <3>3. \A l \in S : l # out'[proc][k] => ~ About(l, t)
      BY <1>1, <2>3, <3>1 DEF MovesBy, About
    <3>4. QED
      BY <2>3, <3>2, <3>3
  <2>4. QED
    BY <1>1, <2>2, <2>3 DEF MovesBy, Moved
<1>3. proc' = proc
  BY DEF Goes
<1>4. QED
  BY <1>2, <1>3 DEF EndsLast

(* An interrupt asks for the turn that runs, if one does. *)
LEMMA AgreedStep ==
  ASSUME Goes
  PROVE  Agreed'
<1>1. PICK S \in SUBSET Lines : MovesBy(S)
  BY GoesBy
<1>2. ASSUME NEW l \in S, l.to = "interrupt", l.is = "mismatch" PROVE FALSE
  <2>1. /\ run[proc] # None
        /\ Retarget \/ (FoundOrphan /\ run[proc] # Goal) \/ (active # None /\ run[proc] # active)
    BY <1>1, <1>2 DEF MovesBy, Wrote
  <2>2. ~ Retarget /\ run[proc] \in Turns /\ Runs(run[proc])
    BY <2>1, Unheard DEF Goes, Owned, IInv, Typed, CodexTyped
  <2>3. run[proc] = Goal => attach \in {"resume", "orphan"}
    BY <2>2 DEF Goes, Owned, Goals
  <2>4. run[proc] # Goal => run[proc] = cur /\ attach = "idle"
    BY <2>2 DEF Goes, Owned, Mine, Turns, IInv, Turning, Attaching
  <2>5. CASE FoundOrphan /\ run[proc] # Goal
    BY <2>4, <2>5 DEF FoundOrphan
  <2>6. CASE active # None /\ run[proc] # active
    <3>1. active = cur /\ attach # "resume"
      BY <2>6 DEF Goes, Owned, Named, Held
    <3>2. run[proc] = Goal /\ attach = "orphan"
      BY <2>3, <2>4, <2>6, <3>1
    <3>3. run[proc] # Goal
      BY <2>2, <3>2 DEF Goes, Owned, Goals
    <3>4. QED
      BY <3>2, <3>3
  <2>7. QED
    BY <2>1, <2>2, <2>5, <2>6
<1>3. ~ Told("interrupt", "mismatch")
  BY DEF Goes, Owned, Agreed
<1>4. "interrupt" \in Waiters /\ Moved(S)
  BY <1>1 DEF Waiters, MovesBy
<1>5. QED
  BY <1>2, <1>3, <1>4, ToldStep DEF Goes, Agreed, IInv

(* Only the prompt's own turn runs, while its end is awaited. *)
LEMMA MineStep ==
  ASSUME Goes
  PROVE  Mine'
<1>1. PICK S \in SUBSET Lines : MovesBy(S)
  BY GoesBy
<1>2. proc # None /\ proc' = proc /\ proc \in Procs /\ "turn" \in Waiters
  BY Names DEF Goes, Waiters
<1>3. ASSUME NEW t \in Prompts, Runs(t), Runs(t)'
      PROVE  t = cur' /\ completer'.is = "open" /\ pc' # "fail" /\ ~ Told("turn", "refused")'
  <2>1. t \in Turns /\ t = cur /\ completer.is = "open" /\ pc # "fail" /\ ~ Told("turn", "refused")
    BY <1>3, Names DEF Goes, Owned, Mine
  <2>2. answer["turn"].is # "refused" /\ ~ Retarget
    BY <1>2, <2>1, Unheard DEF Told, Goes, Owned
  <2>3. Awaited
    BY <2>1, <2>2, AwaitedStep DEF Goes
  <2>4. ASSUME Ended(proc), active \in {None, First(proc).id} PROVE completer'.is = "open"
    <3>1. PICK u \in Turns : /\ Read(proc) /\ u = First(proc).id
                             /\ 1 \in DOMAIN out[proc] /\ Over(1, u)
      BY <2>4, <1>2, LineRead DEF Ended, Meant, Over, Says, Goes, IInv, Typed
    <3>2. Runs(u)
      BY <1>2, <3>1 DEF Over, Runs
    <3>3. u # t
      <4>1. Past(1, u)
        BY <1>2, <3>1 DEF Goes, Owned, EndsLast
      <4>2. ~ Runs(u)'
        BY <1>2, <3>1, <4>1, ReadLast DEF Goes, IInv
      <4>3. QED
        BY <1>3, <4>2
    <3>4. u = Goal
      BY <2>1, <3>1, <3>2, <3>3 DEF Goes, Owned, Mine, Turns
    <3>5. attach # "idle"
      BY <3>2, <3>4 DEF Goes, Owned, Goals
    <3>6. QED
      BY <2>1, <3>5 DEF Goes, IInv, Turning, Attaching
  <2>5. ~ Told("turn", "refused")'
    <3>1. ASSUME NEW l \in S, l.to = "turn", l.is = "refused" PROVE FALSE
      <4>1. SendTurn \/ Rebuild
        BY <1>1, <3>1 DEF MovesBy, Wrote
      <4>2. QED
        BY <2>1, <4>1 DEF SendTurn, Rebuild, Goes, IInv, Turning
    <3>2. Moved(S)
      BY <1>1 DEF MovesBy
    <3>3. QED
      BY <1>2, <2>1, <3>1, <3>2, ToldStep DEF Goes, IInv
  <2>6. QED
    BY <2>1, <2>3, <2>4, <2>5 DEF Awaited
<1>4. ASSUME NEW t \in Prompts, SendTurn, t = cur, \A l \in S : l.is = "ok"
      PROVE  t = cur' /\ completer'.is = "open" /\ pc' # "fail" /\ ~ Told("turn", "refused")'
  <2>1. cur' = cur /\ pc' = "starting" /\ completer'.is = "open"
    BY <1>4 DEF SendTurn
  <2>2. answer["turn"] = Nothing
    BY <1>4 DEF SendTurn, Goes, IInv, Turning
  <2>3. \A j \in DOMAIN out[proc] : out[proc][j].to # "turn"
    BY <1>2, <2>2 DEF Goes, IInv, Asked, Nothing
  <2>4. \A l \in S : ~ (l.to = "turn" /\ l.is = "refused")
    BY <1>4
  <2>5. ~ Told("turn", "refused")
    BY <2>2, <2>3 DEF Told, Nothing
  <2>6. Moved(S)
    BY <1>1 DEF MovesBy
  <2>7. ~ Told("turn", "refused")'
    BY <1>2, <2>4, <2>5, <2>6, ToldStep DEF Goes, IInv
  <2>8. QED
    BY <1>4, <2>1, <2>7
<1>5. ASSUME NEW t \in Prompts, Runs(t)'
      PROVE  t = cur' /\ completer'.is = "open" /\ pc' # "fail" /\ ~ Told("turn", "refused")'
  <2>1. \/ Runs(t)
        \/ SendTurn /\ t = cur /\ \A l \in S : l.is = "ok"
    BY <1>1, <1>5, RunsStep, Names
  <2>2. QED
    BY <1>3, <1>4, <1>5, <2>1
<1>6. waiting'[proc'] = <<>>
  BY <1>1, <1>2 DEF MovesBy
<1>7. QED
  BY <1>5, <1>6 DEF Mine

(* A goal's turn is found by the attach that resumed its thread: *)
LEMMA GoalFound ==
  ASSUME Goes, FoundOrphan
  PROVE  /\ run'[proc] # Goal /\ ~ interrupting'.over /\ interrupting'.target = Goal
         /\ answer'["interrupt"].is = "sent"
         /\ \A j \in DOMAIN out[proc] : out[proc][j].to # "interrupt"
<1>1. attach = "resume" /\ interrupting.target = None /\ interrupting = NoInterrupt
  BY DEF FoundOrphan, Goes, Owned, Held, IInv, Interrupting
<1>2. answer["attach"].id = Goal
  BY DEF FoundOrphan, Got, Goes, IInv, Typed, AnswersTyped
<1>3. /\ interrupting' = [NoInterrupt EXCEPT !.target = Goal, !.mode = "orphan"]
      /\ AskInterrupt(Goal, [answer EXCEPT !["attach"] = Nothing])
  BY <1>1, <1>2 DEF FoundOrphan, Interrupt
<1>4. ~ interrupting'.over /\ interrupting'.target = Goal
  BY <1>3 DEF NoInterrupt
<1>5. answer'["interrupt"].is = "sent"
  BY <1>3 DEF AskInterrupt, Goes, IInv, Typed, AnswersTyped, Waiters
<1>6. run'[proc] # Goal
  <2>1. CASE ~ Served
    <3>1. UNCHANGED run
      BY <1>3, <2>1 DEF AskInterrupt
    <3>2. run[proc] = None
      BY <2>1, Names DEF Served, Goes, Owned, Lively
    <3>3. QED
      BY <3>1, <3>2, Names
  <2>2. CASE Served /\ run[proc] = Goal
    <3>1. TurnOver(proc)
      BY <1>3, <2>2 DEF AskInterrupt
    <3>2. waiting[proc] = <<>>
      BY Names DEF Goes, Owned, Mine
    <3>3. run'[proc] = None
      BY <3>1, <3>2 DEF TurnOver, Goes, IInv, Typed, CodexTyped
    <3>4. QED
      BY <3>3, Names
  <2>3. CASE Served /\ run[proc] # Goal
    BY <1>3, <2>3 DEF AskInterrupt
  <2>4. QED
    BY <2>1, <2>2, <2>3
<1>7. answer["interrupt"].is = "none"
  BY <1>1 DEF Goes, IInv, Interrupting
<1>8. \A j \in DOMAIN out[proc] : out[proc][j].to # "interrupt"
  BY <1>7, Names DEF Goes, IInv, Asked
<1>9. QED
  BY <1>4, <1>5, <1>6, <1>8

(* while it is heard of, the attach goes on; *)
LEMMA GoalHeard ==
  ASSUME Goes, NEW S \in SUBSET Lines, MovesBy(S), Runs(Goal), Runs(Goal)'
  PROVE  \/ attach' = "resume" /\ \A is \in {"ok", "gone", "refused"} : ~ Told("attach", is)'
         \/ /\ attach' = "orphan" /\ run'[proc] # Goal
            /\ ~ interrupting'.over /\ answer'["interrupt"].is # "refused"
<1>1. proc # None /\ proc' = proc /\ "attach" \in Waiters /\ "interrupt" \in Waiters /\ Goal \in Turns
  BY Names DEF Goes, Waiters
<1>2. Resuming /\ ~ Retarget
  BY ResumingStep, Unheard DEF Goes, Owned
<1>3. CASE attach = "resume" /\ \A is \in {"ok", "gone", "refused"} : ~ Told("attach", is)
  <2>1. CASE FoundOrphan
    BY <1>1, <2>1, GoalFound DEF FoundOrphan
  <2>2. CASE ~ FoundOrphan
    <3>1. attach' = "resume"
      BY <1>1, <1>2, <1>3, <2>2 DEF Resuming, Told
    <3>2. ASSUME NEW is \in {"ok", "gone", "refused"} PROVE ~ Told("attach", is)'
      <4>1. \A l \in S : l.to # "attach"
        BY <1>3 DEF MovesBy, Wrote, SendThread
      <4>2. Moved(S)
        BY DEF MovesBy
      <4>3. QED
        BY <1>1, <1>3, <4>1, <4>2, ToldStep DEF Goes, IInv
    <3>3. QED
      BY <3>1, <3>2
  <2>3. QED
    BY <2>1, <2>2
<1>4. CASE /\ attach = "orphan" /\ run[proc] # Goal
           /\ ~ interrupting.over /\ answer["interrupt"].is # "refused"
  <2>1. attach' = "orphan"
    BY <1>1, <1>2, <1>4 DEF Resuming, Goes, Owned, Agreed, Told
  <2>2. run'[proc] # Goal
    BY <1>4, Names DEF MovesBy, SendTurn, SendThread, Goes, IInv, Lined
  <2>3. ASSUME NEW j \in {1}, j \in DOMAIN out[proc], Read(proc), Past(j, Goal) PROVE FALSE
    BY <1>1, <2>3, ReadLast DEF Goes, IInv
  <2>4. ~ interrupting'.over
    <3>1. ASSUME Ended(proc), First(proc).id = interrupting.target PROVE FALSE
      <4>1. /\ Read(proc) /\ 1 \in DOMAIN out[proc] /\ First(proc) = out[proc][1]
            /\ First(proc).id \in Turns
        BY <3>1, <1>1, LineRead DEF Ended, Meant, Goes, IInv, Typed
      <4>2. First(proc).id = Goal
        BY <1>4, <3>1, <4>1, Names DEF Goes, Owned, Goals
      <4>3. Over(1, Goal)
        BY <3>1, <4>1, <4>2 DEF Ended, Over, Says
      <4>4. QED
        BY <1>1, <2>3, <4>1, <4>3 DEF Goes, Owned, EndsLast
    <3>2. Stopping
      BY <1>2, StoppingStep DEF Goes
    <3>3. QED
      BY <1>4, <2>1, <3>1, <3>2 DEF Stopping
  <2>5. answer'["interrupt"].is # "refused"
    <3>1. Answers("interrupt")
      BY <1>1, AnswerStep DEF Goes, IInv
    <3>2. ASSUME Answered(proc), 1 \in DOMAIN out[proc], out[proc][1].to = "interrupt",
                 out[proc][1].is = "refused"
          PROVE  FALSE
      <4>1. Past(1, Goal)
        BY <1>1, <1>4, <3>2 DEF Goes, Owned, Goals
      <4>2. QED
        BY <2>3, <3>2, <4>1 DEF Answered
    <3>3. QED
      BY <1>4, <3>1, <3>2 DEF Answers
  <2>6. QED
    BY <2>1, <2>2, <2>4, <2>5
<1>5. QED
  BY <1>3, <1>4 DEF Goes, Owned, Goals

(* a refused interrupt was of a turn that is over, *)
LEMMA GoalRefused ==
  ASSUME Goes, attach' = "orphan", NEW k \in DOMAIN out'[proc],
         out'[proc][k].to = "interrupt", out'[proc][k].is = "refused"
  PROVE  Past(k, Goal)'
<1>1. PICK S \in SUBSET Lines : MovesBy(S)
  BY GoesBy
<1>2. proc # None /\ proc' = proc /\ Goal \in Turns
  BY Names DEF Goes
<1>3. attach = "orphan" \/ FoundOrphan
  BY ResumingStep DEF Resuming, Goes
<1>4. CASE \E j \in DOMAIN out[proc] :
             /\ out'[proc][k] = out[proc][j]
             /\ Past(j, Goal) /\ run'[proc] # Goal /\ (\A l \in S : ~ About(l, Goal)) => Past(k, Goal)'
  <2>1. PICK j \in DOMAIN out[proc] :
             /\ out'[proc][k] = out[proc][j]
             /\ Past(j, Goal) /\ run'[proc] # Goal /\ (\A l \in S : ~ About(l, Goal)) => Past(k, Goal)'
    BY <1>4
  <2>2. attach = "orphan"
    BY <1>3, <2>1, GoalFound
  <2>3. Past(j, Goal)
    BY <1>2, <2>1, <2>2 DEF Goes, Owned, Goals
  <2>4. run'[proc] # Goal
    BY <1>1, <2>2, <2>3, Names DEF MovesBy, Past, SendTurn, SendThread, Goes, IInv, Lined
  <2>5. \A l \in S : ~ About(l, Goal)
    BY <1>1, <2>3 DEF About, Past, MovesBy
  <2>6. QED
    BY <2>1, <2>3, <2>4, <2>5
<1>5. CASE /\ out'[proc][k] \in S
           /\ run'[proc] # Goal /\ (\A l \in S : l # out'[proc][k] => ~ About(l, Goal)) => Past(k, Goal)'
  <2>1. run[proc] = None /\ run'[proc] = None
    BY <1>1, <1>5 DEF MovesBy, Wrote
  <2>2. \A l \in S : ~ About(l, Goal)
    BY <1>1, <2>1, Names DEF About, MovesBy
  <2>3. QED
    BY <1>5, <2>1, <2>2, Names
<1>6. QED
  BY <1>1, <1>2, <1>4, <1>5 DEF MovesBy, Moved

(* and it is the one to interrupt. *)
LEMMA GoalsStep ==
  ASSUME Goes
  PROVE  Goals'
<1>1. PICK S \in SUBSET Lines : MovesBy(S)
  BY GoesBy
<1>2. proc # None /\ proc' = proc /\ "attach" \in Waiters /\ Goal \in Turns
  BY Names DEF Goes, Waiters
<1>3. ASSUME Runs(Goal)'
      PROVE  \/ attach' = "resume" /\ \A is \in {"ok", "gone", "refused"} : ~ Told("attach", is)'
             \/ /\ attach' = "orphan" /\ run'[proc] # Goal
                /\ ~ interrupting'.over /\ answer'["interrupt"].is # "refused"
  <2>1. ASSUME SendThread, \A l \in S : l.is = "orphan", ~ Runs(Goal)
        PROVE  attach' = "resume" /\ \A is \in {"ok", "gone", "refused"} : ~ Told("attach", is)'
    <3>1. attach = "spawned" /\ answer["attach"] = Nothing
      BY <2>1 DEF SendThread, Goes, IInv, Attaching
    <3>2. attach' = "resume"
      <4>1. ASSUME StartThread("attach") PROVE FALSE
        <5>1. UNCHANGED run
          BY <4>1, StartThreadSays DEF Goes, IInv
        <5>2. run[proc] # Goal
          BY <1>2, <2>1 DEF Runs
        <5>3. PICK j \in DOMAIN out'[proc] : Says(j, Goal)'
          BY <1>2, <1>3, <5>1, <5>2 DEF Runs
        <5>4. out'[proc][j] \notin S
          BY <1>1, <5>2, <5>3, <1>2 DEF Says, MovesBy
        <5>5. \E i \in DOMAIN out[proc] : out'[proc][j] = out[proc][i]
          BY <1>1, <5>4 DEF MovesBy, Moved
        <5>6. QED
          BY <1>2, <2>1, <5>3, <5>5 DEF Runs, Says
      <4>2. QED
        BY <2>1, <4>1 DEF SendThread
    <3>3. ASSUME NEW is \in {"ok", "gone", "refused"} PROVE ~ Told("attach", is)'
      <4>1. ~ Told("attach", is)
        BY <1>2, <3>1 DEF Told, Nothing, Goes, IInv, Asked
      <4>2. \A l \in S : l.is # is
        BY <2>1
      <4>3. Moved(S)
        BY <1>1 DEF MovesBy
      <4>4. QED
        BY <1>2, <4>1, <4>2, <4>3, ToldStep DEF Goes, IInv
    <3>4. QED
      BY <3>2, <3>3
  <2>2. Runs(Goal) \/ (SendThread /\ \A l \in S : l.is = "orphan")
    <3>1. ~ (SendTurn /\ Goal = cur)
      BY Names DEF SendTurn, Goes, IInv, Lined
    <3>2. QED
      BY <1>1, <1>2, <1>3, <3>1, RunsStep
  <2>3. QED
    BY <1>1, <1>3, <2>1, <2>2, GoalHeard
<1>4. ASSUME attach' = "orphan", interrupting'.target # None PROVE interrupting'.target = Goal
  <2>1. attach = "orphan" \/ FoundOrphan
    BY <1>4, ResumingStep DEF Resuming, Goes
  <2>2. ~ Retarget
    BY Unheard DEF Goes, Owned
  <2>3. CASE attach = "orphan"
    BY <1>4, <2>2, <2>3, StoppingStep DEF Stopping, Goes, Owned, Goals
  <2>4. QED
    BY <2>1, <2>3, GoalFound
<1>5. attach' = "orphan" =>
        \A k \in DOMAIN out'[proc] :
          out'[proc][k].to = "interrupt" /\ out'[proc][k].is = "refused" => Past(k, Goal)'
  BY GoalRefused
<1>6. QED
  BY <1>2, <1>3, <1>4, <1>5 DEF Goals

(* That a goal began a turn in an attached thread is never forgotten. *)
LEMMA RacedKept ==
  ASSUME IInv, raced, [Next]_vars
  PROVE  raced'
<1>1. CASE \E p \in Procs : Ignore(p) \/ Answered(p) \/ Output(p) \/ Ended(p)
  BY <1>1
  DEF Ignore, Answered, Output, Ended, Read, seenVars
<1>2. CASE Initialized \/ ThreadReady \/ ThreadGone \/ AttachFails \/ InterruptTaken
  BY <1>2
  DEF Initialized, ThreadReady, ThreadGone, AttachFails, InterruptTaken, seenVars
<1>3. CASE SendThread
  BY <1>3, StartThreadSays, ResumeSays
  DEF SendThread, IInv, seenVars
<1>4. CASE FoundOrphan
  BY <1>4
  DEF FoundOrphan, Interrupt, AskInterrupt, seenVars
<1>5. CASE Retarget
  BY <1>5
  DEF Retarget, AskInterrupt, seenVars
<1>6. CASE InterruptOver \/ InterruptFails \/ Take \/ Started \/ StartFails \/ Settled
  BY <1>6
  DEF InterruptOver, InterruptFails, Take, Started, StartFails, Settled, InterruptEnds, seenVars
<1>7. CASE SendTurn
  BY <1>7
  DEF SendTurn, StartTurn, Unserved, Refuse, seenVars
<1>8. CASE Close \/ Rebuilt \/ FailTurn \/ WarmedUp \/ SendControl \/ Controlled
  BY <1>8
  DEF Close, Rebuilt, FailTurn, WarmedUp, SendControl, Controlled, seenVars
<1>9. CASE Rebuild
  BY <1>9, StartThreadSays
  DEF Rebuild, IInv, seenVars
<1>10. CASE \E s \in Prompts : Submit(s)
  BY <1>10
  DEF Submit, seenVars
<1>11. CASE \E w \in {"attach", "warm"} : Launch(w) \/ LaunchFails(w)
  BY <1>11
  DEF Launch, LaunchFails, seenVars
<1>12. CASE Warmup \/ WarmTimeout \/ Control \/ Shutdown \/ ItemsDone
  BY <1>12
  DEF Warmup, WarmTimeout, Control, Shutdown, ItemsDone, ShutDown, LoseProcess, seenVars
<1>13. CASE RolloutMissed
  BY <1>13
  DEF RolloutMissed, Interrupt, AskInterrupt, seenVars
<1>14. ASSUME NEW source \in {"user", "system"}, Stop(source) PROVE raced'
  BY <1>14
  DEF Stop, Interrupt, AskInterrupt, seenVars
<1>15. CASE \E p \in Procs : Speak(p) \/ Finish(p) \/ Die(p) \/ Closed(p)
  BY <1>15
  DEF Speak, Finish, Die, Closed, seenVars
<1>16. ASSUME NEW p \in Procs, GoalTurn(p) PROVE raced'
  BY <1>16
  DEF GoalTurn, seenVars
<1>17. CASE UNCHANGED vars
  BY <1>17
  DEF vars, seenVars
<1>18. QED
  BY <1>1, <1>2, <1>3, <1>4, <1>5, <1>6, <1>7, <1>8, <1>9, <1>10, <1>11, <1>12, <1>13, <1>14,
     <1>15, <1>16, <1>17
  DEF Next, ReadStep, Continuation, Event

(* A process that is launched has only its first answer to say. *)
LEMMA OwnLaunched ==
  ASSUME IInv, Goals, NEW w \in {"attach", "warm"}, Launch(w)
  PROVE  Mine' /\ Goals' /\ EndsLast' /\ Agreed'
<1>1. /\ proc' \in Procs /\ proc' # None
      /\ run'[proc'] = None /\ waiting'[proc'] = <<>>
      /\ DOMAIN out'[proc'] = {1} /\ out'[proc'][1] = Line(w, "ok", None)
      /\ answer' = [answer EXCEPT ![w] = [is |-> "sent", id |-> proc']]
  BY Launched, Names DEF IInv, Typed, CodexTyped
<1>2. out'[proc'][1].to = w /\ out'[proc'][1].is = "ok"
  BY <1>1 DEF Line
<1>3. \A t \in Turns : ~ Runs(t)'
  BY <1>1, <1>2, Names DEF Runs, Says
<1>4. UNCHANGED interrupting /\ attach' \in {"init", attach}
  BY DEF Launch, eventVars
<1>5. answer'["interrupt"].is # "mismatch"
  <2>1. answer["interrupt"].is # "mismatch"
    BY DEF Launch, Quiet, Ready, Waiters
  <2>2. QED
    BY <1>1, <2>1 DEF IInv, Typed, AnswersTyped, Waiters
<1>6. Goals'
  BY <1>1, <1>2, <1>3, <1>4, Names DEF Goals
<1>7. Mine' /\ EndsLast' /\ Agreed'
  BY <1>1, <1>2, <1>3, <1>5, Names DEF Mine, EndsLast, Over, Says, Agreed, Told
<1>8. QED
  BY <1>6, <1>7

(* Without a process nothing is heard of a turn. *)
LEMMA OwnLost ==
  ASSUME IInv', proc' = None
  PROVE  Mine' /\ Goals' /\ EndsLast' /\ Agreed'
<1>1. interrupting'.target = None
  BY DEF IInv, Interrupting
<1>2. QED
  BY <1>1 DEF Mine, Goals, Runs, EndsLast, Agreed, Told

(* The process is launched, lost or kept. *)
LEMMA ProcStep ==
  ASSUME IInv, [Next]_vars
  PROVE  proc' \in {None, proc} \/ \E w \in {"attach", "warm"} : Launch(w)
<1>1. CASE \E p \in Procs : Ignore(p) \/ Answered(p) \/ Output(p) \/ Ended(p)
  BY <1>1
  DEF Ignore, Answered, Output, Ended, Read
<1>2. CASE \/ Initialized \/ SendThread \/ ThreadReady \/ ThreadGone \/ AttachFails
           \/ FoundOrphan \/ InterruptTaken \/ Retarget
  BY <1>2
  DEF Initialized, SendThread, ThreadReady, ThreadGone, AttachFails, FoundOrphan, InterruptTaken,
      Retarget
<1>3. CASE \/ InterruptOver \/ InterruptFails \/ Take \/ SendTurn \/ Started \/ StartFails
           \/ Settled
  BY <1>3
  DEF InterruptOver, InterruptFails, Take, SendTurn, Started, StartFails, Settled, InterruptEnds
<1>4. CASE Close \/ Rebuild \/ Rebuilt \/ FailTurn \/ WarmedUp \/ SendControl \/ Controlled
  BY <1>4
  DEF Close, Rebuild, Rebuilt, FailTurn, WarmedUp, SendControl, Controlled
<1>5. CASE \E s \in Prompts : Submit(s)
  BY <1>5
  DEF Submit
<1>6. CASE \E v \in {"attach", "warm"} : LaunchFails(v)
  BY <1>6
  DEF LaunchFails
<1>7. ASSUME NEW v \in {"attach", "warm"}, Launch(v) PROVE proc' \in {None, proc} \/ \E w \in {"attach", "warm"} : Launch(w)
  BY <1>7
<1>8. CASE Warmup \/ Control \/ RolloutMissed \/ ItemsDone
  BY <1>8
  DEF Warmup, Control, RolloutMissed, ItemsDone
<1>9. CASE WarmTimeout
  BY <1>9
  DEF WarmTimeout, ShutDown, LoseProcess
<1>10. CASE Shutdown
  BY <1>10
  DEF Shutdown, ShutDown, LoseProcess
<1>11. CASE \E source \in {"user", "system"} : Stop(source)
  BY <1>11
  DEF Stop
<1>12. CASE \E p \in Procs : Speak(p) \/ Finish(p) \/ GoalTurn(p) \/ Die(p)
  BY <1>12
  DEF Speak, Finish, GoalTurn, Die
<1>13. ASSUME NEW p \in Procs, Closed(p) PROVE proc' \in {None, proc} \/ \E w \in {"attach", "warm"} : Launch(w)
  BY <1>13
  DEF Closed, LoseProcess
<1>14. CASE UNCHANGED vars
  BY <1>14
  DEF vars
<1>15. QED
  BY <1>1, <1>2, <1>3, <1>4, <1>5, <1>6, <1>7, <1>8, <1>9, <1>10, <1>11, <1>12, <1>13, <1>14
  DEF Next, ReadStep, Continuation, Event

(* The second invariant. *)
OwnInv == Held /\ Lively /\ Own

LEMMA OwnInit == Init => OwnInv
<1> SUFFICES ASSUME Init PROVE OwnInv
  OBVIOUS
<1> USE DEF Init
<1>1. Held /\ Lively
  BY DEF Held, Lively, NoInterrupt
<1>2. Named
  BY DEF Named, Nothing
<1>3. Mine /\ Goals /\ EndsLast /\ Agreed
  BY DEF Mine, Goals, Runs, EndsLast, Agreed, Told
<1>4. QED
  BY <1>1, <1>2, <1>3 DEF OwnInv, Own

LEMMA OwnStep ==
  ASSUME IInv, IInv', OwnInv, [Next]_vars
  PROVE  OwnInv'
<1>1. Held' /\ Lively'
  BY HeldStep, LivelyStep DEF OwnInv
<1>2. ASSUME ~ raced' PROVE Named' /\ Mine' /\ Goals' /\ EndsLast' /\ Agreed'
  <2>1. Owned
    BY <1>2, RacedKept DEF OwnInv, Own, Owned
  <2>2. Named'
    BY <2>1, NamedStep DEF Owned
  <2>3. CASE \E w \in {"attach", "warm"} : Launch(w)
    BY <2>1, <2>2, <2>3, OwnLaunched DEF Owned
  <2>4. CASE proc' = None
    BY <2>2, <2>4, OwnLost
  <2>5. CASE proc' = proc /\ proc # None /\ ~ \E w \in {"attach", "warm"} : Launch(w)
    <3>1. proc \in Procs
      BY <2>5 DEF IInv, Typed, NamesTyped
    <3>2. Goes
      BY <1>2, <2>1, <2>5, <3>1 DEF Goes
    <3>3. QED
      BY <2>2, <3>2, MineStep, GoalsStep, EndsLastStep, AgreedStep
  <2>6. QED
    BY <2>3, <2>4, <2>5, ProcStep
<1>3. QED
  BY <1>1, <1>2 DEF OwnInv, Own

THEOREM OwnInvariance == Spec => []OwnInv
<1>1. IInv /\ IInv' /\ OwnInv /\ [Next]_vars => OwnInv'
  BY OwnStep
<1>2. QED
  BY RunnerInvariance, OwnInit, <1>1, PTL DEF Spec

(* What is passed on while a prompt is current is the output of its own turn,   *)
(* and its own turn is what closes it (currentTurnCompleter): not a turn that   *)
(* was given up, one of a process that is gone, or the one that thread/resume   *)
(* found going on; but for a goal's turn that begins between two turns.         *)
THEOREM PromptsHaveTheirOwnTurn == Spec => []OwnTurn
<1>1. OwnInv => OwnTurn
  BY DEF OwnInv, Own, Named, OwnTurn
<1>2. QED
  BY OwnInvariance, <1>1, PTL

================================================================================
