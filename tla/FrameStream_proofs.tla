---------------------------- MODULE FrameStream_proofs ----------------------------
(* What the run of FrameStream shows for two tabs and a ring of one entry, for *)
(* any number of tabs, frames, turns, hellos, failed appends, restarts and    *)
(* resets, and a ring of any size.                                            *)
EXTENDS FrameStream, FiniteSetTheorems, SequenceTheorems, WellFoundedInduction, TLAPS

--------------------------------------------------------------------------------
(* The inductive invariant. *)

Seqs == 1..MaxFrames
Ids == DOMAIN made

(* Deliveries are in the order in which the frames were made, and none of them
   has a number yet; so there are never more numbers than frames. *)
Chained ==
  /\ \A k \in DOMAIN chain : chain[k] # Commit => lastSeq < chain[k].id
  /\ \A j, k \in DOMAIN chain :
       j < k /\ chain[j] # Commit /\ chain[k] # Commit => chain[j].id < chain[k].id
  /\ lastSeq <= Len(made)

(* A turn was started for a message that was committed, and sent before. *)
Commits == {k \in DOMAIN chain : chain[k] = Commit}
Paid ==
  /\ started + waiting + Cardinality(Commits) <= turns
  /\ turn <= started

(* Wherever a frame is, it is one that was made, and its number is one of those
   given out. *)
Of(f) == f \in Frame /\ f.seq \in Seqs /\ f.id \in Ids
Known ==
  /\ sending # None => /\ Of(sending.frame) /\ sending.taped \in BOOLEAN
                       /\ sending \in [frame : Frame, taped : BOOLEAN]
  /\ \A k \in DOMAIN ring : Of(ring[k])
  /\ \A f \in numbered : Of(f)
  /\ \A t \in Tabs : \A k \in DOMAIN wire[t] :
       \/ \E f \in Frame : Of(f) /\ wire[t][k] = Shown(f)
       \/ \E n \in 0..MaxFrames : wire[t][k] = Failed(n)
  /\ \A t \in Tabs : \A k \in DOMAIN applied[t] : applied[t][k] \in Ids

CountsTyped ==
  /\ session \in BOOLEAN /\ poisoned \in BOOLEAN
  /\ \A n \in {waiting, turn, started, era, turns, resets} : n \in Nat
  /\ turns <= MaxTurns
LineTyped ==
  /\ made \in Seq(Nat) /\ Len(made) <= MaxFrames
  /\ chain \in Seq({Commit} \cup {Deliver(i) : i \in Ids})
  /\ lastSeq \in Nat
  /\ tape \in Seq(Ids)
  /\ applied \in [Tabs -> Seq(Ids)]
RingTyped == ring \in Seq(Frame) /\ Len(ring) <= MaxEntries
Message == [kind : {"frame", "resume_failed"}, seq : Nat, id : Nat]
Anchors == [era : Nat \cup {None}, told : Nat]
TabsTyped ==
  /\ conn \in [Tabs -> {"down", "open", "registered"}]
  /\ hello \in [Tabs -> {None} \cup 0..MaxFrames]
  /\ cursor \in [Tabs -> 0..MaxFrames]
  /\ wire \in [Tabs -> Seq(Message)]
  /\ anchor \in [Tabs -> Anchors]
  /\ \A t \in Tabs : anchor[t].era # None => anchor[t].era <= era
Typed == CountsTyped /\ LineTyped /\ RingTyped /\ TabsTyped

(* What can be seen is on the tape: so is what is about to be sent. *)
Ok(i) == Durable(i) => \E k \in DOMAIN tape : tape[k] = i
Taped ==
  /\ sending # None /\ sending.taped => Ok(sending.frame.id)
  /\ \A k \in DOMAIN ring : Ok(ring[k].id)
  /\ \A t \in Tabs :
       /\ \A k \in DOMAIN applied[t] : Ok(applied[t][k])
       /\ \A k \in DOMAIN wire[t] : wire[t][k].kind = "frame" => Ok(wire[t][k].id)

(* As long as nobody resets the session: the frame being sent has the last number,
   the later of two stored frames has the higher number, and what is still on the
   chain is later than all of them. *)
Newer(i) ==
  /\ \A k \in DOMAIN tape : tape[k] < i
  /\ \A f \in numbered : f.id < i
  /\ \A t \in Tabs : \A k \in DOMAIN applied[t] : applied[t][k] < i
Sorted(s) == \A i, j \in DOMAIN s : i < j => s[i].seq < s[j].seq
OnChain ==
  \A k \in DOMAIN chain : chain[k] # Commit =>
    Newer(chain[k].id) /\ (sending # None => sending.frame.id < chain[k].id)
InHand ==
  sending # None =>
    /\ sending.frame.seq = lastSeq
    /\ \A f \in numbered : f.seq < lastSeq /\ f.id < sending.frame.id
    /\ \A t \in Tabs : \A k \in DOMAIN applied[t] : applied[t][k] < sending.frame.id
    /\ ~ sending.taped => \A k \in DOMAIN tape : tape[k] < sending.frame.id
InNumbers ==
  /\ \A f \in numbered : f.seq <= lastSeq
  /\ \A f, g \in numbered : (f.seq < g.seq => f.id < g.id) /\ (f.seq = g.seq => f = g)
Latest(s, S) ==
  /\ \A k \in DOMAIN s : s[k] \in S
  /\ Sorted(s)
  /\ \A f \in S : s # <<>> /\ s[1].seq <= f.seq => \E k \in DOMAIN s : s[k] = f
Rising == Increasing(tape) /\ OnChain /\ InHand /\ InNumbers /\ Latest(ring, numbered)

(* A tab has processed nothing that is later than a frame ahead of its cursor, and
   this is still so when it has read what is on the wire. *)
Later(t, n) == \A f \in numbered : f.seq > n => \A k \in DOMAIN applied[t] : applied[t][k] < f.id
ReadBy(t) ==
  /\ Increasing(applied[t])
  /\ \A k \in DOMAIN wire[t] : wire[t][k].kind = "frame" => \E f \in numbered : wire[t][k] = Shown(f)
  /\ Later(t, cursor[t])
  /\ \A k \in DOMAIN wire[t] : wire[t][k].kind = "resume_failed" =>
       /\ Later(t, wire[t][k].seq)
       /\ \A j \in 1..(k - 1) : wire[t][j].kind = "frame" => wire[t][j].seq <= wire[t][k].seq

(* Where the wire of t leads from position i on. *)
On(t, i, f) == \E j \in DOMAIN wire[t] : i <= j /\ wire[t][j] = Shown(f)
Between(t, i, k, f) == \E j \in i..(k - 1) : wire[t][j] = Shown(f)
Failure(t, k) == k \in DOMAIN wire[t] /\ wire[t][k].kind = "resume_failed"

(* After an admission of a gap, all that is above it follows in order. *)
AdmittedTo(t) ==
  \A i \in DOMAIN wire[t] : Failure(t, i) =>
    \A f \in numbered : f.seq > wire[t][i].seq =>
      /\ On(t, i + 1, f)
      /\ \A k \in DOMAIN wire[t] : \A g \in numbered :
           i < k /\ wire[t][k] = Shown(g) /\ f.seq < g.seq => Between(t, i + 1, k, f)

(* A tab that is not exempt has got what is below its cursor, or was told; and
   before the first admission its wire brings the rest in order. *)
Got(t, f) == (\E k \in DOMAIN applied[t] : applied[t][k] = f.id) \/ f.seq <= anchor[t].told
AnchoredAt(t) ==
  anchor[t].era = era =>
    /\ cursor[t] <= anchor[t].told \/ \E f \in numbered : cursor[t] <= f.seq
    /\ \A f \in numbered : f.seq <= cursor[t] => Got(t, f)
    /\ \A f \in numbered : conn[t] = "registered" /\ (\A i \in DOMAIN wire[t] : ~ Failure(t, i)) =>
         Got(t, f) \/ On(t, 1, f)
    /\ \A k \in DOMAIN wire[t] : \A f, g \in numbered :
         /\ wire[t][k] = Shown(g) /\ f.seq < g.seq
         /\ \A i \in 1..(k - 1) : ~ Failure(t, i)
         => Got(t, f) \/ Between(t, 1, k, f)

(* Only a registered tab has a wire, and a hello not answered yet has the cursor
   that the tab still has, unless it is registered. *)
Wired ==
  \A t \in Tabs :
    /\ wire[t] # <<>> => conn[t] = "registered"
    /\ conn[t] # "registered" /\ hello[t] # None => hello[t] = cursor[t]

Unreset == Rising /\ \A t \in Tabs : ReadBy(t) /\ AdmittedTo(t) /\ AnchoredAt(t)

IInv == Typed /\ Chained /\ Paid /\ Known /\ Wired /\ Taped /\ (resets = 0 => Unreset)

--------------------------------------------------------------------------------
(* What the names stand for, and the induction that the rest needs. *)

(* A set of numbers that is not empty has a least one. *)
LEMMA Least ==
  ASSUME NEW S, S \subseteq Nat, S # {}
  PROVE  \E n \in S : \A m \in S : n <= m
<1> DEFINE R == {p \in Nat \X Nat : p[1] < p[2]}
<1>1. OpToRel(<, Nat) = R
  BY Zenon DEF OpToRel
<1>2. IsWellFoundedOn(R, Nat)
  BY <1>1, NatLessThanWellFounded, Zenon
<1>3. \A a, b \in Nat : a < b => <<a, b>> \in R
  OBVIOUS
<1> HIDE DEF R
<1>4. PICK n \in S : \A m \in S : ~ (<<m, n>> \in R)
  BY <1>2, WFMin
<1>5. ASSUME NEW m \in S PROVE n <= m
  <2>1. ~ (m < n)
    BY <1>3, <1>4
  <2>2. QED
    BY <2>1
<1>6. QED
  BY <1>5

(* Induction over the numbers, with a set in the place of a predicate. *)
LEMMA Induction ==
  ASSUME NEW S, 0 \in S, \A n \in Nat : n \in S => n + 1 \in S
  PROVE  Nat \subseteq S
<1> SUFFICES ASSUME Nat \ S # {} PROVE FALSE
  OBVIOUS
<1>1. PICK n \in Nat \ S : \A m \in Nat \ S : n <= m
  BY Least
<1>2. n # 0 /\ n - 1 \in Nat
  BY SMT
<1>3. n - 1 \in S
  BY <1>1, <1>2
<1>4. QED
  BY <1>2, <1>3

(* The function that After is defined with. *)
LaterStep(kept, from, f, n) ==
  IF n = 0 THEN <<>>
  ELSE IF kept[n].seq > from THEN Append(f[n - 1], kept[n])
  ELSE f[n - 1]

(* It is defined up to n. *)
DefinedTo(kept, from, n) ==
  \E f \in [0..n -> Seq(Frame)] : \A k \in 0..n : f[k] = LaterStep(kept, from, f, k)

(* It is defined for the whole ring. *)
LEMMA AfterExists ==
  ASSUME NEW kept \in Seq(Frame), NEW from \in Nat
  PROVE  \E f \in [0..Len(kept) -> Seq(Frame)] :
            f = [n \in 0..Len(kept) |-> LaterStep(kept, from, f, n)]
<1> DEFINE S == {n \in Nat : n <= Len(kept) => DefinedTo(kept, from, n)}
<1>1. 0 \in S
  <2> DEFINE f == [k \in 0..0 |-> <<>>]
  <2>1. f \in [0..0 -> Seq(Frame)]
    OBVIOUS
  <2>2. \A k \in 0..0 : f[k] = LaterStep(kept, from, f, k)
    BY DEF LaterStep
  <2>3. QED
    BY <2>1, <2>2 DEF DefinedTo
<1>2. ASSUME NEW n \in Nat, n \in S PROVE n + 1 \in S
  <2> SUFFICES ASSUME n + 1 <= Len(kept) PROVE DefinedTo(kept, from, n + 1)
    OBVIOUS
  <2>1. PICK f \in [0..n -> Seq(Frame)] : \A k \in 0..n : f[k] = LaterStep(kept, from, f, k)
    BY SMTT(30), <1>2 DEF DefinedTo
  <2> DEFINE g == [k \in 0..(n + 1) |-> IF k = n + 1 THEN LaterStep(kept, from, f, k) ELSE f[k]]
  <2>2. LaterStep(kept, from, f, n + 1) \in Seq(Frame)
    <3>1. f[n] \in Seq(Frame) /\ kept[n + 1] \in Frame /\ (n + 1) - 1 = n /\ n + 1 # 0
      OBVIOUS
    <3>2. QED
      BY <3>1 DEF LaterStep
  <2>3. g \in [0..(n + 1) -> Seq(Frame)]
    BY <2>2
  <2>4. \A k \in 0..(n + 1) : g[k] = LaterStep(kept, from, g, k)
    <3> TAKE k \in 0..(n + 1)
    <3>1. k # 0 => k - 1 \in 0..n /\ g[k - 1] = f[k - 1]
      OBVIOUS
    <3>2. LaterStep(kept, from, g, k) = LaterStep(kept, from, f, k)
      BY <3>1 DEF LaterStep
    <3>3. QED
      BY <2>1, <3>2
  <2>5. QED
    BY <2>3, <2>4 DEF DefinedTo
<1> HIDE DEF S
<1>3. Len(kept) \in S
  BY <1>1, <1>2, Induction
<1>4. PICK f \in [0..Len(kept) -> Seq(Frame)] :
              \A k \in 0..Len(kept) : f[k] = LaterStep(kept, from, f, k)
  BY <1>3 DEF S, DefinedTo
<1>5. QED
  BY <1>4

(* What of the first n frames is after a cursor. *)
Picked(kept, from, n, s) ==
  /\ \A i \in DOMAIN s : \E k \in 1..n : s[i] = kept[k] /\ kept[k].seq > from
  /\ \A k \in 1..n : kept[k].seq > from => \E i \in DOMAIN s : s[i] = kept[k]
  /\ Sorted(kept) => Sorted(s)

(* After picks what is after the cursor, and keeps the order of the numbers. *)
LEMMA AfterPicks ==
  ASSUME NEW kept \in Seq(Frame), NEW from \in Nat
  PROVE  After(kept, from) \in Seq(Frame) /\ Picked(kept, from, Len(kept), After(kept, from))
<1> DEFINE L == CHOOSE f : f = [n \in 0..Len(kept) |-> LaterStep(kept, from, f, n)]
<1>1. After(kept, from) = L[Len(kept)]
  BY DEF After, LaterStep
<1>2. L = [n \in 0..Len(kept) |-> LaterStep(kept, from, L, n)]
  BY AfterExists
<1> HIDE DEF L
<1> DEFINE S == {n \in Nat : n <= Len(kept) => L[n] \in Seq(Frame) /\ Picked(kept, from, n, L[n])}
<1>3. 0 \in S
  <2>1. L[0] = <<>>
    BY <1>2 DEF LaterStep
  <2>2. Picked(kept, from, 0, <<>>)
    BY DEF Picked, Sorted
  <2>3. <<>> \in Seq(Frame)
    OBVIOUS
  <2>4. QED
    BY <2>1, <2>2, <2>3
<1>4. ASSUME NEW n \in Nat, n \in S PROVE n + 1 \in S
  <2> SUFFICES ASSUME n + 1 <= Len(kept)
               PROVE  L[n + 1] \in Seq(Frame) /\ Picked(kept, from, n + 1, L[n + 1])
    OBVIOUS
  <2>1. /\ L[n] \in Seq(Frame) /\ Picked(kept, from, n, L[n])
        /\ kept[n + 1] \in Frame /\ kept[n + 1].seq \in Nat
    <3>1. L[n] \in Seq(Frame) /\ Picked(kept, from, n, L[n])
      BY <1>4
    <3>2. kept[n + 1] \in Frame
      OBVIOUS
    <3>3. QED
      BY <3>1, <3>2 DEF Frame
  <2>2. L[n + 1] = IF kept[n + 1].seq > from THEN Append(L[n], kept[n + 1]) ELSE L[n]
    <3>1. n + 1 \in 0..Len(kept) /\ n + 1 # 0 /\ (n + 1) - 1 = n
      OBVIOUS
    <3>2. L[n + 1] = LaterStep(kept, from, L, n + 1)
      BY <1>2, <3>1
    <3>3. QED
      BY <3>1, <3>2 DEF LaterStep
  <2>3. CASE kept[n + 1].seq > from
    <3> DEFINE s == Append(L[n], kept[n + 1])
    <3>1. L[n + 1] = s /\ s \in Seq(Frame) /\ DOMAIN s = 1..(Len(L[n]) + 1)
      BY <2>1, <2>2, <2>3
    <3>2. s[Len(L[n]) + 1] = kept[n + 1] /\ \A i \in DOMAIN L[n] : s[i] = L[n][i]
      BY <2>1
    <3>3. \A i \in DOMAIN s : i \in DOMAIN L[n] \/ i = Len(L[n]) + 1
      BY <2>1, <3>1
    <3> HIDE DEF s
    <3>4. \A i \in DOMAIN s : \E k \in 1..(n + 1) : s[i] = kept[k] /\ kept[k].seq > from
      <4>1. \A i \in DOMAIN L[n] : \E k \in 1..n : L[n][i] = kept[k] /\ kept[k].seq > from
        BY <2>1 DEF Picked
      <4>2. n + 1 \in 1..(n + 1) /\ \A k \in 1..n : k \in 1..(n + 1)
        OBVIOUS
      <4>3. QED
        BY <2>3, <3>2, <3>3, <4>1, <4>2
    <3>5. \A k \in 1..(n + 1) : kept[k].seq > from => \E i \in DOMAIN s : s[i] = kept[k]
      <4>1. \A k \in 1..n : kept[k].seq > from => \E i \in DOMAIN L[n] : L[n][i] = kept[k]
        BY <2>1 DEF Picked
      <4>2. \A i \in DOMAIN L[n] : i \in DOMAIN s
        BY <2>1, <3>1
      <4>3. Len(L[n]) + 1 \in DOMAIN s
        BY <2>1, <3>1
      <4>4. QED
        BY <3>2, <4>1, <4>2, <4>3
    <3>6. ASSUME Sorted(kept), NEW i \in DOMAIN s, NEW j \in DOMAIN s, i < j
          PROVE  s[i].seq < s[j].seq
      <4>1. i \in DOMAIN L[n]
        BY <2>1, <3>1, <3>6
      <4>2. CASE j \in DOMAIN L[n]
        BY <2>1, <3>2, <3>6, <4>1, <4>2 DEF Picked, Sorted
      <4>3. CASE j = Len(L[n]) + 1
        <5>1. PICK k \in 1..n : L[n][i] = kept[k]
          BY <2>1, <4>1 DEF Picked
        <5>2. kept[k].seq < kept[n + 1].seq
          BY <3>6 DEF Sorted
        <5>3. QED
          BY <3>2, <4>1, <4>3, <5>1, <5>2
      <4>4. QED
        BY <3>3, <4>2, <4>3
    <3>7. QED
      BY <3>1, <3>4, <3>5, <3>6 DEF Picked, Sorted
  <2>4. CASE ~ (kept[n + 1].seq > from)
    <3>1. L[n + 1] = L[n]
      BY <2>2, <2>4
    <3>2. \A k \in 1..(n + 1) : k \in 1..n \/ k = n + 1
      OBVIOUS
    <3>3. \A k \in 1..n : k \in 1..(n + 1)
      OBVIOUS
    <3>4. QED
      BY <2>1, <2>4, <3>1, <3>2, <3>3 DEF Picked
  <2>5. QED
    BY <2>3, <2>4
<1> HIDE DEF S
<1>5. Len(kept) \in S
  BY <1>3, <1>4, Induction
<1>6. QED
  BY <1>1, <1>5 DEF S

(* What Append does to a sequence. *)
LEMMA Grown ==
  ASSUME NEW S, NEW s \in Seq(S), NEW e
  PROVE  /\ Len(Append(s, e)) = Len(s) + 1
         /\ DOMAIN s = 1..Len(s) /\ Len(s) \in Nat
         /\ DOMAIN Append(s, e) = 1..(Len(s) + 1)
         /\ \A k \in DOMAIN s : k \in DOMAIN Append(s, e) /\ k # Len(s) + 1 /\ Append(s, e)[k] = s[k]
         /\ Len(s) + 1 \in DOMAIN Append(s, e) /\ Append(s, e)[Len(s) + 1] = e
         /\ \A k \in DOMAIN Append(s, e) : k \in DOMAIN s \/ k = Len(s) + 1
OBVIOUS

(* What Tail leaves of a sequence. *)
LEMMA Shrunk ==
  ASSUME NEW S, NEW s \in Seq(S), s # <<>>
  PROVE  /\ Tail(s) \in Seq(S) /\ DOMAIN s = 1..Len(s) /\ Len(s) \in Nat
         /\ 1 \in DOMAIN s /\ Head(s) = s[1] /\ s[1] \in S
         /\ DOMAIN Tail(s) = 1..(Len(s) - 1)
         /\ \A k \in DOMAIN Tail(s) : k + 1 \in DOMAIN s /\ k + 1 # 1 /\ Tail(s)[k] = s[k + 1]
         /\ \A k \in DOMAIN s : k = 1 \/ (k - 1 \in DOMAIN Tail(s) /\ Tail(s)[k - 1] = s[k])
OBVIOUS

(* The names of things are not one another's. *)
LEMMA Names ==
  /\ None \notin Nat /\ MaxEntries \in Nat /\ MaxEntries # 0
  /\ \A n \in {MaxFrames, MaxTurns, MaxHellos, MaxFailures, MaxRestarts, MaxResets} : n \in Nat
  /\ \A i : Commit # Deliver(i) /\ Deliver(i).id = i
  /\ Commit.id = 0
BY StreamAssumption DEF Commit, Deliver

(* Frames and admissions are told apart on the wire. *)
LEMMA Messages ==
  /\ \A f \in Frame : Shown(f) \in Message /\ Shown(f).kind = "frame"
  /\ \A n \in Nat : Failed(n) \in Message /\ Failed(n).kind = "resume_failed" /\ Failed(n).seq = n
  /\ \A f \in Frame : Shown(f).seq = f.seq /\ Shown(f).id = f.id /\ f.seq \in Nat /\ f.id \in Nat
  /\ \A f, g \in Frame : Shown(f) = Shown(g) => f = g
  /\ \A f \in Frame, n \in Nat : Shown(f) # Failed(n)
<1>1. \A f \in Frame : f.seq \in Nat /\ f.id \in Nat
  BY DEF Frame
<1>2. \A f, g \in Frame : f.seq = g.seq /\ f.id = g.id => f = g
  BY DEF Frame
<1>3. QED
  BY <1>1, <1>2 DEF Shown, Failed, Message

(* A frame that is handed over gets the next number of the history. *)
LEMMA HandedOver ==
  ASSUME LineTyped, NEW n \in Nat, HandOver(n)
  PROVE  /\ made' \in Seq(Nat) /\ Len(made') = Len(made) + 1 /\ Len(made') <= MaxFrames
         /\ Ids = 1..Len(made) /\ Ids' = 1..(Len(made) + 1) /\ Len(made) \in Nat
         /\ \A i \in Ids : i \in Ids' /\ made'[i] = made[i]
         /\ chain' = Append(chain, Deliver(Len(made) + 1))
<1>1. made \in Seq(Nat) /\ Len(made) < MaxFrames /\ made' = Append(made, n)
  BY DEF LineTyped, HandOver
<1>2. Len(made) \in Nat /\ MaxFrames \in Nat
  BY <1>1, Names
<1>3. QED
  BY <1>1, <1>2, Grown DEF Ids, HandOver

--------------------------------------------------------------------------------
(* Every step keeps types: of counters, *)
LEMMA CountsStep ==
  ASSUME CountsTyped, [Next]_vars
  PROVE  CountsTyped'
<1>1. CASE UNCHANGED <<session, poisoned, waiting, turn, started, era, turns, resets>>
  BY <1>1 DEF CountsTyped
<1>2. ASSUME NEW t \in Tabs, SendMessage(t) PROVE CountsTyped'
  BY SMTT(30), <1>2, Names DEF SendMessage, CountsTyped
<1>3. CASE CommitMessage \/ CommitFails
  <2>1. session' \in BOOLEAN /\ poisoned' \in BOOLEAN
    BY <1>3 DEF CommitMessage, CommitFails, CountsTyped
  <2>2. waiting' \in {waiting, waiting + 1} /\ UNCHANGED <<turn, started, era, turns, resets>>
    BY <1>3 DEF CommitMessage, CommitFails, histVars, bounds
  <2>3. QED
    BY <2>1, <2>2 DEF CountsTyped
<1>4. CASE StartTurn \/ EndTurn
  BY <1>4 DEF StartTurn, EndTurn, CountsTyped, histVars, bounds
<1>5. CASE AppendFails
  BY <1>5 DEF AppendFails, CountsTyped, histVars
<1>6. ASSUME NEW t \in Tabs, Reset(t) PROVE CountsTyped'
  <2>1. session' \in BOOLEAN /\ poisoned' \in BOOLEAN
    BY <1>6 DEF Reset, BeginNumbering
  <2>2. era' = era + 1 /\ resets' = resets + 1 /\ UNCHANGED <<waiting, turn, started, turns>>
    BY <1>6 DEF Reset, BeginNumbering
  <2>3. QED
    BY <2>1, <2>2 DEF CountsTyped
<1>7. CASE Restart
  <2>1. session' \in BOOLEAN /\ poisoned' \in BOOLEAN
    BY <1>7 DEF Restart, BeginNumbering, CountsTyped
  <2>2. era' = era + 1 /\ waiting' = 0 /\ turn' = 0 /\ UNCHANGED <<started, turns, resets>>
    BY <1>7 DEF Restart, BeginNumbering, bounds
  <2>3. QED
    BY <2>1, <2>2 DEF CountsTyped
<1>8. QED
  BY <1>1, <1>2, <1>3, <1>4, <1>5, <1>6, <1>7
  DEF Next, vars, memVars, histVars, bounds, GatewayStep, TabStep, Emit, SkipPoisoned, AllocateFrameSeq,
      AppendTape, Send, SendHello, Connect, Foreground, AutoResumeFromHello, IgnoreHello, ReceiveFrame,
      HandleResumeFailed, Disconnect

(* of what is made, chained, taped and processed, *)
LEMMA LineStep ==
  ASSUME Typed, Known, [Next]_vars
  PROVE  LineTyped'
<1> USE DEF Ids
<1>1. LineTyped
  BY DEF Typed
<1>2. CASE UNCHANGED <<made, chain, lastSeq, tape, applied>>
  BY <1>1, <1>2 DEF LineTyped
<1>3. CASE chain' = Append(chain, Commit) /\ UNCHANGED <<made, lastSeq, tape, applied>>
  BY <1>1, <1>3 DEF LineTyped
<1>4. CASE /\ chain # <<>> /\ chain' = Tail(chain) /\ lastSeq' \in {lastSeq, lastSeq + 1}
           /\ UNCHANGED <<made, tape, applied>>
  BY <1>1, <1>4 DEF LineTyped
<1>5. ASSUME NEW n \in Nat, HandOver(n), UNCHANGED <<lastSeq, tape, applied>> PROVE LineTyped'
  <2>1. /\ made' \in Seq(Nat) /\ Len(made') <= MaxFrames /\ Ids \subseteq Ids' /\ Len(made) + 1 \in Ids'
        /\ chain' = Append(chain, Deliver(Len(made) + 1))
    BY <1>1, <1>5, HandedOver
  <2>2. chain' \in Seq({Commit} \cup {Deliver(i) : i \in Ids'})
    BY <1>1, <2>1 DEF LineTyped
  <2>3. tape' \in Seq(Ids') /\ applied' \in [Tabs -> Seq(Ids')]
    <3>1. \A s \in Seq(Ids) : s \in Seq(Ids')
      BY <2>1
    <3>2. QED
      BY <1>1, <1>5, <3>1 DEF LineTyped
  <2>4. QED
    BY <1>1, <1>5, <2>1, <2>2, <2>3 DEF LineTyped
<1>6. CASE AppendTape
  <2>1. sending.frame.id \in Ids
    BY <1>6 DEF AppendTape, Untaped, Known, Of
  <2>2. tape' = Append(tape, sending.frame.id) /\ UNCHANGED <<made, chain, lastSeq, applied>>
    BY <1>6 DEF AppendTape, histVars
  <2>3. QED
    BY <1>1, <2>1, <2>2 DEF LineTyped
<1>7. CASE lastSeq' = 0 /\ chain' \in {chain, <<>>} /\ UNCHANGED <<made, tape, applied>>
  <2>1. CASE chain' = chain
    BY <1>1, <1>7, <2>1 DEF LineTyped
  <2>2. CASE chain' = <<>>
    <3>1. <<>> \in Seq({Commit} \cup {Deliver(i) : i \in Ids})
      OBVIOUS
    <3>2. QED
      BY <1>1, <1>7, <2>2, <3>1 DEF LineTyped
  <2>3. QED
    BY <1>7, <2>1, <2>2
<1>8. ASSUME NEW t \in Tabs, ReceiveFrame(t) PROVE LineTyped'
  <2>1. UNCHANGED <<made, chain, lastSeq, tape>>
    BY <1>8 DEF ReceiveFrame, memVars
  <2>2. CASE applied' = applied
    BY <1>1, <2>1, <2>2 DEF LineTyped
  <2>3. CASE applied' = [applied EXCEPT ![t] = Append(@, Head(wire[t]).id)]
    <3>1. wire[t] \in Seq(Message) /\ wire[t] # <<>> /\ Head(wire[t]).kind = "frame"
      BY <1>8 DEF Typed, TabsTyped, ReceiveFrame, Incoming
    <3>2. 1 \in DOMAIN wire[t] /\ Head(wire[t]) = wire[t][1]
      BY <3>1, Shrunk
    <3>3. PICK f \in Frame : Of(f) /\ wire[t][1] = Shown(f)
      BY <3>1, <3>2, Names, Messages DEF Known
    <3>4. Head(wire[t]).id \in Ids
      BY <3>2, <3>3, Messages DEF Of
    <3>5. applied[t] \in Seq(Ids)
      BY <1>1 DEF LineTyped
    <3>6. QED
      BY <1>1, <2>1, <2>3, <3>4, <3>5 DEF LineTyped
  <2>4. QED
    BY <1>8, <2>2, <2>3 DEF ReceiveFrame
<1>9. turn \in Nat /\ 0 \in Nat
  BY DEF Typed, CountsTyped
<1>10. QED
  BY <1>2, <1>3, <1>4, <1>5, <1>6, <1>7, <1>8, <1>9
  DEF Next, vars, memVars, histVars, bounds, GatewayStep, TabStep, SendMessage, CommitMessage, CommitFails,
      AtCommit, AtDelivery, StartTurn, EndTurn, Emit, SkipPoisoned, AllocateFrameSeq, AppendFails, Send,
      SendHello, Connect, Foreground, AutoResumeFromHello, IgnoreHello, HandleResumeFailed, Disconnect,
      Reset, Restart, BeginNumbering

(* of the ring, *)
LEMMA RingStep ==
  ASSUME Typed, Known, [Next]_vars
  PROVE  RingTyped'
<1>1. RingTyped
  BY DEF Typed
<1>2. CASE UNCHANGED ring
  BY <1>1, <1>2 DEF RingTyped
<1>3. CASE Send
  <2>1. sending.frame \in Frame /\ ring' = Stored(sending.frame)
    BY <1>3 DEF Send, Known, Of
  <2>2. Append(ring, sending.frame) \in Seq(Frame) /\ Len(Append(ring, sending.frame)) = Len(ring) + 1
    BY <1>1, <2>1 DEF RingTyped
  <2>3. Len(Append(ring, sending.frame)) > MaxEntries =>
          /\ Tail(Append(ring, sending.frame)) \in Seq(Frame)
          /\ Len(Tail(Append(ring, sending.frame))) = Len(ring)
    BY <1>1, <2>2, Names DEF RingTyped
  <2>4. QED
    BY <1>1, <2>1, <2>2, <2>3, Names DEF RingTyped, Stored
<1>4. ASSUME NEW t \in Tabs, AutoResumeFromHello(t) PROVE RingTyped'
  <2>1. PICK n \in 0..Len(ring) : ring' = SubSeq(ring, n + 1, Len(ring))
    BY <1>4 DEF AutoResumeFromHello
  <2>2. ring' \in Seq(Frame) /\ Len(ring') <= Len(ring)
    BY <1>1, <2>1 DEF RingTyped
  <2>3. QED
    BY <1>1, <2>2, Names DEF RingTyped
<1>5. CASE ring' = <<>>
  BY <1>5, Names DEF RingTyped
<1>6. QED
  BY <1>2, <1>3, <1>4, <1>5
  DEF Next, vars, memVars, GatewayStep, TabStep, SendMessage, CommitMessage, CommitFails, StartTurn, EndTurn,
      Emit, SkipPoisoned, AllocateFrameSeq, AppendTape, AppendFails, SendHello, Connect, Foreground,
      IgnoreHello, ReceiveFrame, HandleResumeFailed, Disconnect, Reset, Restart, BeginNumbering

(* What a hello is answered with are messages: the frames of the ring that are
   after the cursor, or the admission of a gap. *)
LEMMA Replays ==
  ASSUME NEW kept \in Seq(Frame), NEW from \in Nat, lastSeq \in Nat
  PROVE  \/ Replay(kept, from) = <<Failed(lastSeq)>>
         \/ Replay(kept, from) = <<>> /\ from = lastSeq
         \/ /\ kept # <<>> /\ kept[1].seq <= from + 1
            /\ DOMAIN Replay(kept, from) = DOMAIN After(kept, from)
            /\ Replay(kept, from) \in Seq(Message)
            /\ \A k \in DOMAIN Replay(kept, from) : Replay(kept, from)[k] = Shown(After(kept, from)[k])
<1>1. After(kept, from) \in Seq(Frame)
  BY AfterPicks
<1>2. ASSUME Hit(kept, from), from # lastSeq
      PROVE  /\ kept # <<>> /\ kept[1].seq <= from + 1
             /\ Replay(kept, from) = [k \in DOMAIN After(kept, from) |-> Shown(After(kept, from)[k])]
  BY <1>2 DEF Hit, Replay
<1>3. [k \in DOMAIN After(kept, from) |-> Shown(After(kept, from)[k])] \in Seq(Message)
  BY <1>1, Messages
<1>4. QED
  BY <1>2, <1>3 DEF Replay

(* What is joined is the one and then the other. *)
LEMMA Joined ==
  ASSUME NEW S, NEW s \in Seq(S), NEW r \in Seq(S)
  PROVE  /\ s \o r \in Seq(S) /\ Len(s) \in Nat /\ Len(r) \in Nat
         /\ DOMAIN s = 1..Len(s) /\ DOMAIN r = 1..Len(r)
         /\ DOMAIN (s \o r) = 1..(Len(s) + Len(r))
         /\ \A k \in DOMAIN s : k \in DOMAIN (s \o r) /\ (s \o r)[k] = s[k]
         /\ \A k \in DOMAIN r : Len(s) + k \in DOMAIN (s \o r) /\ (s \o r)[Len(s) + k] = r[k]
         /\ \A k \in DOMAIN (s \o r) :
              k \in DOMAIN s \/ \E j \in DOMAIN r : k = Len(s) + j /\ (s \o r)[k] = r[j]
<1>1. /\ s \o r \in Seq(S) /\ Len(s) \in Nat /\ Len(r) \in Nat
      /\ DOMAIN s = 1..Len(s) /\ DOMAIN r = 1..Len(r)
      /\ DOMAIN (s \o r) = 1..(Len(s) + Len(r))
      /\ \A k \in DOMAIN s : k \in DOMAIN (s \o r) /\ (s \o r)[k] = s[k]
      /\ \A k \in DOMAIN r : Len(s) + k \in DOMAIN (s \o r) /\ (s \o r)[Len(s) + k] = r[k]
  OBVIOUS
<1>2. \A k \in DOMAIN (s \o r) :
        k \in DOMAIN s \/ (k - Len(s) \in DOMAIN r /\ k = Len(s) + (k - Len(s)))
  BY <1>1
<1>3. QED
  BY <1>1, <1>2

(* How a hello is answered. *)
LEMMA Answer ==
  ASSUME Typed, NEW t \in Tabs, AutoResumeFromHello(t)
  PROVE  /\ hello[t] \in Nat /\ lastSeq \in Nat /\ ring' \in Seq(Frame) /\ wire[t] \in Seq(Message)
         /\ \E n \in 0..Len(ring) : ring' = SubSeq(ring, n + 1, Len(ring))
         /\ \A k \in DOMAIN ring' : \E i \in DOMAIN ring : ring'[k] = ring[i]
         /\ Replay(ring', hello[t]) \in Seq(Message)
         /\ \A k \in DOMAIN Replay(ring', hello[t]) :
              \/ Replay(ring', hello[t])[k] = Failed(lastSeq)
              \/ \E i \in DOMAIN ring : Replay(ring', hello[t])[k] = Shown(ring[i])
         /\ wire' = [wire EXCEPT ![t] = @ \o Replay(ring', hello[t])]
         /\ wire'[t] = wire[t] \o Replay(ring', hello[t])
         /\ \A u \in Tabs : u # t => wire'[u] = wire[u]
<1>1. hello[t] \in Nat /\ lastSeq \in Nat /\ ring \in Seq(Frame) /\ wire[t] \in Seq(Message)
  BY Names DEF Typed, TabsTyped, LineTyped, RingTyped, AutoResumeFromHello
<1>2. PICK n \in 0..Len(ring) : ring' = SubSeq(ring, n + 1, Len(ring))
  BY DEF AutoResumeFromHello
<1>3. ring' \in Seq(Frame) /\ \A k \in DOMAIN ring' : \E i \in DOMAIN ring : ring'[k] = ring[i]
  <2>1. ring' \in Seq(Frame) /\ DOMAIN ring' = 1..(Len(ring) - n)
    BY <1>1, <1>2
  <2>2. \A k \in DOMAIN ring' : n + k \in DOMAIN ring /\ ring'[k] = ring[n + k]
    BY <1>1, <1>2, <2>1
  <2>3. QED
    BY <2>1, <2>2
<1>4. Failed(lastSeq) \in Message
  BY <1>1, Messages
<1>5. <<Failed(lastSeq)>> \in Seq(Message) /\ <<>> \in Seq(Message)
  BY <1>4
<1> DEFINE r == Replay(ring', hello[t])
<1>6. r \in Seq(Message)
  BY <1>1, <1>3, <1>5, Replays
<1>7. ASSUME NEW k \in DOMAIN r
      PROVE  r[k] = Failed(lastSeq) \/ \E i \in DOMAIN ring : r[k] = Shown(ring[i])
  <2>1. CASE r = <<Failed(lastSeq)>>
    BY <1>7, <2>1
  <2>2. CASE r = <<>>
    BY <1>7, <2>2
  <2>3. CASE /\ DOMAIN r = DOMAIN After(ring', hello[t])
             /\ \A j \in DOMAIN r : r[j] = Shown(After(ring', hello[t])[j])
    <3>1. \E i \in 1..Len(ring') : After(ring', hello[t])[k] = ring'[i]
      <4>1. Picked(ring', hello[t], Len(ring'), After(ring', hello[t]))
        BY <1>1, <1>3, AfterPicks
      <4>2. k \in DOMAIN After(ring', hello[t])
        BY <1>7, <2>3
      <4>3. QED
        BY <4>1, <4>2 DEF Picked
    <3>2. DOMAIN ring' = 1..Len(ring')
      BY <1>3
    <3>3. QED
      BY <1>3, <1>7, <2>3, <3>1, <3>2
  <2>4. QED
    BY <1>1, <1>3, <2>1, <2>2, <2>3, Replays
<1>8. wire' = [wire EXCEPT ![t] = @ \o r] /\ wire \in [Tabs -> Seq(Message)]
  BY DEF AutoResumeFromHello, Typed, TabsTyped
<1> HIDE DEF r
<1>9. wire'[t] = wire[t] \o r /\ \A u \in Tabs : u # t => wire'[u] = wire[u]
  BY <1>8
<1>10. QED
  BY <1>1, <1>2, <1>3, <1>6, <1>7, <1>8, <1>9 DEF r

(* and of the tabs. *)
LEMMA TabsStep ==
  ASSUME Typed, Known, [Next]_vars
  PROVE  TabsTyped'
<1>1. /\ TabsTyped /\ era \in Nat /\ MaxFrames \in Nat /\ 0 \in 0..MaxFrames
      /\ wire \in [Tabs -> Seq(Message)]
      /\ \A u \in Tabs : anchor[u].era # None => anchor[u].era \in Nat
  BY Names DEF Typed, CountsTyped, TabsTyped, Anchors
<1>2. CASE UNCHANGED <<conn, hello, cursor, wire, anchor, era>>
  BY <1>1, <1>2 DEF TabsTyped
<1>3. ASSUME NEW t \in Tabs, SendMessage(t) PROVE TabsTyped'
  <2>1. UNCHANGED <<hello, cursor, wire, era>> /\ conn' = [conn EXCEPT ![t] = "registered"]
        /\ (anchor' = anchor \/ anchor' = [anchor EXCEPT ![t].era = None])
    BY <1>3 DEF SendMessage
  <2>2. anchor[t] \in Anchors /\ [anchor[t] EXCEPT !.era = None] \in Anchors
        /\ [anchor[t] EXCEPT !.era = None].era = None
    BY <1>1 DEF TabsTyped, Anchors
  <2>3. anchor' = [anchor EXCEPT ![t].era = None] => anchor' = [anchor EXCEPT ![t] = [@ EXCEPT !.era = None]]
    OBVIOUS
  <2>4. anchor' \in [Tabs -> Anchors]
    BY <1>1, <2>1, <2>2, <2>3 DEF TabsTyped
  <2>5. \A u \in Tabs : anchor'[u].era # None => anchor'[u].era <= era
    BY <1>1, <2>1, <2>2, <2>3 DEF TabsTyped
  <2>6. QED
    BY <1>1, <2>1, <2>4, <2>5 DEF TabsTyped
<1>4. ASSUME NEW t \in Tabs, Connect(t) \/ Foreground(t) PROVE TabsTyped'
  <2>1. /\ UNCHANGED <<cursor, wire, era>> /\ hello' = [hello EXCEPT ![t] = cursor[t]]
        /\ conn' = conn \/ conn' = [conn EXCEPT ![t] = "open"]
        /\ anchor' = anchor \/ anchor' = [anchor EXCEPT ![t] = [era |-> era, told |-> 0]]
    BY <1>4 DEF Connect, Foreground, SendHello, histVars
  <2>2. cursor[t] \in 0..MaxFrames /\ [era |-> era, told |-> 0] \in Anchors
    BY <1>1 DEF TabsTyped, Anchors
  <2>3. anchor' \in [Tabs -> Anchors]
    BY <1>1, <2>1, <2>2 DEF TabsTyped
  <2>4. \A u \in Tabs : anchor'[u].era # None => anchor'[u].era <= era
    <3>1. CASE anchor' = anchor
      BY <1>1, <3>1 DEF TabsTyped
    <3>2. CASE anchor' = [anchor EXCEPT ![t] = [era |-> era, told |-> 0]]
      BY <1>1, <3>2 DEF TabsTyped
    <3>3. QED
      BY <2>1, <3>1, <3>2
  <2>5. hello' \in [Tabs -> {None} \cup 0..MaxFrames]
    BY <1>1, <2>1, <2>2 DEF TabsTyped
  <2>6. conn' \in [Tabs -> {"down", "open", "registered"}]
    BY <1>1, <2>1 DEF TabsTyped
  <2>7. QED
    BY <1>1, <2>1, <2>3, <2>4, <2>5, <2>6 DEF TabsTyped
<1>5. ASSUME NEW t \in Tabs, AutoResumeFromHello(t) PROVE TabsTyped'
  <2>1. UNCHANGED <<cursor, era, anchor>> /\ hello' = [hello EXCEPT ![t] = None]
        /\ conn' = [conn EXCEPT ![t] = "registered"]
    BY <1>5 DEF AutoResumeFromHello
  <2>2. wire' \in [Tabs -> Seq(Message)]
    <3>1. wire[t] \o Replay(ring', hello[t]) \in Seq(Message)
      BY <1>5, Answer, Joined
    <3>2. QED
      BY ZenonT(40), <1>1, <1>5, <3>1, Answer
  <2>3. QED
    BY <1>1, <2>1, <2>2 DEF TabsTyped
<1>6. ASSUME NEW t \in Tabs, IgnoreHello(t) PROVE TabsTyped'
  BY <1>1, <1>6 DEF IgnoreHello, TabsTyped, histVars
<1>7. ASSUME NEW t \in Tabs, ReceiveFrame(t) \/ HandleResumeFailed(t) PROVE TabsTyped'
  <2>1. wire[t] \in Seq(Message) /\ wire[t] # <<>> /\ Head(wire[t]) = wire[t][1] /\ 1 \in DOMAIN wire[t]
        /\ Tail(wire[t]) \in Seq(Message)
    BY <1>1, <1>7, Shrunk DEF ReceiveFrame, HandleResumeFailed, Incoming
  <2>2. Head(wire[t]).seq \in 0..MaxFrames
    <3>1. CASE \E f \in Frame : Of(f) /\ wire[t][1] = Shown(f)
      BY <1>1, <2>1, <3>1, Messages DEF Of, Seqs
    <3>2. CASE \E n \in 0..MaxFrames : wire[t][1] = Failed(n)
      BY <1>1, <2>1, <3>2, Messages
    <3>3. QED
      BY <2>1, <3>1, <3>2 DEF Known
  <2>3. /\ UNCHANGED <<conn, hello, era>> /\ wire' = [wire EXCEPT ![t] = Tail(@)]
        /\ cursor' = cursor \/ cursor' = [cursor EXCEPT ![t] = Head(wire[t]).seq]
        /\ anchor' = anchor \/ anchor' = [anchor EXCEPT ![t] = [era |-> era, told |-> Head(wire[t]).seq]]
    BY <1>7 DEF ReceiveFrame, HandleResumeFailed
  <2>4. [era |-> era, told |-> Head(wire[t]).seq] \in Anchors
    BY <1>1, <2>2 DEF Anchors
  <2>5. wire' \in [Tabs -> Seq(Message)] /\ cursor' \in [Tabs -> 0..MaxFrames]
    BY <1>1, <2>1, <2>2, <2>3 DEF TabsTyped
  <2>6. anchor' \in [Tabs -> Anchors] /\ \A u \in Tabs : anchor'[u].era # None => anchor'[u].era <= era
    <3>1. anchor' \in [Tabs -> Anchors]
      BY <1>1, <2>3, <2>4 DEF TabsTyped
    <3>2. \A u \in Tabs : anchor'[u].era # None => anchor'[u].era <= era
      <4>1. CASE anchor' = anchor
        BY <1>1, <2>3, <4>1 DEF TabsTyped
      <4>2. CASE anchor' = [anchor EXCEPT ![t] = [era |-> era, told |-> Head(wire[t]).seq]]
        BY <1>1, <4>2 DEF TabsTyped
      <4>3. QED
        BY <2>3, <4>1, <4>2
    <3>3. QED
      BY <3>1, <3>2
  <2>7. QED
    BY <1>1, <2>3, <2>5, <2>6 DEF TabsTyped
<1>8. ASSUME NEW t \in Tabs, Disconnect(t) PROVE TabsTyped'
  BY <1>1, <1>8 DEF Disconnect, TabsTyped, histVars
<1>9. CASE Send
  <2>1. Shown(sending.frame) \in Message
    BY <1>9, Messages DEF Send, Known, Of
  <2>2. \A t \in Tabs : Append(wire[t], Shown(sending.frame)) \in Seq(Message)
    BY <1>1, <2>1
  <2>3. wire' \in [Tabs -> Seq(Message)]
    BY <1>1, <1>9, <2>2 DEF Send
  <2>4. QED
    BY <1>1, <1>9, <2>3 DEF Send, TabsTyped
<1>10. ASSUME NEW t \in Tabs, Reset(t) PROVE TabsTyped'
  <2>1. era' = era + 1 /\ UNCHANGED <<conn, hello, cursor, wire, anchor>>
    BY <1>10 DEF Reset, BeginNumbering, tabVars
  <2>2. \A u \in Tabs : anchor[u].era # None => anchor[u].era <= era + 1
    BY <1>1 DEF TabsTyped
  <2>3. QED
    BY <1>1, <2>1, <2>2 DEF TabsTyped
<1>11. CASE Restart
  <2>1. /\ era' = era + 1 /\ UNCHANGED <<cursor, anchor>> /\ conn' = [u \in Tabs |-> "down"]
        /\ hello' = [u \in Tabs |-> None] /\ wire' = [u \in Tabs |-> <<>>]
    BY <1>11 DEF Restart, BeginNumbering
  <2>2. \A u \in Tabs : anchor[u].era # None => anchor[u].era <= era + 1
    BY <1>1 DEF TabsTyped
  <2>3. QED
    BY <1>1, <2>1, <2>2 DEF TabsTyped
<1>12. QED
  BY <1>2, <1>3, <1>4, <1>5, <1>6, <1>7, <1>8, <1>9, <1>10, <1>11
  DEF Next, vars, memVars, tabVars, histVars, GatewayStep, TabStep, CommitMessage, CommitFails, StartTurn,
      EndTurn, Emit, SkipPoisoned, AllocateFrameSeq, AppendTape, AppendFails

--------------------------------------------------------------------------------
(* The chain. *)

(* What an operation of the chain can be. *)
LEMMA Operations ==
  ASSUME LineTyped
  PROVE  /\ Ids = 1..Len(made) /\ Len(made) \in Nat /\ lastSeq \in Nat
         /\ \A k \in DOMAIN chain : chain[k] # Commit =>
              chain[k].id \in Ids /\ chain[k] = Deliver(chain[k].id)
BY Names DEF LineTyped, Ids

(* Deliveries stay in order. *)
LEMMA ChainedStep ==
  ASSUME LineTyped, Chained, turn \in Nat, [Next]_vars
  PROVE  Chained'
<1>1. /\ Ids = 1..Len(made) /\ Len(made) \in Nat /\ lastSeq \in Nat
      /\ \A k \in DOMAIN chain : chain[k] # Commit => chain[k].id \in Ids
      /\ chain \in Seq({Commit} \cup {Deliver(i) : i \in Ids})
  BY Operations DEF LineTyped
<1>2. CASE UNCHANGED <<chain, lastSeq, made>>
  BY <1>2 DEF Chained
<1>3. CASE chain' = Append(chain, Commit) /\ UNCHANGED <<lastSeq, made>>
  <2>1. /\ DOMAIN chain = 1..Len(chain) /\ Len(chain) \in Nat /\ chain'[Len(chain) + 1] = Commit
        /\ \A k \in DOMAIN chain : chain'[k] = chain[k]
        /\ \A k \in DOMAIN chain' : k \in DOMAIN chain \/ k = Len(chain) + 1
    BY <1>1, <1>3, Grown
  <2>2. QED
    BY <1>3, <2>1 DEF Chained
<1>4. ASSUME chain # <<>>, chain' = Tail(chain), UNCHANGED made,
             lastSeq' = lastSeq \/ (lastSeq' = lastSeq + 1 /\ Head(chain) # Commit)
      PROVE  Chained'
  <2>1. /\ 1 \in DOMAIN chain /\ Head(chain) = chain[1] /\ DOMAIN chain = 1..Len(chain)
        /\ \A k \in DOMAIN chain' : k + 1 \in DOMAIN chain /\ k \in Nat /\ 1 < k + 1 /\ chain'[k] = chain[k + 1]
    BY <1>1, <1>4, Shrunk
  <2>2. \A k \in DOMAIN chain : chain[k] # Commit => chain[k].id \in Nat /\ chain[k].id <= Len(made)
    BY <1>1
  <2>3. ASSUME NEW k \in DOMAIN chain', chain'[k] # Commit PROVE lastSeq' < chain'[k].id
    <3>1. lastSeq < chain[k + 1].id /\ chain[k + 1].id \in Nat
      BY <2>1, <2>2, <2>3 DEF Chained
    <3>2. Head(chain) # Commit =>
            lastSeq < chain[1].id /\ chain[1].id < chain[k + 1].id /\ chain[1].id \in Nat
      BY <2>1, <2>2, <2>3 DEF Chained
    <3>3. QED
      BY <1>1, <1>4, <2>1, <3>1, <3>2
  <2>4. \A j, k \in DOMAIN chain' :
          j < k /\ chain'[j] # Commit /\ chain'[k] # Commit => chain'[j].id < chain'[k].id
    BY <2>1 DEF Chained
  <2>5. lastSeq' <= Len(made)
    BY <1>1, <1>4, <2>1, <2>2 DEF Chained
  <2>6. QED
    BY <1>4, <2>3, <2>4, <2>5 DEF Chained
<1>5. ASSUME NEW n \in Nat, HandOver(n), UNCHANGED lastSeq PROVE Chained'
  <2>1. Len(made') = Len(made) + 1 /\ chain' = Append(chain, Deliver(Len(made) + 1))
    BY <1>5, HandedOver
  <2>2. /\ DOMAIN chain = 1..Len(chain) /\ Len(chain) \in Nat
        /\ chain'[Len(chain) + 1].id = Len(made) + 1
        /\ \A k \in DOMAIN chain : chain'[k] = chain[k]
        /\ \A k \in DOMAIN chain' : k \in DOMAIN chain \/ k = Len(chain) + 1
    BY <1>1, <2>1, Grown, Names
  <2>3. \A k \in DOMAIN chain : chain[k] # Commit => chain[k].id \in Nat /\ chain[k].id <= Len(made)
    BY <1>1
  <2>4. QED
    BY <1>1, <1>5, <2>1, <2>2, <2>3 DEF Chained
<1>6. CASE lastSeq' = 0 /\ chain' \in {chain, <<>>} /\ UNCHANGED made
  <2>1. CASE chain' = <<>>
    BY <1>1, <1>6, <2>1 DEF Chained
  <2>2. CASE chain' = chain
    BY <1>1, <1>6, <2>2 DEF Chained
  <2>3. QED
    BY <1>6, <2>1, <2>2
<1>7. QED
  BY <1>2, <1>3, <1>4, <1>5, <1>6
  DEF Next, vars, memVars, histVars, bounds, GatewayStep, TabStep, SendMessage, CommitMessage, CommitFails,
      AtCommit, AtDelivery, StartTurn, EndTurn, Emit, SkipPoisoned, AllocateFrameSeq, AppendTape, AppendFails,
      Send, SendHello, Connect, Foreground, AutoResumeFromHello, IgnoreHello, ReceiveFrame,
      HandleResumeFailed, Disconnect, Reset, Restart, BeginNumbering

(* How many commits the chain has, after a step. *)
LEMMA CommitsCounted ==
  ASSUME LineTyped
  PROVE  /\ IsFiniteSet(Commits) /\ Cardinality(Commits) \in Nat
         /\ chain' = Append(chain, Commit) => Cardinality(Commits') = Cardinality(Commits) + 1
         /\ \A i : chain' = Append(chain, Deliver(i)) => Commits' = Commits
         /\ chain' = <<>> => Cardinality(Commits') = 0
         /\ chain # <<>> /\ chain' = Tail(chain) =>
              Cardinality(Commits') =
                IF Head(chain) = Commit THEN Cardinality(Commits) - 1 ELSE Cardinality(Commits)
<1>1. chain \in Seq({Commit} \cup {Deliver(i) : i \in Ids})
  BY DEF LineTyped
<1>2. DOMAIN chain = 1..Len(chain) /\ Len(chain) \in Nat
  BY <1>1
<1>3. IsFiniteSet(Commits) /\ Cardinality(Commits) \in Nat
  <2>1. IsFiniteSet(1..Len(chain)) /\ Commits \subseteq 1..Len(chain)
    BY <1>2, FS_Interval DEF Commits
  <2>2. IsFiniteSet(Commits)
    BY <2>1, FS_Subset
  <2>3. QED
    BY <2>2, FS_CardinalityType
<1>4. ASSUME chain' = Append(chain, Commit) PROVE Cardinality(Commits') = Cardinality(Commits) + 1
  <2>1. Commits' = Commits \cup {Len(chain) + 1} /\ Len(chain) + 1 \notin Commits
    BY <1>1, <1>4, Grown DEF Commits
  <2>2. QED
    BY <1>3, <2>1, FS_AddElement
<1>5. ASSUME NEW i, chain' = Append(chain, Deliver(i)) PROVE Commits' = Commits
  BY <1>1, <1>5, Grown, Names DEF Commits
<1>6. ASSUME chain' = <<>> PROVE Cardinality(Commits') = 0
  BY <1>6, FS_EmptySet DEF Commits
<1>7. ASSUME chain # <<>>, chain' = Tail(chain)
      PROVE  Cardinality(Commits') =
               IF Head(chain) = Commit THEN Cardinality(Commits) - 1 ELSE Cardinality(Commits)
  <2> DEFINE f == [k \in Commits \ {1} |-> k - 1]
  <2>1. /\ 1 \in DOMAIN chain /\ Head(chain) = chain[1]
        /\ \A k \in DOMAIN chain' : k + 1 \in DOMAIN chain /\ k + 1 # 1 /\ chain'[k] = chain[k + 1] /\ k \in Nat
        /\ \A k \in DOMAIN chain : k = 1 \/ (k - 1 \in DOMAIN chain' /\ chain'[k - 1] = chain[k])
    BY <1>1, <1>7, Shrunk
  <2>2. \A k \in Commits \ {1} : k - 1 \in Commits' /\ k \in Nat
    BY <1>2, <2>1 DEF Commits
  <2>3. \A k \in Commits' : k + 1 \in Commits \ {1} /\ k \in Nat /\ (k + 1) - 1 = k
    BY <2>1 DEF Commits
  <2>4. f \in Bijection(Commits \ {1}, Commits')
    <3>1. f \in [Commits \ {1} -> Commits']
      BY <2>2
    <3>2. \A a, b \in Commits \ {1} : f[a] = f[b] => a = b
      BY <2>2
    <3>3. \A k \in Commits' : \E a \in Commits \ {1} : f[a] = k
      BY <2>3
    <3>4. QED
      BY <3>1, <3>2, <3>3 DEF Bijection, Injection, Surjection, IsInjective
  <2>5. IsFiniteSet(Commits \ {1})
    BY <1>3, FS_Subset
  <2>6. Cardinality(Commits') = Cardinality(Commits \ {1})
    BY <2>4, <2>5, FS_Bijection DEF ExistsBijection
  <2>7. Cardinality(Commits \ {1}) = IF 1 \in Commits THEN Cardinality(Commits) - 1 ELSE Cardinality(Commits)
    BY <1>3, FS_RemoveElement
  <2>8. QED
    BY <2>1, <2>6, <2>7 DEF Commits
<1>8. QED
  BY <1>3, <1>4, <1>5, <1>6, <1>7

(* Every turn is paid for. *)
LEMMA PaidStep ==
  ASSUME LineTyped, CountsTyped, Paid, [Next]_vars
  PROVE  Paid'
<1>1. /\ Cardinality(Commits) \in Nat
      /\ started \in Nat /\ waiting \in Nat /\ turns \in Nat /\ turn \in Nat
      /\ started + waiting + Cardinality(Commits) <= turns /\ turn <= started
  BY CommitsCounted DEF CountsTyped, Paid
<1>2. UNCHANGED chain => Commits' = Commits
  BY DEF Commits
<1>3. CASE UNCHANGED <<chain, started, waiting, turns, turn>>
  BY <1>1, <1>2, <1>3 DEF Paid
<1>4. ASSUME NEW t \in Tabs, SendMessage(t) PROVE Paid'
  <2>1. chain' = Append(chain, Commit) /\ turns' = turns + 1 /\ UNCHANGED <<started, waiting, turn>>
    BY <1>4 DEF SendMessage
  <2>2. Cardinality(Commits') = Cardinality(Commits) + 1
    BY <2>1, CommitsCounted
  <2>3. QED
    BY <1>1, <2>1, <2>2 DEF Paid
<1>5. CASE CommitMessage \/ CommitFails
  <2>1. /\ chain # <<>> /\ Head(chain) = Commit /\ chain' = Tail(chain) /\ waiting' \in {waiting, waiting + 1}
        /\ UNCHANGED <<started, turns, turn>>
    BY <1>5 DEF CommitMessage, CommitFails, AtCommit, histVars, bounds
  <2>2. Cardinality(Commits') = Cardinality(Commits) - 1
    BY <2>1, CommitsCounted
  <2>3. QED
    BY <1>1, <2>1, <2>2 DEF Paid
<1>6. CASE SkipPoisoned \/ AllocateFrameSeq
  <2>1. /\ chain # <<>> /\ Head(chain) # Commit /\ chain' = Tail(chain)
        /\ UNCHANGED <<started, waiting, turns, turn>>
    BY <1>6 DEF SkipPoisoned, AllocateFrameSeq, AtDelivery, histVars, bounds
  <2>2. Cardinality(Commits') = Cardinality(Commits)
    BY <2>1, CommitsCounted
  <2>3. QED
    BY <1>1, <2>1, <2>2 DEF Paid
<1>7. CASE StartTurn \/ EndTurn
  <2>1. /\ chain' = chain /\ turns' = turns
        /\ \/ waiting > 0 /\ waiting' = waiting - 1 /\ started' = started + 1 /\ turn' = started + 1
           \/ UNCHANGED <<waiting, started>> /\ turn' = 0
    BY <1>7 DEF StartTurn, EndTurn, histVars, bounds
  <2>2. QED
    BY <1>1, <1>2, <2>1 DEF Paid
<1>8. ASSUME NEW n, HandOver(n), UNCHANGED <<started, waiting, turns, turn>> PROVE Paid'
  <2>1. Commits' = Commits
    BY <1>8, CommitsCounted DEF HandOver
  <2>2. QED
    BY <1>1, <1>8, <2>1 DEF Paid
<1>9. CASE Restart
  <2>1. chain' = <<>> /\ waiting' = 0 /\ turn' = 0 /\ UNCHANGED <<started, turns>>
    BY <1>9 DEF Restart, bounds
  <2>2. Cardinality(Commits') = 0
    BY <2>1, CommitsCounted
  <2>3. QED
    BY <1>1, <2>1, <2>2 DEF Paid
<1>10. QED
  BY <1>3, <1>4, <1>5, <1>6, <1>7, <1>8, <1>9
  DEF Next, vars, memVars, histVars, bounds, GatewayStep, TabStep, Emit, AppendTape, AppendFails,
      Send, SendHello, Connect, Foreground, AutoResumeFromHello, IgnoreHello, ReceiveFrame,
      HandleResumeFailed, Disconnect, Reset, BeginNumbering

--------------------------------------------------------------------------------
(* What is known of frames. *)

(* What was known of a frame stays known. *)
LEMMA StaysKnown ==
  ASSUME LineTyped, [Next]_vars, turn \in Nat
  PROVE  /\ Ids \subseteq Ids'
         /\ \A f : Of(f) => Of(f)'
         /\ \A i \in Ids : made'[i] = made[i]
<1>1. CASE made' = made
  BY <1>1 DEF Of, Ids
<1>2. ASSUME NEW n \in Nat, HandOver(n)
      PROVE  Ids \subseteq Ids' /\ \A i \in Ids : made'[i] = made[i]
  BY <1>2, HandedOver
<1>3. Ids \subseteq Ids' /\ \A i \in Ids : made'[i] = made[i]
  BY <1>1, <1>2
  DEF Next, vars, memVars, histVars, GatewayStep, TabStep, SendMessage, CommitMessage, CommitFails,
      StartTurn, EndTurn, Emit, SkipPoisoned, AllocateFrameSeq, AppendTape, AppendFails,
      Send, SendHello, Connect, Foreground, AutoResumeFromHello, IgnoreHello, ReceiveFrame,
      HandleResumeFailed, Disconnect, Reset, Restart, BeginNumbering, Ids
<1>4. QED
  BY <1>3 DEF Of, Seqs

(* Where the frames of a ring come from. *)
LEMMA RingMoves ==
  ASSUME Typed, Known, [Next]_vars, NEW k \in DOMAIN ring'
  PROVE  \/ \E j \in DOMAIN ring : ring'[k] = ring[j]
         \/ Send /\ ring'[k] = sending.frame
<1> DEFINE Goal == \/ \E j \in DOMAIN ring : ring'[k] = ring[j]
                   \/ Send /\ ring'[k] = sending.frame
<1>1. CASE UNCHANGED ring
  BY <1>1
<1>2. CASE ring' = <<>>
  BY <1>2
<1>3. CASE Send
  <2> DEFINE g == Append(ring, sending.frame)
  <2>1. ring \in Seq(Frame) /\ sending.frame \in Frame
    BY <1>3 DEF Send, Typed, RingTyped, Known, Of
  <2>2. /\ g \in Seq(Frame) /\ g # <<>>
        /\ \A i \in DOMAIN g : i \in DOMAIN ring \/ i = Len(ring) + 1
        /\ \A i \in DOMAIN ring : g[i] = ring[i]
        /\ g[Len(ring) + 1] = sending.frame
    <3>1. g \in Seq(Frame) /\ g # <<>>
      BY <2>1
    <3>2. QED
      BY <2>1, <3>1, Grown
  <2>3. ring' = g \/ ring' = Tail(g)
    BY <1>3 DEF Send, Stored
  <2> HIDE DEF g
  <2>4. \A i \in DOMAIN Tail(g) : i + 1 \in DOMAIN g /\ Tail(g)[i] = g[i + 1]
    BY <2>2, Shrunk
  <2>5. \E i \in DOMAIN g : ring'[k] = g[i]
    BY <2>3, <2>4
  <2>6. QED
    BY <1>3, <2>2, <2>5
<1>4. ASSUME NEW t \in Tabs, AutoResumeFromHello(t) PROVE Goal
  BY <1>4, Answer
<1>5. QED
  BY <1>1, <1>2, <1>3, <1>4
  DEF Next, vars, memVars, GatewayStep, TabStep, SendMessage, CommitMessage, CommitFails, StartTurn, EndTurn,
      Emit, SkipPoisoned, AllocateFrameSeq, AppendTape, AppendFails, SendHello, Connect, Foreground,
      IgnoreHello, ReceiveFrame, HandleResumeFailed, Disconnect, Reset, Restart, BeginNumbering

(* Where the messages to a tab come from. *)
LEMMA WireMoves ==
  ASSUME Typed, [Next]_vars, NEW t \in Tabs, NEW k \in DOMAIN wire'[t]
  PROVE  \/ \E j \in DOMAIN wire[t] : wire'[t][k] = wire[t][j]
         \/ Send /\ wire'[t][k] = Shown(sending.frame)
         \/ wire'[t][k] = Failed(lastSeq)
         \/ \E i \in DOMAIN ring : wire'[t][k] = Shown(ring[i])
<1> DEFINE Goal == \/ \E j \in DOMAIN wire[t] : wire'[t][k] = wire[t][j]
                   \/ Send /\ wire'[t][k] = Shown(sending.frame)
                   \/ wire'[t][k] = Failed(lastSeq)
                   \/ \E i \in DOMAIN ring : wire'[t][k] = Shown(ring[i])
<1>1. wire \in [Tabs -> Seq(Message)] /\ wire[t] \in Seq(Message)
  BY DEF Typed, TabsTyped
<1>2. CASE wire'[t] = wire[t]
  BY <1>2
<1>3. CASE wire'[t] = <<>>
  BY <1>3
<1>4. CASE AutoResumeFromHello(t)
  <2> DEFINE r == Replay(ring', hello[t])
  <2>1. /\ r \in Seq(Message) /\ wire'[t] = wire[t] \o r
        /\ \A j \in DOMAIN r : r[j] = Failed(lastSeq) \/ \E i \in DOMAIN ring : r[j] = Shown(ring[i])
    BY <1>4, Answer
  <2> HIDE DEF r
  <2>2. \/ k \in DOMAIN wire[t] /\ wire'[t][k] = wire[t][k]
        \/ \E j \in DOMAIN r : wire'[t][k] = r[j]
    BY <1>1, <2>1, Joined
  <2>3. QED
    BY <2>1, <2>2
<1>5. ASSUME NEW u \in Tabs, u # t, AutoResumeFromHello(u) PROVE Goal
  BY <1>2, <1>5, Answer
<1>6. CASE Send
  <2>1. wire'[t] = wire[t] \/ wire'[t] = Append(wire[t], Shown(sending.frame))
    BY <1>6 DEF Send
  <2> DEFINE m == Shown(sending.frame)
             g == Append(wire[t], m)
  <2>2. \A j \in DOMAIN g : (j \in DOMAIN wire[t] /\ g[j] = wire[t][j]) \/ g[j] = m
    <3> HIDE DEF m
    <3>1. QED
      BY <1>1, Grown
  <2>3. wire'[t] = wire[t] \/ wire'[t] = g
    BY <2>1
  <2> HIDE DEF g
  <2>4. QED
    BY <1>6, <2>2, <2>3
<1>7. ASSUME NEW u \in Tabs, ReceiveFrame(u) \/ HandleResumeFailed(u) PROVE Goal
  <2>1. wire[u] # <<>> /\ wire' = [wire EXCEPT ![u] = Tail(@)]
    BY <1>7 DEF ReceiveFrame, HandleResumeFailed, Incoming
  <2>2. CASE u = t
    <3>1. wire'[t] = Tail(wire[t]) /\ wire[t] # <<>>
      BY <1>1, <2>1, <2>2
    <3>2. k + 1 \in DOMAIN wire[t] /\ Tail(wire[t])[k] = wire[t][k + 1]
      BY <1>1, <3>1, Shrunk
    <3>3. QED
      BY <3>1, <3>2
  <2>3. CASE u # t
    BY <1>1, <1>2, <2>1, <2>3
  <2>4. QED
    BY <2>2, <2>3
<1>8. ASSUME NEW u \in Tabs, Disconnect(u) PROVE Goal
  BY <1>1, <1>2, <1>3, <1>8 DEF Disconnect
<1>9. CASE Restart
  BY <1>3, <1>9 DEF Restart
<1>10. QED
  BY <1>2, <1>4, <1>5, <1>6, <1>7, <1>8, <1>9
  DEF Next, vars, tabVars, GatewayStep, TabStep, SendMessage, CommitMessage, CommitFails, StartTurn, EndTurn,
      Emit, SkipPoisoned, AllocateFrameSeq, AppendTape, AppendFails, SendHello, Connect, Foreground,
      IgnoreHello, Reset

(* Every frame is one that was made, and has a number that was given out. *)
LEMMA KnownStep ==
  ASSUME Typed, Known, Chained, Chained', Typed', [Next]_vars
  PROVE  Known'
<1>1. /\ LineTyped /\ TabsTyped /\ RingTyped /\ LineTyped' /\ turn \in Nat /\ lastSeq \in 0..MaxFrames
      /\ lastSeq' \in 0..MaxFrames /\ wire \in [Tabs -> Seq(Message)] /\ MaxFrames \in Nat
      /\ applied \in [Tabs -> Seq(Ids)]
  <2>1. LineTyped /\ TabsTyped /\ RingTyped /\ LineTyped' /\ turn \in Nat /\ MaxFrames \in Nat
    BY Names DEF Typed, CountsTyped
  <2>2. /\ lastSeq \in Nat /\ Len(made) \in Nat /\ lastSeq <= Len(made) /\ Len(made) <= MaxFrames
        /\ lastSeq' \in Nat /\ Len(made') \in Nat /\ lastSeq' <= Len(made') /\ Len(made') <= MaxFrames
    BY <2>1 DEF LineTyped, Chained
  <2>3. QED
    BY SMTT(30), <2>1, <2>2 DEF TabsTyped, LineTyped
<1>2. Ids \subseteq Ids' /\ \A f : Of(f) => Of(f)'
  BY <1>1, StaysKnown
<1> DEFINE Sent(m) == (\E f \in Frame : Of(f) /\ m = Shown(f)) \/ \E n \in 0..MaxFrames : m = Failed(n)
           Sending == sending # None => /\ Of(sending.frame) /\ sending.taped \in BOOLEAN
                                        /\ sending \in [frame : Frame, taped : BOOLEAN]
           Rings == \A k \in DOMAIN ring : Of(ring[k])
           Stores == \A f \in numbered : Of(f)
           Wires == \A t \in Tabs : \A k \in DOMAIN wire[t] : Sent(wire[t][k])
           Processed == \A t \in Tabs : \A k \in DOMAIN applied[t] : applied[t][k] \in Ids
<1>3. Sending /\ Rings /\ Stores /\ Wires /\ Processed
  BY DEF Known
<1>4. \A m : Sent(m) => Sent(m)'
  BY <1>2
<1>5. Sending'
  <2>1. CASE UNCHANGED sending
    BY <1>2, <1>3, <2>1
  <2>2. CASE sending' = None
    BY <2>2
  <2>3. CASE AllocateFrameSeq
    <3>1. /\ chain \in Seq({Commit} \cup {Deliver(i) : i \in Ids}) /\ chain # <<>> /\ Head(chain) # Commit
          /\ sending' = [frame |-> [seq |-> lastSeq + 1, id |-> Head(chain).id], taped |-> FALSE]
          /\ lastSeq' = lastSeq + 1
      BY <1>1, <2>3 DEF AllocateFrameSeq, AtDelivery, LineTyped
    <3>2. Head(chain).id \in Ids /\ Head(chain).id \in Nat
      BY <1>1, <3>1, Shrunk, Operations
    <3>3. lastSeq + 1 \in Seqs /\ lastSeq + 1 \in Nat
      BY <1>1, <3>1 DEF Seqs
    <3>4. [seq |-> lastSeq + 1, id |-> Head(chain).id] \in Frame
      BY <3>2, <3>3 DEF Frame
    <3>5. Of([seq |-> lastSeq + 1, id |-> Head(chain).id])
      BY <3>2, <3>3, <3>4 DEF Of
    <3>6. sending' \in [frame : Frame, taped : BOOLEAN] /\ sending'.taped \in BOOLEAN
      BY <3>1, <3>4
    <3>7. QED
      BY <1>2, <3>1, <3>5, <3>6
  <2>4. CASE AppendTape
    <3>1. /\ Of(sending.frame) /\ sending' = [sending EXCEPT !.taped = TRUE]
          /\ sending \in [frame : Frame, taped : BOOLEAN]
      BY <1>3, <2>4 DEF AppendTape, Untaped
    <3>2. /\ sending' \in [frame : Frame, taped : BOOLEAN] /\ sending'.taped \in BOOLEAN
          /\ sending'.frame = sending.frame
      BY <3>1
    <3>3. QED
      BY <1>2, <3>1, <3>2
  <2>5. QED
    BY <2>1, <2>2, <2>3, <2>4
    DEF Next, vars, memVars, GatewayStep, TabStep, SendMessage, CommitMessage, CommitFails,
        StartTurn, EndTurn, Emit, SkipPoisoned, AppendFails, Send, SendHello, Connect, Foreground,
        AutoResumeFromHello, IgnoreHello, ReceiveFrame, HandleResumeFailed, Disconnect, Reset, Restart
<1>6. Rings'
  <2>1. Send => Of(sending.frame)
    BY <1>3 DEF Send
  <2>2. QED
    BY <1>2, <1>3, <2>1, RingMoves
<1>7. Stores'
  <2>1. CASE UNCHANGED numbered
    BY <1>2, <1>3, <2>1
  <2>2. CASE numbered' = {}
    BY <2>2
  <2>3. CASE Send
    BY <1>2, <1>3, <2>3 DEF Send
  <2>4. QED
    BY <2>1, <2>2, <2>3
    DEF Next, vars, memVars, histVars, GatewayStep, TabStep, SendMessage, CommitMessage, CommitFails,
        StartTurn, EndTurn, Emit, SkipPoisoned, AllocateFrameSeq, AppendTape, AppendFails, SendHello, Connect,
        Foreground, AutoResumeFromHello, IgnoreHello, ReceiveFrame, HandleResumeFailed, Disconnect, Reset,
        Restart, BeginNumbering
<1>8. Wires'
  <2>1. Send => Of(sending.frame) /\ sending.frame \in Frame
    BY <1>3 DEF Send, Of
  <2>2. \A j \in DOMAIN ring : Of(ring[j]) /\ ring[j] \in Frame
    BY <1>3 DEF Of
  <2>3. Sent(Failed(lastSeq)) /\ \A f \in Frame : Of(f) => Sent(Shown(f))
    BY <1>1
  <2>4. \A t \in Tabs : \A k \in DOMAIN wire'[t] : Sent(wire'[t][k])
    <3> HIDE DEF Sent
    <3> TAKE t \in Tabs
    <3> TAKE k \in DOMAIN wire'[t]
    <3>1. QED
      BY <1>3, <2>1, <2>2, <2>3, WireMoves
  <2>5. QED
    BY <1>4, <2>4
<1>9. Processed'
  BY <1>1 DEF LineTyped
<1>10. QED
  BY <1>5, <1>6, <1>7, <1>8, <1>9 DEF Known

(* Only registered tabs have a wire, and only their cursors move. *)
LEMMA WiredStep ==
  ASSUME Typed, Wired, [Next]_vars
  PROVE  Wired'
<1>1. /\ conn \in [Tabs -> {"down", "open", "registered"}] /\ hello \in [Tabs -> {None} \cup 0..MaxFrames]
      /\ cursor \in [Tabs -> 0..MaxFrames] /\ wire \in [Tabs -> Seq(Message)]
  BY DEF Typed, TabsTyped
<1>2. CASE UNCHANGED <<conn, hello, cursor, wire>>
  BY <1>2 DEF Wired
<1>3. ASSUME NEW t \in Tabs, conn' = [conn EXCEPT ![t] = "registered"], UNCHANGED cursor,
             \A u \in Tabs : u # t => wire'[u] = wire[u] /\ hello'[u] = hello[u]
      PROVE  Wired'
  BY <1>1, <1>3 DEF Wired
<1>4. ASSUME NEW t \in Tabs, SendMessage(t) PROVE Wired'
  BY <1>3, <1>4 DEF SendMessage
<1>5. ASSUME NEW t \in Tabs, AutoResumeFromHello(t) PROVE Wired'
  <2>1. /\ conn' = [conn EXCEPT ![t] = "registered"] /\ hello' = [hello EXCEPT ![t] = None]
        /\ UNCHANGED cursor
    BY <1>5 DEF AutoResumeFromHello
  <2>2. QED
    BY <1>1, <1>3, <1>5, <2>1, Answer
<1>6. ASSUME NEW t \in Tabs, Connect(t) \/ Foreground(t) PROVE Wired'
  <2>1. /\ hello' = [hello EXCEPT ![t] = cursor[t]] /\ UNCHANGED <<wire, cursor>>
        /\ conn' = conn \/ (conn' = [conn EXCEPT ![t] = "open"] /\ conn[t] = "down")
    BY <1>6 DEF Connect, Foreground, SendHello
  <2>2. QED
    BY <1>1, <2>1 DEF Wired
<1>7. ASSUME NEW t \in Tabs, IgnoreHello(t) PROVE Wired'
  BY <1>1, <1>7 DEF IgnoreHello, Wired
<1>8. ASSUME NEW t \in Tabs, ReceiveFrame(t) \/ HandleResumeFailed(t) PROVE Wired'
  <2>1. /\ UNCHANGED <<conn, hello>> /\ wire[t] # <<>> /\ wire' = [wire EXCEPT ![t] = Tail(@)]
        /\ \E n : cursor' = cursor \/ cursor' = [cursor EXCEPT ![t] = n]
    BY <1>8 DEF ReceiveFrame, HandleResumeFailed, Incoming
  <2>2. conn[t] = "registered"
    BY <2>1 DEF Wired
  <2>3. \A u \in Tabs : u # t => cursor'[u] = cursor[u] /\ wire'[u] = wire[u]
    BY <1>1, <2>1
  <2>4. QED
    BY <2>1, <2>2, <2>3 DEF Wired
<1>9. ASSUME NEW t \in Tabs, Disconnect(t) PROVE Wired'
  BY <1>1, <1>9 DEF Disconnect, Wired
<1>10. CASE Send
  <2>1. UNCHANGED <<conn, hello, cursor>> /\ \A t \in Tabs : wire'[t] = wire[t] \/ conn[t] = "registered"
    BY <1>10 DEF Send
  <2>2. QED
    BY <2>1 DEF Wired
<1>11. CASE Restart
  BY <1>11 DEF Restart, Wired
<1>12. QED
  BY <1>2, <1>4, <1>5, <1>6, <1>7, <1>8, <1>9, <1>10, <1>11
  DEF Next, vars, tabVars, GatewayStep, TabStep, CommitMessage, CommitFails, StartTurn, EndTurn, Emit,
      SkipPoisoned, AllocateFrameSeq, AppendTape, AppendFails, Reset

--------------------------------------------------------------------------------
(* The tape comes first. *)

(* Nobody has processed anything that was not sent to it. *)
LEMMA AppliedMoves ==
  ASSUME Typed, [Next]_vars, NEW t \in Tabs, NEW k \in DOMAIN applied'[t]
  PROVE  \/ k \in DOMAIN applied[t] /\ applied'[t][k] = applied[t][k]
         \/ /\ wire[t] # <<>> /\ wire[t][1].kind = "frame" /\ 1 \in DOMAIN wire[t]
            /\ applied'[t][k] = wire[t][1].id /\ wire[t][1].seq > cursor[t]
            /\ k = Len(applied[t]) + 1
<1>1. /\ wire \in [Tabs -> Seq(Message)] /\ wire[t] \in Seq(Message)
      /\ applied \in [Tabs -> Seq(Ids)] /\ applied[t] \in Seq(Ids)
      /\ cursor[t] \in Nat
  BY Names DEF Typed, TabsTyped, LineTyped
<1> DEFINE Goal == \/ k \in DOMAIN applied[t] /\ applied'[t][k] = applied[t][k]
                   \/ /\ wire[t] # <<>> /\ wire[t][1].kind = "frame" /\ 1 \in DOMAIN wire[t]
                      /\ applied'[t][k] = wire[t][1].id /\ wire[t][1].seq > cursor[t]
                      /\ k = Len(applied[t]) + 1
<1>2. CASE applied'[t] = applied[t]
  BY <1>2
<1>3. ASSUME NEW u \in Tabs, ReceiveFrame(u) PROVE Goal
  <2>1. \/ applied' = applied
        \/ ~ Stale(u, Head(wire[u])) /\ applied' = [applied EXCEPT ![u] = Append(@, Head(wire[u]).id)]
    BY <1>3 DEF ReceiveFrame
  <2>2. CASE applied' = applied \/ u # t
    BY <1>1, <1>2, <2>1, <2>2
  <2>3. CASE u = t /\ applied' # applied
    <3>1. wire[t] # <<>> /\ Head(wire[t]).kind = "frame"
      BY <1>3, <2>3 DEF ReceiveFrame, Incoming
    <3>2. Head(wire[t]) = wire[t][1] /\ 1 \in DOMAIN wire[t] /\ wire[t][1].seq \in Nat
      <4>1. Head(wire[t]) = wire[t][1] /\ 1 \in DOMAIN wire[t] /\ wire[t][1] \in Message
        BY <1>1, <3>1, Shrunk
      <4>2. QED
        BY <4>1 DEF Message
    <3>3. wire[t][1].seq > cursor[t]
      BY <1>1, <2>1, <2>3, <3>2 DEF Stale
    <3>4. applied'[t] = Append(applied[t], wire[t][1].id)
      BY <1>1, <2>1, <2>3, <3>2
    <3>5. \/ k \in DOMAIN applied[t] /\ applied'[t][k] = applied[t][k]
          \/ k = Len(applied[t]) + 1 /\ applied'[t][k] = wire[t][1].id
      <4> DEFINE i == wire[t][1].id
                 g == Append(applied[t], i)
      <4>1. \A j \in DOMAIN g : \/ j \in DOMAIN applied[t] /\ g[j] = applied[t][j]
                                \/ j = Len(applied[t]) + 1 /\ g[j] = i
        <5> DEFINE s == applied[t]
        <5>1. s \in Seq(Ids)
          BY <1>1
        <5> HIDE DEF i, s
        <5>2. \A j \in DOMAIN Append(s, i) : \/ j \in DOMAIN s /\ Append(s, i)[j] = s[j]
                                             \/ j = Len(s) + 1 /\ Append(s, i)[j] = i
          BY <5>1, Grown
        <5>3. QED
          BY <5>2 DEF s
      <4>2. applied'[t] = g
        BY <3>4
      <4> HIDE DEF g
      <4>3. QED
        BY <4>1, <4>2
    <3>6. QED
      BY <3>1, <3>2, <3>3, <3>5
  <2>4. QED
    BY <2>2, <2>3
<1>4. QED
  BY <1>2, <1>3
  DEF Next, vars, histVars, GatewayStep, TabStep, SendMessage, CommitMessage, CommitFails, StartTurn, EndTurn,
      Emit, SkipPoisoned, AllocateFrameSeq, AppendTape, AppendFails, Send, SendHello, Connect, Foreground,
      AutoResumeFromHello, IgnoreHello, HandleResumeFailed, Disconnect, Reset, Restart

(* Where the frames of a tape come from. *)
LEMMA TapeMoves ==
  ASSUME Typed, [Next]_vars
  PROVE  /\ AppendTape \/ UNCHANGED tape
         /\ AppendTape =>
            /\ tape \in Seq(Ids) /\ tape' = Append(tape, sending.frame.id)
            /\ DOMAIN tape = 1..Len(tape) /\ Len(tape) \in Nat
            /\ \A k \in DOMAIN tape : k \in DOMAIN tape' /\ tape'[k] = tape[k]
            /\ Len(tape) + 1 \in DOMAIN tape' /\ tape'[Len(tape) + 1] = sending.frame.id
            /\ \A k \in DOMAIN tape' : k \in DOMAIN tape \/ k = Len(tape) + 1
<1>1. ASSUME AppendTape
      PROVE  /\ tape \in Seq(Ids) /\ tape' = Append(tape, sending.frame.id)
             /\ DOMAIN tape = 1..Len(tape) /\ Len(tape) \in Nat
             /\ \A k \in DOMAIN tape : k \in DOMAIN tape' /\ tape'[k] = tape[k]
             /\ Len(tape) + 1 \in DOMAIN tape' /\ tape'[Len(tape) + 1] = sending.frame.id
             /\ \A k \in DOMAIN tape' : k \in DOMAIN tape \/ k = Len(tape) + 1
  <2>1. tape \in Seq(Ids) /\ tape' = Append(tape, sending.frame.id)
    BY <1>1 DEF AppendTape, Typed, LineTyped
  <2> DEFINE i == sending.frame.id
  <2>2. tape' = Append(tape, i)
    BY <2>1
  <2> HIDE DEF i
  <2>3. /\ DOMAIN tape = 1..Len(tape) /\ Len(tape) \in Nat
        /\ \A k \in DOMAIN tape : k \in DOMAIN tape' /\ tape'[k] = tape[k]
        /\ Len(tape) + 1 \in DOMAIN tape' /\ tape'[Len(tape) + 1] = i
        /\ \A k \in DOMAIN tape' : k \in DOMAIN tape \/ k = Len(tape) + 1
    BY <2>1, <2>2, Grown
  <2>4. QED
    BY <2>1, <2>3 DEF i
<1>2. QED
  BY <1>1
  DEF Next, vars, GatewayStep, TabStep, SendMessage, CommitMessage, CommitFails, StartTurn, EndTurn,
      Emit, SkipPoisoned, AllocateFrameSeq, AppendFails, Send, SendHello, Connect, Foreground, ReceiveFrame,
      AutoResumeFromHello, IgnoreHello, HandleResumeFailed, Disconnect, Reset, Restart

(* What can be seen stays on the tape, and what is sent is on it. *)
LEMMA TapedStep ==
  ASSUME Typed, Known, Taped, [Next]_vars
  PROVE  Taped'
<1>1. /\ LineTyped /\ turn \in Nat /\ lastSeq \in Nat /\ wire \in [Tabs -> Seq(Message)]
      /\ applied \in [Tabs -> Seq(Ids)]
  BY DEF Typed, CountsTyped, LineTyped, TabsTyped
<1>2. Ids \subseteq Ids' /\ \A i \in Ids : made'[i] = made[i]
  BY <1>1, StaysKnown
<1> DEFINE Still(i) == made'[i] # 0 => \E k \in DOMAIN tape' : tape'[k] = i
<1>3. \A i \in Ids : Ok(i) => Still(i)
  BY <1>2, TapeMoves DEF Ok, Durable
<1> HIDE DEF Still
<1>4. ASSUME Send PROVE Ok(sending.frame.id) /\ sending.frame.id \in Ids /\ sending.frame \in Frame
  <2>1. sending # None /\ ~ Untaped
    BY <1>4 DEF Send
  <2>2. Of(sending.frame) /\ sending.taped \in BOOLEAN
    BY <2>1 DEF Known
  <2>3. QED
    BY <2>1, <2>2 DEF Untaped, Taped, Ok, Of
<1>5. sending' # None /\ sending'.taped => Still(sending'.frame.id)
  <2>1. CASE UNCHANGED sending
    <3>1. sending # None => sending.frame.id \in Ids
      BY DEF Known, Of
    <3>2. QED
      BY <1>3, <2>1, <3>1 DEF Taped
  <2>2. CASE sending' = None
    BY <2>2
  <2>3. CASE AllocateFrameSeq
    BY <2>3 DEF AllocateFrameSeq
  <2>4. CASE AppendTape
    <3>1. sending'.frame = sending.frame /\ sending # None
      BY <2>4 DEF AppendTape, Untaped
    <3>2. QED
      BY <2>4, <3>1, TapeMoves DEF Still
  <2>5. QED
    BY <2>1, <2>2, <2>3, <2>4
    DEF Next, vars, memVars, GatewayStep, TabStep, SendMessage, CommitMessage, CommitFails,
        StartTurn, EndTurn, Emit, SkipPoisoned, AppendFails, Send, SendHello, Connect, Foreground,
        AutoResumeFromHello, IgnoreHello, ReceiveFrame, HandleResumeFailed, Disconnect, Reset, Restart
<1>6. \A k \in DOMAIN ring' : Still(ring'[k].id)
  <2>1. ASSUME NEW k \in DOMAIN ring' PROVE Still(ring'[k].id)
    <3>1. \A j \in DOMAIN ring : Ok(ring[j].id) /\ ring[j].id \in Ids
      BY DEF Taped, Known, Of
    <3>2. Ok(ring'[k].id) /\ ring'[k].id \in Ids
      BY <1>4, <3>1, RingMoves
    <3>3. QED
      BY <1>3, <3>2
  <2>2. QED
    BY <2>1
<1>7. ASSUME NEW t \in Tabs PROVE \A k \in DOMAIN wire'[t] : wire'[t][k].kind = "frame" => Still(wire'[t][k].id)
  <2> SUFFICES ASSUME NEW k \in DOMAIN wire'[t], wire'[t][k].kind = "frame" PROVE Still(wire'[t][k].id)
    OBVIOUS
  <2>1. CASE \E j \in DOMAIN wire[t] : wire'[t][k] = wire[t][j]
    <3>1. PICK j \in DOMAIN wire[t] : wire'[t][k] = wire[t][j]
      BY <2>1
    <3>2. PICK f \in Frame : Of(f) /\ wire[t][j] = Shown(f)
      BY <3>1, Messages, Names DEF Known
    <3>3. Ok(wire[t][j].id) /\ wire[t][j].id \in Ids
      BY <3>1, <3>2, Messages DEF Taped, Of
    <3>4. QED
      BY <1>3, <3>1, <3>3
  <2>2. CASE Send /\ wire'[t][k] = Shown(sending.frame)
    BY <1>3, <1>4, <2>2, Messages
  <2>3. CASE wire'[t][k] = Failed(lastSeq)
    BY <1>1, <2>3, Messages
  <2>4. CASE \E i \in DOMAIN ring : wire'[t][k] = Shown(ring[i])
    <3>1. PICK i \in DOMAIN ring : wire'[t][k] = Shown(ring[i])
      BY <2>4
    <3>2. ring[i] \in Frame /\ ring[i].id \in Ids /\ Ok(ring[i].id)
      BY DEF Taped, Known, Of
    <3>3. QED
      BY <1>3, <3>1, <3>2, Messages
  <2>5. QED
    BY <2>1, <2>2, <2>3, <2>4, WireMoves
<1>8. ASSUME NEW t \in Tabs PROVE \A k \in DOMAIN applied'[t] : Still(applied'[t][k])
  <2> SUFFICES ASSUME NEW k \in DOMAIN applied'[t] PROVE Still(applied'[t][k])
    OBVIOUS
  <2>1. CASE k \in DOMAIN applied[t] /\ applied'[t][k] = applied[t][k]
    <3>1. applied[t][k] \in Ids /\ Ok(applied[t][k])
      BY <2>1 DEF Known, Taped
    <3>2. QED
      BY <1>3, <2>1, <3>1
  <2>2. CASE 1 \in DOMAIN wire[t] /\ wire[t][1].kind = "frame" /\ applied'[t][k] = wire[t][1].id
    <3>1. PICK f \in Frame : Of(f) /\ wire[t][1] = Shown(f)
      BY <2>2, Messages, Names DEF Known
    <3>2. Ok(wire[t][1].id) /\ wire[t][1].id \in Ids
      BY <2>2, <3>1, Messages DEF Taped, Of
    <3>3. QED
      BY <1>3, <2>2, <3>2
  <2>3. QED
    BY <2>1, <2>2, AppliedMoves
<1>9. QED
  BY <1>5, <1>6, <1>7, <1>8 DEF Taped, Ok, Durable, Still

--------------------------------------------------------------------------------
(* As long as nobody resets the session, later frames have higher numbers. *)

Resets == \E t \in Tabs : Reset(t)

(* What is compared are numbers. *)
LEMMA Numbers ==
  ASSUME Typed, Known
  PROVE  /\ lastSeq \in Nat /\ Len(made) \in Nat
         /\ \A f \in numbered : f \in Frame /\ f.seq \in Nat /\ f.seq # 0 /\ f.id \in Nat /\ f.id <= Len(made)
         /\ sending # None => /\ sending.frame \in Frame /\ sending.frame.seq \in Nat /\ sending.frame.seq # 0
                              /\ sending.frame.id \in Nat /\ sending.frame.id <= Len(made)
         /\ \A k \in DOMAIN tape : tape[k] \in Nat /\ tape[k] <= Len(made)
         /\ \A t \in Tabs : \A k \in DOMAIN applied[t] : applied[t][k] \in Nat /\ applied[t][k] <= Len(made)
         /\ \A k \in DOMAIN chain : chain[k] # Commit => chain[k].id \in Nat /\ chain[k].id <= Len(made)
<1>1. LineTyped
  BY DEF Typed
<1>2. Ids = 1..Len(made) /\ Len(made) \in Nat /\ lastSeq \in Nat
      /\ \A k \in DOMAIN chain : chain[k] # Commit => chain[k].id \in Ids
  BY <1>1, Operations
<1>3. \A f : Of(f) => /\ f \in Frame /\ f.seq \in Nat /\ f.seq # 0 /\ f.id \in Nat /\ f.id <= Len(made)
  BY <1>2, Names DEF Of, Seqs
<1>4. \A k \in DOMAIN tape : tape[k] \in Ids
  BY <1>1 DEF LineTyped
<1>5. QED
  BY <1>2, <1>3, <1>4 DEF Known

(* What the chain holds after a step. *)
LEMMA ChainMoves ==
  ASSUME Typed, [Next]_vars, NEW k \in DOMAIN chain', chain'[k] # Commit
  PROVE  \/ \E j \in DOMAIN chain : /\ chain'[k] = chain[j]
                                    /\ AllocateFrameSeq => 1 \in DOMAIN chain /\ 1 < j /\ Head(chain) = chain[1]
         \/ chain'[k].id = Len(made) + 1 /\ ~ AllocateFrameSeq
<1> DEFINE Goal ==
      \/ \E j \in DOMAIN chain : /\ chain'[k] = chain[j]
                                 /\ AllocateFrameSeq => 1 \in DOMAIN chain /\ 1 < j /\ Head(chain) = chain[1]
      \/ chain'[k].id = Len(made) + 1 /\ ~ AllocateFrameSeq
<1>1. chain \in Seq({Commit} \cup {Deliver(i) : i \in Ids}) /\ LineTyped /\ turn \in Nat
  BY DEF Typed, LineTyped, CountsTyped
<1>2. CASE chain # <<>> /\ chain' = Tail(chain)
  <2>1. /\ \A j \in DOMAIN chain' : j + 1 \in DOMAIN chain /\ chain'[j] = chain[j + 1]
        /\ DOMAIN chain' = 1..(Len(chain) - 1) /\ Len(chain) \in Nat /\ 1 \in DOMAIN chain /\ Head(chain) = chain[1]
    BY <1>1, <1>2, Shrunk
  <2>2. k + 1 \in DOMAIN chain /\ 1 < k + 1
    BY <2>1
  <2>3. QED
    BY <2>1, <2>2
<1>3. AllocateFrameSeq => chain # <<>> /\ chain' = Tail(chain)
  BY DEF AllocateFrameSeq, AtDelivery
<1>4. CASE ~ AllocateFrameSeq /\ chain' = chain
  BY <1>4
<1>5. ASSUME ~ AllocateFrameSeq, NEW m, chain' = Append(chain, m),
             m = Commit \/ m = Deliver(Len(made) + 1)
      PROVE  Goal
  <2>1. \/ k \in DOMAIN chain /\ chain'[k] = chain[k]
        \/ chain'[k] = m
    BY <1>1, <1>5, Grown
  <2>2. QED
    BY <1>5, <2>1, Names
<1>6. CASE chain' = <<>>
  BY <1>6
<1>7. QED
  BY <1>2, <1>3, <1>4, <1>5, <1>6
  DEF Next, vars, memVars, GatewayStep, TabStep, HandOver, SendMessage, CommitMessage, CommitFails, AtCommit,
      AtDelivery, StartTurn, EndTurn, Emit, SkipPoisoned, AppendTape, AppendFails, Send, SendHello, Connect,
      Foreground, AutoResumeFromHello, IgnoreHello, ReceiveFrame, HandleResumeFailed, Disconnect, Reset, Restart

(* What is numbered after a step. *)
LEMMA NumberedMoves ==
  ASSUME [Next]_vars, ~ Resets
  PROVE  \/ UNCHANGED <<numbered, lastSeq, era>> /\ ~ AllocateFrameSeq /\ ~ Send /\ ~ Restart
         \/ AllocateFrameSeq /\ UNCHANGED <<numbered, era>> /\ lastSeq' = lastSeq + 1
         \/ /\ Send /\ UNCHANGED <<lastSeq, era>> /\ sending # None
            /\ numbered' = numbered \cup {sending.frame} /\ sending' = None
         \/ Restart /\ numbered' = {} /\ lastSeq' = 0 /\ era' = era + 1
<1>1. AllocateFrameSeq => UNCHANGED <<numbered, era>> /\ lastSeq' = lastSeq + 1
  BY DEF AllocateFrameSeq, histVars
<1>2. Send => /\ UNCHANGED <<lastSeq, era>> /\ sending # None
              /\ numbered' = numbered \cup {sending.frame} /\ sending' = None
  BY DEF Send
<1>3. Restart => numbered' = {} /\ lastSeq' = 0 /\ era' = era + 1
  BY DEF Restart, BeginNumbering
<1>4. QED
  BY ZenonT(40), <1>1, <1>2, <1>3
  DEF Next, vars, memVars, histVars, GatewayStep, TabStep, SendMessage, CommitMessage, CommitFails, Resets,
      StartTurn, EndTurn, Emit, SkipPoisoned, AppendTape, AppendFails, SendHello, Connect,
      Foreground, AutoResumeFromHello, IgnoreHello, ReceiveFrame, HandleResumeFailed, Disconnect

(* Which frame is being sent after a step. *)
LEMMA SendingMoves ==
  ASSUME Known, [Next]_vars, sending' # None
  PROVE  \/ /\ AllocateFrameSeq /\ sending = None /\ chain # <<>> /\ Head(chain) # Commit
            /\ sending'.frame = [seq |-> lastSeq + 1, id |-> Head(chain).id]
         \/ /\ sending # None /\ sending'.frame = sending.frame /\ UNCHANGED tape /\ sending' = sending
            /\ ~ AllocateFrameSeq /\ ~ Send /\ ~ Restart
         \/ AppendTape /\ sending # None /\ sending'.frame = sending.frame /\ sending'.taped
            /\ ~ AllocateFrameSeq /\ ~ Send /\ ~ Restart
<1>1. AllocateFrameSeq => /\ sending = None /\ chain # <<>> /\ Head(chain) # Commit
                          /\ sending'.frame = [seq |-> lastSeq + 1, id |-> Head(chain).id]
  BY DEF AllocateFrameSeq, AtDelivery
<1>2. ~ Send /\ ~ Restart
  BY DEF Send, Restart
<1>3. ASSUME AppendTape
      PROVE  /\ sending # None /\ sending'.frame = sending.frame /\ sending'.taped /\ ~ AllocateFrameSeq
  <2>1. sending # None /\ sending' = [sending EXCEPT !.taped = TRUE]
    BY <1>3 DEF AppendTape, Untaped
  <2>2. sending \in [frame : Frame, taped : BOOLEAN]
    BY <2>1 DEF Known
  <2>3. sending'.frame = sending.frame /\ sending'.taped = TRUE
    BY <2>1, <2>2
  <2>4. QED
    BY <2>1, <2>3 DEF AllocateFrameSeq, AtDelivery
<1>4. QED
  BY ZenonT(40), <1>1, <1>2, <1>3
  DEF Next, vars, memVars, histVars, GatewayStep, TabStep, SendMessage, CommitMessage, CommitFails,
      StartTurn, EndTurn, Emit, SkipPoisoned, AppendFails, SendHello, Connect, Reset,
      Foreground, AutoResumeFromHello, IgnoreHello, ReceiveFrame, HandleResumeFailed, Disconnect

(* A frame that a tab processes is one of those that are numbered. *)
LEMMA Processes ==
  ASSUME Typed, Known, Unreset, [Next]_vars, NEW t \in Tabs, NEW k \in DOMAIN applied'[t]
  PROVE  \/ k \in DOMAIN applied[t] /\ applied'[t][k] = applied[t][k]
         \/ \E f \in numbered : /\ applied'[t][k] = f.id /\ f.seq > cursor[t] /\ k = Len(applied[t]) + 1
                              /\ 1 \in DOMAIN wire[t] /\ wire[t][1] = Shown(f)
<1>1. CASE k \in DOMAIN applied[t] /\ applied'[t][k] = applied[t][k]
  BY <1>1
<1>2. CASE /\ wire[t][1].kind = "frame" /\ 1 \in DOMAIN wire[t]
           /\ applied'[t][k] = wire[t][1].id /\ wire[t][1].seq > cursor[t]
           /\ k = Len(applied[t]) + 1
  <2>1. PICK f \in numbered : wire[t][1] = Shown(f)
    BY <1>2 DEF Unreset, ReadBy
  <2>2. f \in Frame
    BY Numbers
  <2>3. QED
    BY <1>2, <2>1, <2>2, Messages
<1>3. QED
  BY <1>1, <1>2, AppliedMoves

(* Numbers rise with the frames they are given to. *)
LEMMA InNumbersStep ==
  ASSUME Typed, Known, Unreset, [Next]_vars, ~ Resets
  PROVE  InNumbers'
<1>1. InNumbers /\ InHand
  BY DEF Unreset, Rising
<1>2. CASE UNCHANGED <<numbered, lastSeq>>
  BY <1>1, <1>2 DEF InNumbers
<1>3. CASE UNCHANGED numbered /\ lastSeq' = lastSeq + 1
  BY <1>1, <1>3, Numbers DEF InNumbers
<1>4. CASE UNCHANGED lastSeq /\ sending # None /\ numbered' = numbered \cup {sending.frame}
  <2>1. /\ sending.frame.seq = lastSeq /\ \A f \in numbered : f.seq < lastSeq /\ f.id < sending.frame.id
        /\ lastSeq \in Nat /\ \A f \in numbered : f.seq \in Nat /\ f.id \in Nat
        /\ sending.frame.id \in Nat
    BY <1>1, <1>4, Numbers DEF InHand
  <2>2. \A f \in numbered' : f \in numbered \/ f = sending.frame
    BY <1>4
  <2>3. \A f \in numbered' : f.seq <= lastSeq
    BY <2>1, <2>2
  <2>4. ASSUME NEW f \in numbered', NEW g \in numbered'
        PROVE  (f.seq < g.seq => f.id < g.id) /\ (f.seq = g.seq => f = g)
    <3>1. CASE f \in numbered /\ g \in numbered
      BY <1>1, <3>1 DEF InNumbers
    <3>2. CASE f \in numbered /\ g = sending.frame
      BY <2>1, <3>2
    <3>3. CASE f = sending.frame /\ g \in numbered
      BY <2>1, <3>3
    <3>4. CASE f = sending.frame /\ g = sending.frame
      BY <2>1, <3>4
    <3>5. QED
      BY <2>2, <3>1, <3>2, <3>3, <3>4
  <2>5. QED
    BY <1>4, <2>3, <2>4 DEF InNumbers
<1>5. CASE numbered' = {}
  BY <1>5 DEF InNumbers
<1>6. QED
  BY <1>2, <1>3, <1>4, <1>5, NumberedMoves

(* The frame that is being sent is later than all that were sent before. *)
LEMMA InHandStep ==
  ASSUME Typed, Known, Unreset, [Next]_vars, ~ Resets
  PROVE  InHand'
<1> SUFFICES ASSUME sending' # None PROVE InHand'
  BY DEF InHand
<1>1. InNumbers /\ InHand /\ OnChain
  BY DEF Unreset, Rising
<1>2. CASE /\ AllocateFrameSeq /\ chain # <<>> /\ Head(chain) # Commit
           /\ sending'.frame = [seq |-> lastSeq + 1, id |-> Head(chain).id]
  <2>1. UNCHANGED <<numbered, tape, applied>> /\ lastSeq' = lastSeq + 1
    BY <1>2 DEF AllocateFrameSeq, histVars
  <2>2. Head(chain) = chain[1] /\ 1 \in DOMAIN chain
    BY <1>2, Shrunk DEF Typed, LineTyped
  <2>3. Newer(Head(chain).id)
    BY <1>1, <1>2, <2>2 DEF OnChain
  <2>4. sending'.frame.seq = lastSeq' /\ sending'.frame.id = Head(chain).id
    BY <1>2, <2>1
  <2>5. \A f \in numbered : f.seq < lastSeq + 1
    BY <1>1, Numbers DEF InNumbers
  <2>6. QED
    BY <2>1, <2>3, <2>4, <2>5 DEF InHand, Newer
<1>3. CASE /\ sending # None /\ sending'.frame = sending.frame
           /\ (UNCHANGED tape /\ sending' = sending) \/ sending'.taped
           /\ ~ AllocateFrameSeq /\ ~ Send /\ ~ Restart
  <2>1. UNCHANGED <<numbered, lastSeq>>
    BY <1>3, NumberedMoves
  <2>2. \A t \in Tabs : \A k \in DOMAIN applied'[t] : applied'[t][k] < sending.frame.id
    BY <1>1, <1>3, Processes DEF InHand
  <2>3. ~ sending'.taped => \A k \in DOMAIN tape' : tape'[k] < sending.frame.id
    BY <1>1, <1>3 DEF InHand
  <2>4. QED
    BY <1>1, <1>3, <2>1, <2>2, <2>3 DEF InHand
<1>4. QED
  BY <1>2, <1>3, SendingMoves

(* What waits on the chain is later than all that was sent. *)
LEMMA OnChainStep ==
  ASSUME Typed, Known, Chained, Unreset, [Next]_vars, ~ Resets
  PROVE  OnChain'
<1>1. InNumbers /\ InHand /\ OnChain
  BY DEF Unreset, Rising
<1>2. ASSUME NEW k \in DOMAIN chain', chain'[k] # Commit
      PROVE  /\ \A j \in DOMAIN tape' : tape'[j] < chain'[k].id
             /\ \A f \in numbered' : f.id < chain'[k].id
             /\ \A t \in Tabs : \A j \in DOMAIN applied'[t] : applied'[t][j] < chain'[k].id
             /\ sending' # None => sending'.frame.id < chain'[k].id
  <2> DEFINE i == chain'[k].id
  <2>1. /\ \A j \in DOMAIN tape : tape[j] < i
        /\ \A f \in numbered : f.id < i
        /\ \A t \in Tabs : \A j \in DOMAIN applied[t] : applied[t][j] < i
        /\ sending # None => sending.frame.id < i
        /\ AllocateFrameSeq => (Head(chain) # Commit => Head(chain).id < i)
    <3>1. CASE \E j \in DOMAIN chain : /\ chain'[k] = chain[j]
                                       /\ AllocateFrameSeq => 1 \in DOMAIN chain /\ 1 < j /\ Head(chain) = chain[1]
      <4>1. PICK j \in DOMAIN chain : /\ chain'[k] = chain[j]
                                      /\ AllocateFrameSeq => 1 \in DOMAIN chain /\ 1 < j /\ Head(chain) = chain[1]
        BY <3>1
      <4>2. Newer(i) /\ (sending # None => sending.frame.id < i)
        BY <1>1, <1>2, <4>1 DEF OnChain
      <4>3. AllocateFrameSeq => (Head(chain) # Commit => Head(chain).id < i)
        BY <1>2, <4>1 DEF Chained
      <4>4. QED
        BY <4>2, <4>3 DEF Newer
    <3>2. CASE i = Len(made) + 1 /\ ~ AllocateFrameSeq
      <4> HIDE DEF i
      <4>1. QED
        BY <3>2, Numbers
    <3>3. QED
      BY <1>2, <3>1, <3>2, ChainMoves
  <2> HIDE DEF i
  <2>2. \A j \in DOMAIN tape' : tape'[j] < i
    <3>1. CASE UNCHANGED tape
      BY <2>1, <3>1
    <3>2. CASE AppendTape
      <4>1. sending # None
        BY <3>2 DEF AppendTape, Untaped
      <4>2. QED
        BY <2>1, <3>2, <4>1, TapeMoves
    <3>3. QED
      BY <3>1, <3>2, TapeMoves
  <2>3. \A f \in numbered' : f.id < i
    BY <2>1, NumberedMoves
  <2>4. \A t \in Tabs : \A j \in DOMAIN applied'[t] : applied'[t][j] < i
    BY <2>1, Processes
  <2>5. sending' # None => sending'.frame.id < i
    BY <2>1, SendingMoves
  <2>6. QED
    BY <2>2, <2>3, <2>4, <2>5 DEF i
<1>3. QED
  BY <1>2 DEF OnChain, Newer

(* The tape is in order. *)
LEMMA InTapeStep ==
  ASSUME Typed, Known, Unreset, [Next]_vars
  PROVE  Increasing(tape)'
<1>1. Increasing(tape) /\ InHand
  BY DEF Unreset, Rising
<1>2. CASE UNCHANGED tape
  BY <1>1, <1>2 DEF Increasing
<1>3. CASE AppendTape
  <2>1. sending # None /\ ~ sending.taped
    BY <1>3 DEF AppendTape, Untaped
  <2>2. \A k \in DOMAIN tape : tape[k] < sending.frame.id
    BY <1>1, <2>1 DEF InHand
  <2>3. ASSUME NEW k \in DOMAIN tape', NEW n \in 1..(k - 1) PROVE tape'[n] < tape'[k]
    <3>1. DOMAIN tape = 1..Len(tape) /\ Len(tape) \in Nat
      BY <1>3, TapeMoves
    <3>2. CASE k \in DOMAIN tape
      <4>1. n \in DOMAIN tape
        BY <3>1, <3>2
      <4>2. tape[n] < tape[k]
        BY <1>1, <3>2 DEF Increasing
      <4>3. QED
        BY <1>3, <3>2, <4>1, <4>2, TapeMoves
    <3>3. CASE k = Len(tape) + 1
      <4>1. n \in DOMAIN tape
        BY <3>1, <3>3
      <4>2. QED
        BY <1>3, <2>2, <3>3, <4>1, TapeMoves
    <3>4. QED
      BY <1>3, <3>2, <3>3, TapeMoves
  <2>4. QED
    BY <2>3 DEF Increasing
<1>4. QED
  BY <1>2, <1>3, TapeMoves

(* What is left of the ring when its oldest frames are gone is still the latest. *)
LEMMA LatestPart ==
  ASSUME NEW S, S \subseteq Frame, NEW s \in Seq(S), Latest(s, S), NEW n \in 0..Len(s),
         NEW r \in Seq(S), DOMAIN r = 1..(Len(s) - n), \A k \in DOMAIN r : r[k] = s[n + k]
  PROVE  Latest(r, S)
<1>1. /\ DOMAIN s = 1..Len(s) /\ Len(s) \in Nat /\ n \in Nat /\ \A k \in DOMAIN r : k \in Nat /\ n + k \in DOMAIN s
      /\ \A k \in DOMAIN s : s[k] \in S /\ s[k].seq \in Nat
  <2>1. DOMAIN s = 1..Len(s) /\ Len(s) \in Nat /\ n \in Nat /\ \A k \in DOMAIN s : s[k] \in S
    OBVIOUS
  <2>2. \A f \in S : f.seq \in Nat
    BY DEF Frame
  <2>3. QED
    BY <2>1, <2>2
<1>2. \A k \in DOMAIN r : r[k] \in S
  OBVIOUS
<1>3. Sorted(r)
  <2>1. ASSUME NEW i \in DOMAIN r, NEW j \in DOMAIN r, i < j PROVE r[i].seq < r[j].seq
    <3>1. n + i \in DOMAIN s /\ n + j \in DOMAIN s /\ n + i < n + j
      BY <1>1, <2>1
    <3>2. s[n + i].seq < s[n + j].seq
      BY <3>1 DEF Latest, Sorted
    <3>3. QED
      BY <3>2
  <2>2. QED
    BY <2>1 DEF Sorted
<1>4. ASSUME NEW f \in S, r # <<>>, r[1].seq <= f.seq PROVE \E k \in DOMAIN r : r[k] = f
  <2>1. 1 \in DOMAIN r /\ r[1] = s[n + 1] /\ n + 1 \in DOMAIN s /\ f.seq \in Nat
    <3>1. 1 \in DOMAIN r
      BY <1>4
    <3>2. f.seq \in Nat
      BY DEF Frame
    <3>3. QED
      BY <1>1, <3>1, <3>2
  <2>2. s # <<>> /\ 1 \in DOMAIN s
    BY <1>1, <2>1
  <2>3. s[1].seq <= s[n + 1].seq
    <3>1. CASE n = 0
      BY <1>1, <2>2, <3>1
    <3>2. CASE n # 0
      <4>1. 1 < n + 1
        BY <1>1, <3>2
      <4>2. s[1].seq < s[n + 1].seq
        BY <2>1, <2>2, <4>1 DEF Latest, Sorted
      <4>3. s[1].seq \in Nat /\ s[n + 1].seq \in Nat
        BY <1>1, <2>1, <2>2
      <4>4. QED
        BY <4>2, <4>3
    <3>3. QED
      BY <3>1, <3>2
  <2>4. s[1].seq <= f.seq
    <3>1. s[1].seq \in Nat /\ s[n + 1].seq \in Nat /\ s[n + 1].seq <= f.seq
      BY <1>1, <1>4, <2>1, <2>2
    <3>2. QED
      BY <2>1, <2>3, <3>1
  <2>5. PICK k \in DOMAIN s : s[k] = f
    BY <2>2, <2>4 DEF Latest
  <2>6. ~ (k < n + 1)
    <3>1. ASSUME k < n + 1 PROVE FALSE
      <4>1. s[k].seq < s[n + 1].seq
        BY <2>1, <3>1 DEF Latest, Sorted
      <4>2. QED
        BY <1>1, <1>4, <2>1, <2>5, <4>1
    <3>2. QED
      BY <3>1
  <2>7. k - n \in DOMAIN r /\ n + (k - n) = k
    BY <1>1, <2>6
  <2>8. QED
    BY <2>5, <2>7
<1>5. QED
  BY <1>2, <1>3, <1>4 DEF Latest

(* The ring has the latest frames, without a hole. *)
LEMMA InRingStep ==
  ASSUME Typed, Known, Unreset, [Next]_vars, ~ Resets
  PROVE  Latest(ring, numbered)'
<1>1. Latest(ring, numbered) /\ InNumbers /\ InHand /\ ring \in Seq(Frame)
  BY DEF Unreset, Rising, Typed, RingTyped
<1>2. numbered \subseteq Frame /\ \A f \in numbered : f.seq \in Nat
  BY Numbers
<1>3. ring \in Seq(numbered)
  <2>1. \A k \in 1..Len(ring) : ring[k] \in numbered
    BY <1>1 DEF Latest
  <2>2. QED
    BY <1>1, <2>1
<1>4. CASE UNCHANGED <<ring, numbered>>
  BY <1>1, <1>4 DEF Latest, Sorted
<1>5. CASE ring' = <<>>
  BY <1>5 DEF Latest, Sorted
<1>6. CASE Send
  <2> DEFINE e == sending.frame
             g == Append(ring, e)
  <2>1. /\ numbered' = numbered \cup {e} /\ e \in Frame /\ e.seq = lastSeq /\ lastSeq \in Nat
        /\ \A f \in numbered : f.seq < e.seq
        /\ ring' = IF Len(g) > MaxEntries THEN Tail(g) ELSE g
    BY <1>1, <1>6, Numbers DEF Send, InHand, Stored
  <2> HIDE DEF e
  <2>2. /\ DOMAIN ring = 1..Len(ring) /\ Len(ring) \in Nat /\ DOMAIN g = 1..(Len(ring) + 1)
        /\ \A k \in DOMAIN ring : k \in DOMAIN g /\ k # Len(ring) + 1 /\ g[k] = ring[k]
        /\ Len(ring) + 1 \in DOMAIN g /\ g[Len(ring) + 1] = e
        /\ \A k \in DOMAIN g : k \in DOMAIN ring \/ k = Len(ring) + 1
    BY <1>1, Grown
  <2>3. g \in Seq(numbered') /\ g # <<>> /\ Len(g) = Len(ring) + 1
    <3> DEFINE N == numbered'
    <3>1. ring \in Seq(N) /\ e \in N
      BY <1>3, <2>1
    <3> HIDE DEF N
    <3>2. Append(ring, e) \in Seq(N)
      BY <3>1
    <3>3. Len(Append(ring, e)) = Len(ring) + 1
      BY <3>1, Grown
    <3>4. g \in Seq(N) /\ Len(g) = Len(ring) + 1
      BY <3>2, <3>3 DEF g
    <3> HIDE DEF g
    <3>5. g # <<>>
      BY <2>2, <3>4
    <3>6. QED
      BY <3>4, <3>5 DEF N
  <2> HIDE DEF g
  <2>4. \A k \in DOMAIN ring : ring[k].seq < e.seq
    BY <1>1, <2>1 DEF Latest
  <2>5. Sorted(g)
    <3>1. ASSUME NEW i \in DOMAIN g, NEW j \in DOMAIN g, i < j PROVE g[i].seq < g[j].seq
      <4>1. i \in DOMAIN ring /\ g[i] = ring[i]
        BY <2>2, <3>1
      <4>2. CASE j \in DOMAIN ring
        BY <1>1, <2>2, <3>1, <4>1, <4>2 DEF Latest, Sorted
      <4>3. CASE j = Len(ring) + 1
        BY <2>2, <2>4, <4>1, <4>3
      <4>4. QED
        BY <2>2, <4>2, <4>3
    <3>2. QED
      BY <3>1 DEF Sorted
  <2>6. ASSUME NEW f \in numbered', g[1].seq <= f.seq PROVE \E k \in DOMAIN g : g[k] = f
    <3>1. CASE f = e
      BY <2>2, <3>1
    <3>2. CASE f \in numbered
      <4>1. ring # <<>>
        <5>1. ASSUME ring = <<>> PROVE FALSE
          <6>1. g[1] = e
            BY <2>2, <5>1
          <6>2. f.seq \in Nat /\ e.seq \in Nat /\ f.seq < e.seq /\ e.seq <= f.seq
            BY <1>2, <2>1, <2>6, <3>2, <6>1
          <6>3. QED
            BY <6>2
        <5>2. QED
          BY <5>1
      <4>2. 1 \in DOMAIN ring
        BY <1>1, <4>1, Shrunk
      <4>3. ring[1].seq <= f.seq
        BY <2>2, <2>6, <4>2
      <4>4. \E k \in DOMAIN ring : ring[k] = f
        BY <1>1, <3>2, <4>1, <4>3 DEF Latest
      <4>5. QED
        BY <2>2, <4>4
    <3>3. QED
      BY <2>1, <3>1, <3>2
  <2>7. Latest(g, numbered')
    <3>1. \A k \in DOMAIN g : g[k] \in numbered'
      BY <2>3
    <3>2. QED
      BY <2>5, <2>6, <3>1 DEF Latest
  <2>8. Latest(Tail(g), numbered')
    <3>1. /\ Tail(g) \in Seq(numbered') /\ DOMAIN Tail(g) = 1..(Len(g) - 1)
          /\ \A k \in DOMAIN Tail(g) : Tail(g)[k] = g[k + 1] /\ k + 1 = 1 + k
      BY <2>3, Shrunk
    <3>2. 1 \in 0..Len(g)
      BY <2>2, <2>3
    <3>3. numbered' \subseteq Frame
      BY <1>2, <2>1
    <3>4. \A k \in DOMAIN Tail(g) : Tail(g)[k] = g[1 + k]
      BY <3>1
    <3>5. QED
      BY <2>3, <2>7, <3>1, <3>2, <3>3, <3>4, LatestPart
  <2>9. Latest(ring', numbered')
    BY <2>1, <2>7, <2>8
  <2>10. QED
    BY <2>9 DEF Latest, Sorted
<1>7. ASSUME NEW t \in Tabs, AutoResumeFromHello(t) PROVE Latest(ring, numbered)'
  <2>1. PICK n \in 0..Len(ring) : ring' = SubSeq(ring, n + 1, Len(ring))
    BY <1>7, Answer
  <2>2. /\ ring' \in Seq(numbered) /\ DOMAIN ring' = 1..(Len(ring) - n)
        /\ \A k \in DOMAIN ring' : ring'[k] = ring[n + k]
    BY <1>3, <2>1
  <2>3. Latest(ring', numbered)
    BY <1>1, <1>2, <1>3, <2>2, LatestPart
  <2>4. numbered' = numbered
    BY <1>7 DEF AutoResumeFromHello
  <2>5. QED
    BY <2>3, <2>4 DEF Latest, Sorted
<1>8. QED
  BY <1>4, <1>5, <1>6, <1>7
  DEF Next, vars, memVars, histVars, GatewayStep, TabStep, SendMessage, CommitMessage, CommitFails, Resets,
      StartTurn, EndTurn, Emit, SkipPoisoned, AllocateFrameSeq, AppendTape, AppendFails, SendHello, Connect,
      Foreground, IgnoreHello, ReceiveFrame, HandleResumeFailed, Disconnect, Restart, BeginNumbering

--------------------------------------------------------------------------------
(* What a step does to a tab. *)

Quiet(t) ==
  /\ wire'[t] = wire[t] /\ cursor'[t] = cursor[t] /\ applied'[t] = applied[t]
  /\ anchor'[t] = anchor[t] /\ conn'[t] = conn[t] /\ UNCHANGED <<numbered, era>>

(* A step that is not of the tab, nor a frame sent to all, leaves it alone. *)
LEMMA Cases ==
  ASSUME Typed, [Next]_vars, ~ Resets, NEW t \in Tabs
  PROVE  \/ Quiet(t) \/ Send \/ Restart \/ ReceiveFrame(t) \/ HandleResumeFailed(t)
         \/ AutoResumeFromHello(t) \/ Connect(t) \/ SendMessage(t) \/ Disconnect(t)
<1>1. /\ conn \in [Tabs -> {"down", "open", "registered"}] /\ cursor \in [Tabs -> 0..MaxFrames]
      /\ wire \in [Tabs -> Seq(Message)] /\ anchor \in [Tabs -> Anchors] /\ applied \in [Tabs -> Seq(Ids)]
  BY DEF Typed, TabsTyped, LineTyped
<1>2. CASE UNCHANGED <<wire, cursor, applied, anchor, conn, numbered, era>>
  BY <1>2 DEF Quiet
<1>3. ASSUME NEW u \in Tabs, u # t, ReceiveFrame(u) PROVE Quiet(t)
  <2>1. /\ \E n : cursor' = cursor \/ cursor' = [cursor EXCEPT ![u] = n]
        /\ \E s : applied' = applied \/ applied' = [applied EXCEPT ![u] = s]
        /\ \E s : wire' = [wire EXCEPT ![u] = s]
        /\ UNCHANGED <<conn, anchor, numbered, era>>
    BY <1>3 DEF ReceiveFrame
  <2>2. QED
    BY <1>1, <1>3, <2>1 DEF Quiet
<1>4. ASSUME NEW u \in Tabs, u # t, HandleResumeFailed(u) PROVE Quiet(t)
  BY <1>1, <1>4 DEF HandleResumeFailed, Quiet
<1>5. ASSUME NEW u \in Tabs, u # t, AutoResumeFromHello(u) PROVE Quiet(t)
  <2>1. conn' = [conn EXCEPT ![u] = "registered"] /\ UNCHANGED <<cursor, applied, anchor, numbered, era>>
    BY <1>5 DEF AutoResumeFromHello
  <2>2. wire'[t] = wire[t]
    BY <1>5, Answer
  <2>3. QED
    BY <1>1, <1>5, <2>1, <2>2 DEF Quiet
<1>6. ASSUME NEW u \in Tabs, u # t, Connect(u) PROVE Quiet(t)
  BY <1>1, <1>6 DEF Connect, SendHello, Quiet
<1>7. ASSUME NEW u \in Tabs, u # t, SendMessage(u) PROVE Quiet(t)
  <2>1. /\ conn' = [conn EXCEPT ![u] = "registered"] /\ UNCHANGED <<wire, cursor, applied, numbered, era>>
        /\ anchor' = anchor \/ anchor' = [anchor EXCEPT ![u].era = None]
    BY <1>7 DEF SendMessage
  <2>2. anchor'[t] = anchor[t]
    BY <1>1, <1>7, <2>1
  <2>3. QED
    BY <1>1, <1>7, <2>1, <2>2 DEF Quiet
<1>8. ASSUME NEW u \in Tabs, u # t, Disconnect(u) PROVE Quiet(t)
  BY <1>1, <1>8 DEF Disconnect, histVars, Quiet
<1>9. QED
  BY <1>2, <1>3, <1>4, <1>5, <1>6, <1>7, <1>8
  DEF Next, vars, memVars, tabVars, histVars, GatewayStep, TabStep, CommitMessage, CommitFails, Resets,
      StartTurn, EndTurn, Emit, SkipPoisoned, AllocateFrameSeq, AppendTape, AppendFails, SendHello,
      Foreground, IgnoreHello

(* What the wire brings when its first message has been read. *)
LEMMA WireTail ==
  ASSUME Typed, NEW t \in Tabs, wire[t] # <<>>, wire'[t] = Tail(wire[t])
  PROVE  /\ 1 \in DOMAIN wire[t] /\ Head(wire[t]) = wire[t][1] /\ wire[t][1] \in Message
         /\ DOMAIN wire[t] = 1..Len(wire[t]) /\ Len(wire[t]) \in Nat
         /\ \A k \in DOMAIN wire'[t] : k \in Nat /\ 0 < k /\ k + 1 \in DOMAIN wire[t] /\ wire'[t][k] = wire[t][k + 1]
         /\ \A k \in DOMAIN wire[t] : k = 1 \/ (k - 1 \in DOMAIN wire'[t] /\ wire'[t][k - 1] = wire[t][k])
         /\ \A i \in Nat : \A f : 0 < i /\ On(t, i + 1, f) => On(t, i, f)'
         /\ \A i \in Nat : \A k \in DOMAIN wire'[t] : \A f :
              0 < i /\ Between(t, i + 1, k + 1, f) => Between(t, i, k, f)'
<1>1. wire[t] \in Seq(Message)
  BY DEF Typed, TabsTyped
<1>2. /\ 1 \in DOMAIN wire[t] /\ Head(wire[t]) = wire[t][1] /\ wire[t][1] \in Message
      /\ DOMAIN wire[t] = 1..Len(wire[t]) /\ Len(wire[t]) \in Nat
      /\ DOMAIN wire'[t] = 1..(Len(wire[t]) - 1)
      /\ \A k \in DOMAIN wire'[t] : k + 1 \in DOMAIN wire[t] /\ wire'[t][k] = wire[t][k + 1]
      /\ \A k \in DOMAIN wire[t] : k = 1 \/ (k - 1 \in DOMAIN wire'[t] /\ wire'[t][k - 1] = wire[t][k])
  BY <1>1, Shrunk
<1>3. \A k \in DOMAIN wire'[t] : k \in Nat /\ 0 < k
  BY <1>2
<1>4. ASSUME NEW i \in Nat, NEW f, 0 < i, On(t, i + 1, f) PROVE On(t, i, f)'
  <2>1. PICK j \in DOMAIN wire[t] : i + 1 <= j /\ wire[t][j] = Shown(f)
    BY <1>4 DEF On
  <2>2. j # 1 /\ i <= j - 1
    BY <1>2, <1>4, <2>1
  <2>3. QED
    BY <1>2, <2>1, <2>2 DEF On, Shown
<1>5. ASSUME NEW i \in Nat, NEW k \in DOMAIN wire'[t], NEW f, 0 < i, Between(t, i + 1, k + 1, f)
      PROVE  Between(t, i, k, f)'
  <2>1. PICK j \in (i + 1)..((k + 1) - 1) : wire[t][j] = Shown(f)
    BY <1>5 DEF Between
  <2>2. k \in Nat /\ j \in Nat /\ i + 1 <= j /\ j <= k /\ k <= Len(wire[t]) /\ Len(wire[t]) \in Nat
    BY <1>2, <1>3, <2>1
  <2>3. j - 1 \in i..(k - 1) /\ j \in 1..Len(wire[t]) /\ j # 1
    BY <1>5, <2>2
  <2>4. QED
    BY <1>2, <2>1, <2>3 DEF Between, Shown
<1>6. QED
  BY <1>2, <1>3, <1>4, <1>5

(* What the wire brings when more messages have been put on it. *)
LEMMA WireJoined ==
  ASSUME Typed, NEW t \in Tabs, NEW r \in Seq(Message), wire'[t] = wire[t] \o r
  PROVE  /\ DOMAIN wire[t] = 1..Len(wire[t]) /\ Len(wire[t]) \in Nat
         /\ \A k \in DOMAIN wire[t] : k \in DOMAIN wire'[t] /\ wire'[t][k] = wire[t][k]
         /\ \A k \in DOMAIN wire'[t] :
              \/ k \in DOMAIN wire[t]
              \/ /\ k > Len(wire[t]) /\ k \in Nat
                 /\ \E j \in DOMAIN r : k = Len(wire[t]) + j /\ wire'[t][k] = r[j]
         /\ \A j \in DOMAIN r : Len(wire[t]) + j \in DOMAIN wire'[t] /\ wire'[t][Len(wire[t]) + j] = r[j]
         /\ \A i, f : On(t, i, f) => On(t, i, f)'
         /\ \A i \in Nat : \A k \in DOMAIN wire[t] : \A f : 0 < i /\ Between(t, i, k, f) => Between(t, i, k, f)'
         /\ \A i \in Nat : \A k \in DOMAIN wire'[t] : \A f :
              k \notin DOMAIN wire[t] /\ On(t, i, f) => Between(t, i, k, f)'
<1>1. wire[t] \in Seq(Message)
  BY DEF Typed, TabsTyped
<1>2. /\ DOMAIN wire[t] = 1..Len(wire[t]) /\ Len(wire[t]) \in Nat /\ DOMAIN r = 1..Len(r) /\ Len(r) \in Nat
      /\ \A k \in DOMAIN wire[t] : k \in DOMAIN wire'[t] /\ wire'[t][k] = wire[t][k]
      /\ \A k \in DOMAIN wire'[t] :
           k \in DOMAIN wire[t] \/ \E j \in DOMAIN r : k = Len(wire[t]) + j /\ wire'[t][k] = r[j]
      /\ \A j \in DOMAIN r : Len(wire[t]) + j \in DOMAIN wire'[t] /\ wire'[t][Len(wire[t]) + j] = r[j]
  <2> DEFINE w == wire[t]
             v == wire'[t]
  <2>1. w \in Seq(Message) /\ v = w \o r
    BY <1>1
  <2> HIDE DEF w, v
  <2>2. /\ DOMAIN w = 1..Len(w) /\ Len(w) \in Nat /\ DOMAIN r = 1..Len(r) /\ Len(r) \in Nat
        /\ \A k \in DOMAIN w : k \in DOMAIN v /\ v[k] = w[k]
        /\ \A k \in DOMAIN v : k \in DOMAIN w \/ \E j \in DOMAIN r : k = Len(w) + j /\ v[k] = r[j]
        /\ \A j \in DOMAIN r : Len(w) + j \in DOMAIN v /\ v[Len(w) + j] = r[j]
    BY <2>1, Joined
  <2>3. QED
    BY <2>2 DEF w, v
<1>3. ASSUME NEW k \in DOMAIN wire'[t], k \notin DOMAIN wire[t] PROVE k > Len(wire[t]) /\ k \in Nat
  BY <1>2, <1>3
<1>4. \A i, f : On(t, i, f) => On(t, i, f)'
  BY <1>2 DEF On, Shown
<1>5. ASSUME NEW i \in Nat, NEW k \in DOMAIN wire[t], NEW f, 0 < i, Between(t, i, k, f) PROVE Between(t, i, k, f)'
  <2>1. PICK j \in i..(k - 1) : wire[t][j] = Shown(f)
    BY <1>5 DEF Between
  <2>2. j \in DOMAIN wire[t]
    BY <1>2, <1>5
  <2>3. QED
    BY <1>2, <2>1, <2>2 DEF Between, Shown
<1>6. ASSUME NEW i \in Nat, NEW k \in DOMAIN wire'[t], NEW f, k \notin DOMAIN wire[t], On(t, i, f)
      PROVE  Between(t, i, k, f)'
  <2>1. PICK j \in DOMAIN wire[t] : i <= j /\ wire[t][j] = Shown(f)
    BY <1>6 DEF On
  <2>2. j \in i..(k - 1)
    BY <1>2, <1>3, <1>6, <2>1
  <2>3. QED
    BY <1>2, <2>1, <2>2 DEF Between, Shown
<1>7. QED
  BY <1>2, <1>3, <1>4, <1>5, <1>6

(* What is on the wire of a tab after a step. *)
LEMMA WireForms ==
  ASSUME Typed, Known, [Next]_vars, ~ Resets, NEW t \in Tabs
  PROVE  /\ \/ wire'[t] = wire[t] /\ (UNCHANGED numbered \/ conn[t] # "registered")
            \/ wire'[t] = <<>>
            \/ /\ wire[t] # <<>> /\ wire'[t] = Tail(wire[t]) /\ UNCHANGED numbered
               /\ ReceiveFrame(t) \/ HandleResumeFailed(t)
            \/ /\ Send /\ conn[t] = "registered" /\ <<Shown(sending.frame)>> \in Seq(Message)
               /\ wire'[t] = wire[t] \o <<Shown(sending.frame)>>
            \/ /\ AutoResumeFromHello(t) /\ UNCHANGED numbered /\ Replay(ring', hello[t]) \in Seq(Message)
               /\ wire'[t] = wire[t] \o Replay(ring', hello[t])
         /\ numbered \subseteq numbered' \/ wire'[t] = <<>>
         /\ applied'[t] = applied[t] \/ ReceiveFrame(t)
         /\ cursor'[t] = cursor[t] \/ ReceiveFrame(t) \/ HandleResumeFailed(t)
<1>1. /\ cursor \in [Tabs -> 0..MaxFrames] /\ wire \in [Tabs -> Seq(Message)] /\ applied \in [Tabs -> Seq(Ids)]
  BY DEF Typed, TabsTyped, LineTyped
<1>2. CASE Quiet(t)
  BY <1>2 DEF Quiet
<1>3. CASE Send
  <2>1. /\ UNCHANGED <<cursor, applied>> /\ numbered \subseteq numbered' /\ sending.frame \in Frame
        /\ wire'[t] = IF conn[t] = "registered" THEN Append(wire[t], Shown(sending.frame)) ELSE wire[t]
    BY <1>3, Numbers DEF Send
  <2> DEFINE m == Shown(sending.frame)
  <2>2. m \in Message
    BY <2>1, Messages
  <2>3. Append(wire[t], m) = wire[t] \o <<m>> /\ <<m>> \in Seq(Message)
    <3> HIDE DEF m
    <3>1. wire[t] \in Seq(Message)
      BY <1>1
    <3>2. QED
      BY <2>2, <3>1, AppendIsConcat
  <2>4. QED
    BY <1>3, <2>1, <2>3
<1>4. CASE Restart
  BY <1>4 DEF Restart
<1>5. CASE ReceiveFrame(t)
  BY <1>1, <1>5 DEF ReceiveFrame, Incoming
<1>6. CASE HandleResumeFailed(t)
  BY <1>1, <1>6 DEF HandleResumeFailed, Incoming
<1>7. CASE AutoResumeFromHello(t)
  <2>1. UNCHANGED <<cursor, applied, numbered>>
    BY <1>7 DEF AutoResumeFromHello
  <2>2. QED
    BY <1>7, <2>1, Answer
<1>8. CASE Connect(t) \/ SendMessage(t)
  BY <1>8 DEF Connect, SendMessage, SendHello
<1>9. CASE Disconnect(t)
  BY <1>1, <1>9 DEF Disconnect, histVars
<1>10. QED
  BY <1>2, <1>3, <1>4, <1>5, <1>6, <1>7, <1>8, <1>9, Cases

(* What was later than all that a tab has processed stays so, unless it is overtaken
   by the frame that the tab reads. *)
LEMMA LaterStays ==
  ASSUME Typed, Known, Unreset, [Next]_vars, ~ Resets, NEW t \in Tabs, NEW m \in Nat, Later(t, m),
         \/ applied'[t] = applied[t]
         \/ \A g \in numbered : 1 \in DOMAIN wire[t] /\ wire[t][1] = Shown(g) => g.seq <= m
  PROVE  Later(t, m)'
<1>1. InNumbers /\ InHand
  BY DEF Unreset, Rising
<1>2. ASSUME NEW f \in numbered', f.seq > m, NEW k \in DOMAIN applied'[t]
      PROVE  applied'[t][k] < f.id
  <2>1. f \in numbered \/ (sending # None /\ f = sending.frame)
    BY NumberedMoves
  <2>2. CASE k \in DOMAIN applied[t] /\ applied'[t][k] = applied[t][k]
    BY <1>1, <1>2, <2>1, <2>2 DEF Later, InHand
  <2>3. CASE ~ (k \in DOMAIN applied[t] /\ applied'[t][k] = applied[t][k])
    <3>1. PICK g \in numbered : /\ applied'[t][k] = g.id
                                /\ 1 \in DOMAIN wire[t] /\ wire[t][1] = Shown(g)
      BY <2>3, Processes
    <3>2. g.seq <= m
      BY <2>3, <3>1
    <3>3. CASE f \in numbered
      <4>1. g.seq \in Nat /\ f.seq \in Nat
        BY <3>3, Numbers
      <4>2. g.seq < f.seq
        BY <1>2, <3>2, <4>1
      <4>3. QED
        BY <1>1, <3>1, <3>3, <4>2 DEF InNumbers
    <3>4. CASE sending # None /\ f = sending.frame
      BY <1>1, <3>1, <3>4 DEF InHand
    <3>5. QED
      BY <2>1, <3>3, <3>4
  <2>4. QED
    BY <2>2, <2>3
<1>3. QED
  BY <1>2 DEF Later

(* A frame that a tab reads, and what it then has. *)
LEMMA Reads ==
  ASSUME Typed, Known, Unreset, NEW t \in Tabs, ReceiveFrame(t)
  PROVE  /\ wire[t] # <<>> /\ 1 \in DOMAIN wire[t] /\ wire[t][1].kind = "frame"
         /\ wire'[t] = Tail(wire[t]) /\ wire[t][1].kind # "resume_failed"
         /\ UNCHANGED <<numbered, conn, anchor, era>>
         /\ \E g \in numbered :
              /\ wire[t][1] = Shown(g) /\ g \in Frame
              /\ \/ g.seq <= cursor[t] /\ cursor'[t] = cursor[t] /\ applied'[t] = applied[t]
                 \/ /\ g.seq > cursor[t] /\ cursor'[t] = g.seq
                    /\ applied'[t] = Append(applied[t], g.id) /\ applied[t] \in Seq(Ids)
<1>1. /\ cursor \in [Tabs -> 0..MaxFrames] /\ wire \in [Tabs -> Seq(Message)] /\ wire[t] \in Seq(Message)
      /\ applied \in [Tabs -> Seq(Ids)] /\ cursor[t] \in Nat
  BY Names DEF Typed, TabsTyped, LineTyped
<1>2. /\ wire[t] # <<>> /\ Head(wire[t]).kind = "frame" /\ UNCHANGED <<numbered, conn, anchor, era>>
      /\ wire'[t] = Tail(wire[t])
      /\ \/ Stale(t, Head(wire[t])) /\ UNCHANGED <<cursor, applied>>
         \/ /\ ~ Stale(t, Head(wire[t])) /\ cursor' = [cursor EXCEPT ![t] = Head(wire[t]).seq]
            /\ applied' = [applied EXCEPT ![t] = Append(@, Head(wire[t]).id)]
  BY <1>1 DEF ReceiveFrame, Incoming
<1>3. Head(wire[t]) = wire[t][1] /\ 1 \in DOMAIN wire[t]
  BY <1>1, <1>2, Shrunk
<1>4. PICK g \in numbered : wire[t][1] = Shown(g)
  BY <1>2, <1>3 DEF Unreset, ReadBy
<1>5. g \in Frame /\ Shown(g).seq = g.seq /\ Shown(g).id = g.id /\ g.seq \in Nat
  BY Numbers, Messages
<1>6. \/ g.seq <= cursor[t] /\ cursor'[t] = cursor[t] /\ applied'[t] = applied[t]
      \/ /\ g.seq > cursor[t] /\ cursor'[t] = g.seq
         /\ applied'[t] = Append(applied[t], g.id) /\ applied[t] \in Seq(Ids)
  <2>1. CASE Stale(t, Head(wire[t])) /\ UNCHANGED <<cursor, applied>>
    BY <1>3, <1>4, <1>5, <2>1 DEF Stale
  <2>2. CASE /\ ~ Stale(t, Head(wire[t])) /\ cursor' = [cursor EXCEPT ![t] = Head(wire[t]).seq]
             /\ applied' = [applied EXCEPT ![t] = Append(@, Head(wire[t]).id)]
    <3>1. g.seq > cursor[t]
      BY <1>1, <1>3, <1>4, <1>5, <2>2 DEF Stale
    <3>2. QED
      BY <1>1, <1>3, <1>4, <1>5, <2>2, <3>1
  <2>3. QED
    BY <1>2, <2>1, <2>2
<1>7. QED
  BY <1>2, <1>3, <1>4, <1>5, <1>6

(* An admission that a tab reads. *)
LEMMA ReadsAdmission ==
  ASSUME Typed, NEW t \in Tabs, HandleResumeFailed(t)
  PROVE  /\ wire[t] # <<>> /\ 1 \in DOMAIN wire[t] /\ wire[t][1].kind = "resume_failed" /\ wire[t][1].seq \in Nat
         /\ wire'[t] = Tail(wire[t]) /\ cursor'[t] = wire[t][1].seq
         /\ anchor'[t] = [era |-> era, told |-> wire[t][1].seq]
         /\ UNCHANGED <<numbered, conn, applied, era>>
<1>1. /\ cursor \in [Tabs -> 0..MaxFrames] /\ wire \in [Tabs -> Seq(Message)] /\ wire[t] \in Seq(Message)
      /\ anchor \in [Tabs -> Anchors]
  BY DEF Typed, TabsTyped
<1>2. /\ wire[t] # <<>> /\ Head(wire[t]).kind = "resume_failed" /\ UNCHANGED <<numbered, conn, applied, era>>
      /\ wire'[t] = Tail(wire[t]) /\ cursor'[t] = Head(wire[t]).seq
      /\ anchor'[t] = [era |-> era, told |-> Head(wire[t]).seq]
  BY <1>1 DEF HandleResumeFailed, Incoming
<1>3. Head(wire[t]) = wire[t][1] /\ 1 \in DOMAIN wire[t] /\ wire[t][1] \in Message
  BY <1>1, <1>2, Shrunk
<1>4. wire[t][1].seq \in Nat
  BY <1>3 DEF Message
<1>5. QED
  BY <1>2, <1>3, <1>4

(* A tab processes frames in order. *)
LEMMA ReadByStep ==
  ASSUME Typed, Typed', Known, Unreset, [Next]_vars, ~ Resets, NEW t \in Tabs
  PROVE  ReadBy(t)'
<1>1. /\ ReadBy(t) /\ InNumbers /\ InHand /\ cursor[t] \in Nat /\ wire[t] \in Seq(Message)
      /\ applied[t] \in Seq(Ids) /\ applied'[t] \in Seq(Ids')
      /\ \A k \in DOMAIN ring : ring[k] \in numbered
  BY Names DEF Unreset, Rising, Typed, TabsTyped, LineTyped, Latest
<1>2. ASSUME NEW k \in DOMAIN applied'[t], NEW n \in 1..(k - 1) PROVE applied'[t][n] < applied'[t][k]
  <2>1. /\ DOMAIN applied[t] = 1..Len(applied[t]) /\ Len(applied[t]) \in Nat
        /\ DOMAIN applied'[t] = 1..Len(applied'[t]) /\ Len(applied'[t]) \in Nat
    BY <1>1
  <2>2. k \in DOMAIN applied[t] \/ k = Len(applied[t]) + 1
    BY Processes
  <2>3. n \in DOMAIN applied[t] /\ n \in DOMAIN applied'[t] /\ n # Len(applied[t]) + 1
    BY <2>1, <2>2
  <2>4. applied'[t][n] = applied[t][n]
    BY <2>3, Processes
  <2>5. CASE k \in DOMAIN applied[t] /\ applied'[t][k] = applied[t][k]
    BY <1>1, <2>4, <2>5 DEF ReadBy, Increasing
  <2>6. CASE \E f \in numbered : applied'[t][k] = f.id /\ f.seq > cursor[t]
    BY <1>1, <2>3, <2>4, <2>6 DEF ReadBy, Later
  <2>7. QED
    BY <2>5, <2>6, Processes
<1>3. ASSUME NEW k \in DOMAIN wire'[t], wire'[t][k].kind = "frame" PROVE \E f \in numbered' : wire'[t][k] = Shown(f)
  <2>1. numbered \subseteq numbered'
    <3>1. wire'[t] # <<>>
      BY <1>3
    <3>2. QED
      BY <3>1, WireForms
  <2>2. CASE \E j \in DOMAIN wire[t] : wire'[t][k] = wire[t][j]
    BY <1>1, <1>3, <2>1, <2>2 DEF ReadBy
  <2>3. CASE Send /\ wire'[t][k] = Shown(sending.frame)
    BY <2>3 DEF Send
  <2>4. CASE wire'[t][k] = Failed(lastSeq)
    BY <1>3, <2>4, Messages, Numbers
  <2>5. CASE \E i \in DOMAIN ring : wire'[t][k] = Shown(ring[i])
    BY <1>1, <2>1, <2>5
  <2>6. QED
    BY <2>2, <2>3, <2>4, <2>5, WireMoves
<1>4. Later(t, cursor'[t]) /\ (applied'[t] = applied[t] \/ \A g \in numbered :
        1 \in DOMAIN wire[t] /\ wire[t][1] = Shown(g) => g.seq <= cursor'[t]) /\ cursor'[t] \in Nat
  <2>1. CASE ReceiveFrame(t)
    <3>1. PICK g \in numbered :
              /\ wire[t][1] = Shown(g) /\ g \in Frame
              /\ \/ g.seq <= cursor[t] /\ cursor'[t] = cursor[t] /\ applied'[t] = applied[t]
                 \/ g.seq > cursor[t] /\ cursor'[t] = g.seq
      BY <2>1, Reads
    <3>2. \A h \in numbered : wire[t][1] = Shown(h) => h = g
      BY ZenonT(40), <3>1, Numbers, Messages
    <3>3. g.seq \in Nat /\ \A f \in numbered : f.seq \in Nat
      BY Numbers
    <3>4. CASE cursor'[t] = cursor[t] /\ applied'[t] = applied[t]
      BY <1>1, <3>4 DEF ReadBy
    <3>5. CASE g.seq > cursor[t] /\ cursor'[t] = g.seq
      <4>1. Later(t, g.seq)
        <5>1. \A f \in numbered : f.seq > g.seq => f.seq > cursor[t]
          BY <1>1, <3>3, <3>5
        <5>2. QED
          BY <1>1, <5>1 DEF ReadBy, Later
      <4>2. QED
        BY <3>2, <3>3, <3>5, <4>1
    <3>6. QED
      BY <3>1, <3>4, <3>5
  <2>2. CASE HandleResumeFailed(t)
    <3>1. /\ 1 \in DOMAIN wire[t] /\ wire[t][1].kind = "resume_failed" /\ cursor'[t] = wire[t][1].seq
          /\ wire[t][1].seq \in Nat /\ UNCHANGED applied
      BY <2>2, ReadsAdmission
    <3>2. QED
      BY <1>1, <3>1 DEF ReadBy
  <2>3. CASE ~ ReceiveFrame(t) /\ cursor'[t] = cursor[t]
    <3>1. applied'[t] = applied[t]
      BY <2>3, WireForms
    <3>2. QED
      BY <1>1, <2>3, <3>1 DEF ReadBy
  <2>4. QED
    BY <2>1, <2>2, <2>3, WireForms
<1>5. \A f \in numbered' : f.seq > cursor'[t] => \A k \in DOMAIN applied'[t] : applied'[t][k] < f.id
  <2> DEFINE m == cursor'[t]
  <2>1. /\ m \in Nat /\ Later(t, m)
        /\ applied'[t] = applied[t] \/ \A g \in numbered : 1 \in DOMAIN wire[t] /\ wire[t][1] = Shown(g) => g.seq <= m
    BY <1>4
  <2> HIDE DEF m
  <2>2. ASSUME NEW n \in Nat, n = m PROVE \A f \in numbered' : f.seq > n => \A k \in DOMAIN applied'[t] : applied'[t][k] < f.id
    <3>1. /\ Later(t, n)
          /\ applied'[t] = applied[t] \/ \A g \in numbered : 1 \in DOMAIN wire[t] /\ wire[t][1] = Shown(g) => g.seq <= n
      BY <2>1, <2>2
    <3>2. Later(t, n)'
      BY <3>1, LaterStays
    <3>3. QED
      BY <3>2 DEF Later
  <2>3. QED
    BY <2>1, <2>2 DEF m
<1>6. ASSUME NEW n \in Nat, Later(t, n), applied'[t] = applied[t] \/ \A g \in numbered :
                 1 \in DOMAIN wire[t] /\ wire[t][1] = Shown(g) => g.seq <= n
      PROVE  \A f \in numbered' : f.seq > n => \A k \in DOMAIN applied'[t] : applied'[t][k] < f.id
  <2>1. Later(t, n)'
    BY <1>6, LaterStays
  <2>2. QED
    BY <2>1 DEF Later
<1>7. \A k \in DOMAIN wire[t] : wire[t][k].seq \in Nat
  <2>1. \A k \in DOMAIN wire[t] : wire[t][k] \in Message
    BY <1>1
  <2>2. QED
    BY <2>1 DEF Message
<1> DEFINE Fails(k, w) ==
      /\ \A f \in numbered' : f.seq > w[k].seq => \A i \in DOMAIN applied'[t] : applied'[t][i] < f.id
      /\ \A j \in 1..(k - 1) : w[j].kind = "frame" => w[j].seq <= w[k].seq
<1>8. ASSUME NEW k \in DOMAIN wire[t], wire[t][k].kind = "resume_failed"
      PROVE  Fails(k, wire[t])
  <2>1. Later(t, wire[t][k].seq) /\ \A j \in 1..(k - 1) : wire[t][j].kind = "frame" => wire[t][j].seq <= wire[t][k].seq
    BY <1>1, <1>8 DEF ReadBy
  <2>2. CASE applied'[t] = applied[t]
    BY <1>6, <1>7, <2>1, <2>2
  <2>3. CASE ReceiveFrame(t)
    <3>1. 1 \in DOMAIN wire[t] /\ wire[t][1].kind = "frame" /\ wire[t][1].kind # "resume_failed"
      BY <2>3, Reads
    <3>2. k # 1 /\ k \in Nat /\ 0 < k
      BY <1>1, <1>8, <3>1
    <3>3. wire[t][1].seq <= wire[t][k].seq
      BY <2>1, <3>1, <3>2
    <3>4. \A g \in numbered : wire[t][1] = Shown(g) => g.seq <= wire[t][k].seq
      BY <3>3, Numbers, Messages
    <3>5. QED
      BY <1>6, <1>7, <2>1, <3>4
  <2>4. QED
    BY <2>2, <2>3, WireForms
<1> HIDE DEF Fails
<1>9. ASSUME NEW k \in DOMAIN wire'[t], wire'[t][k].kind = "resume_failed" PROVE Fails(k, wire'[t])
  <2>1. CASE wire'[t] = wire[t]
    BY <1>8, <1>9, <2>1
  <2>2. CASE wire'[t] = <<>>
    BY <1>9, <2>2
  <2>3. CASE wire[t] # <<>> /\ wire'[t] = Tail(wire[t])
    <3>1. /\ k \in Nat /\ 0 < k /\ k + 1 \in DOMAIN wire[t] /\ wire'[t][k] = wire[t][k + 1]
          /\ DOMAIN wire[t] = 1..Len(wire[t]) /\ Len(wire[t]) \in Nat
          /\ \A j \in DOMAIN wire[t] : j = 1 \/ (j - 1 \in DOMAIN wire'[t] /\ wire'[t][j - 1] = wire[t][j])
      BY <2>3, WireTail
    <3>2. Fails(k + 1, wire[t])
      BY <1>8, <1>9, <3>1
    <3>3. ASSUME NEW j \in 1..(k - 1) PROVE j + 1 \in 1..((k + 1) - 1) /\ wire'[t][j] = wire[t][j + 1]
      <4>1. j + 1 \in DOMAIN wire[t] /\ j + 1 # 1 /\ (j + 1) - 1 = j
        BY <3>1
      <4>2. QED
        BY <3>1, <4>1
    <3>4. QED
      BY <3>1, <3>2, <3>3 DEF Fails
  <2>4. ASSUME NEW r \in Seq(Message), wire'[t] = wire[t] \o r, numbered' = numbered \/ Send,
               \A j \in DOMAIN r : r[j].kind = "resume_failed" => ~ Send /\ r[j].seq = lastSeq /\ j = 1,
               \A j \in DOMAIN r : r[j].kind = "resume_failed" => UNCHANGED <<numbered, applied>>
        PROVE  Fails(k, wire'[t])
    <3>1. CASE k \in DOMAIN wire[t]
      <4>1. wire'[t][k] = wire[t][k] /\ \A j \in 1..(k - 1) : j \in DOMAIN wire[t] /\ wire'[t][j] = wire[t][j]
        BY <2>4, <3>1, WireJoined
      <4>2. Fails(k, wire[t])
        BY <1>8, <1>9, <3>1, <4>1
      <4>3. QED
        BY <4>1, <4>2 DEF Fails
    <3>2. CASE k \notin DOMAIN wire[t]
      <4>1. PICK j \in DOMAIN r : k = Len(wire[t]) + j /\ wire'[t][k] = r[j]
        BY <2>4, <3>2, WireJoined
      <4>2. /\ wire'[t][k].seq = lastSeq /\ k = Len(wire[t]) + 1 /\ UNCHANGED numbered
        BY <1>9, <2>4, <4>1
      <4>3. \A f \in numbered : f.seq <= lastSeq /\ f.seq \in Nat /\ lastSeq \in Nat /\ ~ (f.seq > lastSeq)
        BY <1>1, Numbers DEF InNumbers
      <4>4. ASSUME NEW i \in 1..(k - 1), wire'[t][i].kind = "frame" PROVE wire'[t][i].seq <= lastSeq
        <5>1. i \in DOMAIN wire[t] /\ wire'[t][i] = wire[t][i]
          BY <2>4, <4>2, WireJoined
        <5>2. PICK f \in numbered : wire[t][i] = Shown(f)
          BY <1>1, <4>4, <5>1 DEF ReadBy
        <5>3. wire[t][i].seq = f.seq
          BY <5>2, Numbers, Messages
        <5>4. QED
          BY <4>3, <5>1, <5>3
      <4>5. QED
        BY <4>2, <4>3, <4>4 DEF Fails
    <3>3. QED
      BY <3>1, <3>2
  <2>5. CASE Send /\ <<Shown(sending.frame)>> \in Seq(Message) /\ wire'[t] = wire[t] \o <<Shown(sending.frame)>>
    <3> DEFINE r == <<Shown(sending.frame)>>
    <3>1. \A j \in DOMAIN r : r[j].kind = "frame" /\ "frame" # "resume_failed"
      <4>1. sending.frame \in Frame
        BY <2>5, Numbers DEF Send
      <4>2. \A j \in DOMAIN r : r[j] = Shown(sending.frame)
        OBVIOUS
      <4>3. QED
        BY <4>1, <4>2, Messages
    <3>2. r \in Seq(Message) /\ wire'[t] = wire[t] \o r
      BY <2>5
    <3> HIDE DEF r
    <3>3. QED
      BY <2>4, <2>5, <3>1, <3>2
  <2>6. CASE /\ AutoResumeFromHello(t) /\ UNCHANGED numbered /\ Replay(ring', hello[t]) \in Seq(Message)
             /\ wire'[t] = wire[t] \o Replay(ring', hello[t])
    <3> DEFINE r == Replay(ring', hello[t])
    <3>1. /\ ring' \in Seq(Frame) /\ hello[t] \in Nat /\ lastSeq \in Nat
      BY <2>6, Answer
    <3>2. \A j \in DOMAIN r : r[j].kind = "resume_failed" => r[j].seq = lastSeq /\ j = 1
      <4>1. CASE r = <<Failed(lastSeq)>>
        BY <3>1, <4>1, Messages
      <4>2. CASE r = <<>>
        BY <4>2
      <4>3. CASE /\ DOMAIN r = DOMAIN After(ring', hello[t])
                 /\ \A j \in DOMAIN r : r[j] = Shown(After(ring', hello[t])[j])
        <5>1. After(ring', hello[t]) \in Seq(Frame)
          BY <3>1, AfterPicks
        <5>2. \A j \in DOMAIN After(ring', hello[t]) : After(ring', hello[t])[j] \in Frame
          BY <5>1
        <5>3. QED
          BY <4>3, <5>2, Messages
      <4>4. QED
        BY <3>1, <4>1, <4>2, <4>3, Replays
    <3>3. r \in Seq(Message) /\ wire'[t] = wire[t] \o r /\ UNCHANGED <<numbered, applied>>
      BY <2>6 DEF AutoResumeFromHello
    <3>4. ~ Send
      BY <2>6 DEF Send, AutoResumeFromHello
    <3> HIDE DEF r
    <3>5. QED
      BY <2>4, <3>2, <3>3, <3>4
  <2>7. QED
    BY <2>1, <2>2, <2>3, <2>5, <2>6, WireForms
<1>10. QED
  BY <1>2, <1>3, <1>5, <1>9 DEF ReadBy, Increasing, Later, Fails

(* A frame on the wire is numbered, whichever frame it is. *)
LEMMA OldFrames ==
  ASSUME Typed, Known, Unreset, NEW t \in Tabs, NEW k \in DOMAIN wire[t], NEW g \in Frame, wire[t][k] = Shown(g)
  PROVE  g \in numbered
<1>1. wire[t][k].kind = "frame"
  BY Messages
<1>2. PICK f \in numbered : wire[t][k] = Shown(f)
  BY <1>1 DEF Unreset, ReadBy
<1>3. f \in Frame
  BY Numbers
<1>4. QED
  BY <1>2, <1>3, Messages

(* What is put on the wire of a tab: the frame that is sent, or an answer. *)
LEMMA Puts ==
  ASSUME Typed, Known, Unreset, [Next]_vars, ~ Resets, NEW t \in Tabs, wire'[t] # <<>>
  PROVE  \/ wire'[t] = wire[t] /\ (UNCHANGED numbered \/ conn[t] # "registered")
         \/ wire[t] # <<>> /\ wire'[t] = Tail(wire[t]) /\ UNCHANGED numbered
         \/ \E r \in Seq(Message) :
              /\ wire'[t] = wire[t] \o r
              /\ \/ Send /\ conn[t] = "registered" /\ r = <<Shown(sending.frame)>>
                 \/ /\ AutoResumeFromHello(t) /\ ~ Send /\ UNCHANGED numbered /\ r = Replay(ring', hello[t])
                    /\ \A j \in DOMAIN r : r[j].kind = "resume_failed" => r[j].seq = lastSeq
<1>1. CASE /\ AutoResumeFromHello(t) /\ UNCHANGED numbered /\ Replay(ring', hello[t]) \in Seq(Message)
           /\ wire'[t] = wire[t] \o Replay(ring', hello[t])
  <2> DEFINE r == Replay(ring', hello[t])
  <2>1. lastSeq \in Nat /\ \A j \in DOMAIN r : r[j] = Failed(lastSeq) \/ \E i \in DOMAIN ring : r[j] = Shown(ring[i])
    BY <1>1, Answer
  <2>2. \A i \in DOMAIN ring : ring[i] \in Frame
    BY DEF Known, Of
  <2>3. \A j \in DOMAIN r : r[j].kind = "resume_failed" => r[j].seq = lastSeq
    BY <2>1, <2>2, Messages
  <2>4. ~ Send
    BY <1>1 DEF Send, AutoResumeFromHello
  <2>5. QED
    BY <1>1, <2>3, <2>4
<1>2. QED
  BY <1>1, WireForms

(* What follows an admission on the wire stays in order. *)
LEMMA AdmittedToStep ==
  ASSUME Typed, Known, Wired, Unreset, [Next]_vars, ~ Resets, NEW t \in Tabs
  PROVE  AdmittedTo(t)'
<1>1. /\ AdmittedTo(t) /\ InNumbers /\ InHand /\ wire[t] \in Seq(Message) /\ numbered \subseteq Frame
      /\ lastSeq \in Nat /\ \A f \in numbered : f.seq \in Nat
  BY Numbers DEF Unreset, Rising, Typed, TabsTyped
<1>2. numbered' \subseteq Frame
  BY <1>1, Numbers, NumberedMoves
<1> DEFINE Follows(i, f) ==
      /\ On(t, i + 1, f)
      /\ \A k \in DOMAIN wire[t] : \A g \in Frame :
           i < k /\ wire[t][k] = Shown(g) /\ f.seq < g.seq => Between(t, i + 1, k, f)
<1>3. ASSUME NEW i \in DOMAIN wire[t], wire[t][i].kind = "resume_failed", NEW f \in numbered, f.seq > wire[t][i].seq
      PROVE  Follows(i, f)
  BY <1>1, <1>3, OldFrames DEF AdmittedTo, Failure
<1> DEFINE Leads(i, f) ==
      /\ On(t, i + 1, f)'
      /\ \A k \in DOMAIN wire'[t] : \A g \in numbered' :
           i < k /\ wire'[t][k] = Shown(g) /\ f.seq < g.seq => Between(t, i + 1, k, f)'
<1>4. ASSUME NEW i \in DOMAIN wire'[t], wire'[t][i].kind = "resume_failed", NEW f \in numbered', f.seq > wire'[t][i].seq
      PROVE  Leads(i, f)
  <2>1. CASE wire'[t] = wire[t] /\ (UNCHANGED numbered \/ conn[t] # "registered")
    <3>1. wire[t] # <<>>
      BY <1>4, <2>1
    <3>2. conn[t] = "registered"
      BY <3>1 DEF Wired
    <3>3. UNCHANGED numbered
      BY <2>1, <3>2
    <3>4. Follows(i, f)
      BY <1>3, <1>4, <2>1, <3>3
    <3>5. QED
      BY <1>2, <2>1, <3>4 DEF On, Between, Shown
  <2>2. CASE wire[t] # <<>> /\ wire'[t] = Tail(wire[t]) /\ UNCHANGED numbered
    <3>1. i \in Nat /\ 0 < i /\ i + 1 \in DOMAIN wire[t] /\ wire'[t][i] = wire[t][i + 1] /\ i + 1 \in Nat /\ 0 < i + 1
      BY <2>2, WireTail
    <3>2. Follows(i + 1, f)
      BY <1>3, <1>4, <2>2, <3>1
    <3>3. On(t, i + 1, f)'
      BY <2>2, <3>1, <3>2, WireTail
    <3>4. ASSUME NEW k \in DOMAIN wire'[t], NEW g \in numbered', i < k, wire'[t][k] = Shown(g), f.seq < g.seq
          PROVE  Between(t, i + 1, k, f)'
      <4>1. k \in Nat /\ k + 1 \in DOMAIN wire[t] /\ wire[t][k + 1] = Shown(g) /\ i + 1 < k + 1 /\ g \in Frame
        BY <1>2, <2>2, <3>1, <3>4, WireTail
      <4>2. Between(t, (i + 1) + 1, k + 1, f)
        BY <3>2, <3>4, <4>1
      <4>3. QED
        BY <2>2, <3>1, <4>2, WireTail
    <3>5. QED
      BY <3>3, <3>4
  <2>3. ASSUME NEW r \in Seq(Message), wire'[t] = wire[t] \o r,
               \/ Send /\ r = <<Shown(sending.frame)>>
               \/ /\ ~ Send /\ UNCHANGED numbered
                  /\ \A j \in DOMAIN r : r[j].kind = "resume_failed" => r[j].seq = lastSeq
        PROVE  Leads(i, f)
    <3>1. Send => /\ numbered' = numbered \cup {sending.frame} /\ sending.frame.seq = lastSeq
                  /\ sending.frame \in Frame /\ \A j \in DOMAIN r : r[j] = Shown(sending.frame)
      <4>1. ASSUME Send PROVE sending.frame.seq = lastSeq /\ sending.frame \in Frame
        BY <1>1, <4>1, Numbers DEF Send, InHand
      <4>2. ASSUME Send PROVE \A j \in DOMAIN r : r[j] = Shown(sending.frame)
        <5>1. r = <<Shown(sending.frame)>>
          BY <2>3, <4>2
        <5>2. QED
          BY <5>1
      <4>3. QED
        BY <4>1, <4>2 DEF Send
    <3>2. f.seq \in Nat /\ ~ (f.seq > lastSeq)
      BY <1>1, <1>4, <2>3, <3>1 DEF InNumbers
    <3>3. i \in DOMAIN wire[t] /\ wire'[t][i] = wire[t][i] /\ i \in Nat /\ 0 < i /\ i <= Len(wire[t])
      <4>1. ASSUME i \notin DOMAIN wire[t] PROVE FALSE
        <5>1. wire'[t] = wire[t] \o r
          BY <2>3
        <5>2. \/ i \in DOMAIN wire[t]
              \/ /\ i > Len(wire[t]) /\ i \in Nat
                 /\ \E j \in DOMAIN r : i = Len(wire[t]) + j /\ wire'[t][i] = r[j]
          BY ZenonT(40), <5>1, WireJoined
        <5>3. PICK j \in DOMAIN r : wire'[t][i] = r[j]
          BY <4>1, <5>2
        <5>4. ~ Send
          BY <1>4, <3>1, <5>3, Messages
        <5>5. wire'[t][i].seq = lastSeq
          BY <1>4, <2>3, <5>3, <5>4
        <5>6. QED
          BY <1>4, <3>2, <5>5
      <4>2. QED
        BY <2>3, <4>1, WireJoined
    <3>4. CASE f \in numbered
      <4>1. Follows(i, f)
        BY <1>3, <1>4, <3>3, <3>4
      <4>2. On(t, i + 1, f)'
        BY <2>3, <4>1, WireJoined
      <4>3. ASSUME NEW k \in DOMAIN wire'[t], NEW g \in numbered', i < k, wire'[t][k] = Shown(g), f.seq < g.seq
            PROVE  Between(t, i + 1, k, f)'
        <5>1. i + 1 \in Nat /\ 0 < i + 1
          BY <3>3
        <5>2. CASE k \in DOMAIN wire[t]
          <6>1. wire[t][k] = Shown(g) /\ g \in Frame
            BY <1>2, <2>3, <4>3, <5>2, WireJoined
          <6>2. Between(t, i + 1, k, f)
            BY <4>1, <4>3, <5>2, <6>1
          <6>3. QED
            BY <2>3, <5>1, <5>2, <6>2, WireJoined
        <5>3. CASE k \notin DOMAIN wire[t]
          BY <2>3, <4>1, <5>1, <5>3, WireJoined
        <5>4. QED
          BY <5>2, <5>3
      <4>4. QED
        BY <4>2, <4>3
    <3>5. CASE f \notin numbered
      <4>1. Send /\ f = sending.frame /\ f.seq = lastSeq
        <5>1. ~ UNCHANGED numbered
          BY <1>4, <3>5
        <5>2. Send
          BY <2>3, <5>1
        <5>3. QED
          BY <1>4, <3>1, <3>5, <5>2
      <4>2. r = <<Shown(f)>>
        BY <1>4, <2>3, <3>5, <4>1
      <4>3. 1 \in DOMAIN r /\ r[1] = Shown(f)
        BY <4>2
      <4>4. On(t, i + 1, f)'
        <5>1. Len(wire[t]) + 1 \in DOMAIN wire'[t] /\ wire'[t][Len(wire[t]) + 1] = Shown(f) /\ Len(wire[t]) \in Nat
          BY <2>3, <4>3, WireJoined
        <5>2. i + 1 <= Len(wire[t]) + 1
          BY <3>3, <5>1
        <5>3. QED
          BY <5>1, <5>2 DEF On, Shown
      <4>5. ASSUME NEW g \in numbered' PROVE ~ (f.seq < g.seq)
        <5>1. g.seq \in Nat /\ g.seq <= lastSeq
          BY <1>1, <3>1, <4>1, <4>5 DEF InNumbers
        <5>2. QED
          BY <1>1, <4>1, <5>1
      <4>6. QED
        BY <4>4, <4>5
    <3>6. QED
      BY <3>4, <3>5
  <2>4. wire'[t] # <<>>
    BY <1>4
  <2>5. QED
    BY <2>1, <2>2, <2>3, <2>4, Puts
<1>5. QED
  BY <1>4 DEF AdmittedTo, Failure

(* A frame that is sent to a tab that misses nothing. *)
LEMMA AnchoredSend ==
  ASSUME Typed, Known, Wired, Unreset, [Next]_vars, ~ Resets, NEW t \in Tabs, Send, anchor[t].era = era
  PROVE  AnchoredAt(t)'
<1> DEFINE e == sending.frame
<1>1. /\ AnchoredAt(t) /\ InNumbers /\ wire[t] \in Seq(Message) /\ numbered \subseteq Frame
      /\ lastSeq \in Nat /\ cursor[t] \in Nat /\ anchor[t].told \in Nat
      /\ \A f \in numbered : f.seq \in Nat
  BY Numbers, Names DEF Unreset, Rising, Typed, TabsTyped, Anchors
<1>2. /\ numbered' = numbered \cup {e} /\ e.seq = lastSeq /\ e \in Frame /\ \A f \in numbered : f.seq < lastSeq
      /\ UNCHANGED <<cursor, applied, anchor, conn, era>>
      /\ wire'[t] = IF conn[t] = "registered" THEN Append(wire[t], Shown(e)) ELSE wire[t]
  BY Numbers DEF Send, Unreset, Rising, InHand
<1>3. conn[t] # "registered" => wire[t] = <<>>
  BY DEF Wired
<1>4. Shown(e) \in Message
  BY <1>2, Messages
<1>5. conn[t] = "registered" => wire'[t] = wire[t] \o <<Shown(e)>> /\ <<Shown(e)>> \in Seq(Message)
  <2> DEFINE m == Shown(e)
  <2>1. m \in Message
    BY <1>4
  <2> HIDE DEF m
  <2>2. Append(wire[t], m) = wire[t] \o <<m>> /\ <<m>> \in Seq(Message)
    BY <1>1, <2>1, AppendIsConcat
  <2>3. QED
    BY <1>2, <2>2 DEF m
<1> HIDE DEF e
<1>6. \A f : Got(t, f)' <=> Got(t, f)
  BY <1>2 DEF Got
<1>7. /\ cursor[t] <= anchor[t].told \/ \E f \in numbered : cursor[t] <= f.seq
      /\ \A f \in numbered : f.seq <= cursor[t] => Got(t, f)
      /\ \A f \in numbered : conn[t] = "registered" /\ (\A i \in DOMAIN wire[t] : ~ Failure(t, i)) =>
           Got(t, f) \/ On(t, 1, f)
      /\ \A k \in DOMAIN wire[t] : \A f, g \in numbered :
           /\ wire[t][k] = Shown(g) /\ f.seq < g.seq
           /\ \A i \in 1..(k - 1) : ~ Failure(t, i)
           => Got(t, f) \/ Between(t, 1, k, f)
  BY <1>1 DEF AnchoredAt
<1>8. cursor[t] <= anchor[t].told \/ \E f \in numbered' : cursor[t] <= f.seq
  BY <1>2, <1>7
<1>9. ASSUME NEW f \in numbered', f.seq <= cursor[t] PROVE Got(t, f)
  <2>1. CASE f \in numbered
    BY <1>7, <1>9, <2>1
  <2>2. CASE f = e
    <3>1. ~ \E g \in numbered : cursor[t] <= g.seq
      BY <1>1, <1>2, <1>9, <2>2
    <3>2. f.seq <= anchor[t].told
      BY <1>1, <1>2, <1>7, <1>9, <2>2, <3>1
    <3>3. QED
      BY <3>2 DEF Got
  <2>3. QED
    BY <1>2, <2>1, <2>2
<1>10. ASSUME conn[t] = "registered", NEW r \in Seq(Message), r = <<Shown(e)>>, wire'[t] = wire[t] \o r
       PROVE  /\ \A k \in DOMAIN wire[t] : k \in DOMAIN wire'[t] /\ wire'[t][k] = wire[t][k]
              /\ \A k \in DOMAIN wire'[t] :
                   \/ k \in DOMAIN wire[t]
                   \/ k = Len(wire[t]) + 1 /\ wire'[t][k] = Shown(e)
              /\ Len(wire[t]) + 1 \in DOMAIN wire'[t] /\ wire'[t][Len(wire[t]) + 1] = Shown(e)
              /\ DOMAIN wire[t] = 1..Len(wire[t]) /\ Len(wire[t]) \in Nat
              /\ \A f : On(t, 1, f) => On(t, 1, f)'
              /\ \A k \in DOMAIN wire[t] : \A f : Between(t, 1, k, f) => Between(t, 1, k, f)'
              /\ \A k \in DOMAIN wire'[t] : \A f : k \notin DOMAIN wire[t] /\ On(t, 1, f) => Between(t, 1, k, f)'
  <2>1. 1 \in Nat /\ 0 < 1 /\ DOMAIN r = {1} /\ r[1] = Shown(e)
    BY <1>10
  <2>2. \A k \in DOMAIN wire'[t] :
          \/ k \in DOMAIN wire[t]
          \/ /\ k > Len(wire[t]) /\ k \in Nat
             /\ \E j \in DOMAIN r : k = Len(wire[t]) + j /\ wire'[t][k] = r[j]
    BY <1>10, WireJoined
  <2>3. Len(wire[t]) + 1 \in DOMAIN wire'[t] /\ wire'[t][Len(wire[t]) + 1] = r[1]
    BY <1>10, <2>1, WireJoined
  <2>4. QED
    BY ZenonT(40), <1>10, <2>1, <2>2, <2>3, WireJoined
<1>11. ASSUME NEW f \in numbered', conn[t] = "registered", \A i \in DOMAIN wire'[t] : ~ Failure(t, i)'
       PROVE  Got(t, f) \/ On(t, 1, f)'
  <2>1. \A i \in DOMAIN wire[t] : ~ Failure(t, i)
    BY <1>5, <1>10, <1>11 DEF Failure
  <2>2. CASE f \in numbered
    BY <1>5, <1>7, <1>10, <1>11, <2>1, <2>2
  <2>3. CASE f = e
    <3>1. Len(wire[t]) + 1 \in DOMAIN wire'[t] /\ wire'[t][Len(wire[t]) + 1] = Shown(f) /\ 1 <= Len(wire[t]) + 1
      BY <1>5, <1>10, <1>11, <2>3
    <3>2. QED
      BY <3>1 DEF On, Shown
  <2>4. QED
    BY <1>2, <2>2, <2>3
<1>12. ASSUME NEW k \in DOMAIN wire'[t], NEW f \in numbered', NEW g \in numbered',
              wire'[t][k] = Shown(g), f.seq < g.seq, \A i \in 1..(k - 1) : ~ Failure(t, i)'
       PROVE  Got(t, f) \/ Between(t, 1, k, f)'
  <2>1. f \in numbered
    <3>1. f.seq \in Nat /\ g.seq \in Nat /\ g.seq <= lastSeq /\ (f = e => f.seq = lastSeq)
      BY <1>1, <1>2, <1>12
    <3>2. QED
      BY <1>1, <1>2, <1>12, <3>1
  <2>2. conn[t] = "registered"
    BY <1>2, <1>3, <1>12
  <2>3. CASE k \in DOMAIN wire[t]
    <3>1. wire[t][k] = Shown(g) /\ g \in Frame
      BY <1>1, <1>2, <1>5, <1>10, <2>2, <1>12, <2>3
    <3>2. g \in numbered
      BY <2>3, <3>1, OldFrames
    <3>3. \A i \in 1..(k - 1) : i \in DOMAIN wire[t]
      BY SMTT(30), <1>5, <1>10, <2>2, <2>3
    <3>4. \A i \in 1..(k - 1) : ~ Failure(t, i)
      BY <1>5, <1>10, <1>12, <2>2, <3>3 DEF Failure
    <3>5. Got(t, f) \/ Between(t, 1, k, f)
      BY <1>7, <1>12, <2>1, <2>3, <3>1, <3>2, <3>4
    <3>6. QED
      BY <1>5, <1>10, <2>2, <2>3, <3>5
  <2>4. CASE k \notin DOMAIN wire[t]
    <3>1. k = Len(wire[t]) + 1 /\ DOMAIN wire[t] = 1..Len(wire[t]) /\ Len(wire[t]) \in Nat
      BY <1>5, <1>10, <2>2, <2>4
    <3>2. \A i \in DOMAIN wire[t] : i \in 1..(k - 1)
      BY <3>1
    <3>3. \A i \in DOMAIN wire[t] : ~ Failure(t, i)
      BY <1>5, <1>10, <1>12, <2>2, <3>2 DEF Failure
    <3>4. Got(t, f) \/ On(t, 1, f)
      BY <1>7, <2>1, <2>2, <3>3
    <3>5. QED
      BY <1>5, <1>10, <2>2, <2>4, <3>4
  <2>5. QED
    BY <2>3, <2>4
<1>13. QED
  BY <1>2, <1>6, <1>8, <1>9, <1>11, <1>12 DEF AnchoredAt

(* A frame that such a tab reads. *)
LEMMA AnchoredRead ==
  ASSUME Typed, Typed', Known, Unreset, [Next]_vars, NEW t \in Tabs, ReceiveFrame(t), anchor[t].era = era
  PROVE  AnchoredAt(t)'
<1>1. /\ AnchoredAt(t) /\ InNumbers /\ wire[t] \in Seq(Message) /\ numbered \subseteq Frame
      /\ cursor[t] \in Nat /\ anchor[t].told \in Nat
      /\ \A f \in numbered : f.seq \in Nat
  BY SMTT(30), Numbers, Names DEF Unreset, Rising, Typed, TabsTyped, Anchors
<1>2. /\ wire[t] # <<>> /\ 1 \in DOMAIN wire[t] /\ wire'[t] = Tail(wire[t]) /\ wire[t][1].kind # "resume_failed"
      /\ UNCHANGED <<numbered, conn, anchor, era>>
  BY Reads
<1>3. PICK g \in numbered :
        /\ wire[t][1] = Shown(g) /\ g \in Frame
        /\ \/ g.seq <= cursor[t] /\ cursor'[t] = cursor[t] /\ applied'[t] = applied[t]
           \/ /\ g.seq > cursor[t] /\ cursor'[t] = g.seq
              /\ applied'[t] = Append(applied[t], g.id) /\ applied[t] \in Seq(Ids)
  BY Reads
<1>4. /\ cursor[t] <= anchor[t].told \/ \E f \in numbered : cursor[t] <= f.seq
      /\ \A f \in numbered : f.seq <= cursor[t] => Got(t, f)
      /\ \A f \in numbered : conn[t] = "registered" /\ (\A i \in DOMAIN wire[t] : ~ Failure(t, i)) =>
           Got(t, f) \/ On(t, 1, f)
      /\ \A k \in DOMAIN wire[t] : \A f, h \in numbered :
           /\ wire[t][k] = Shown(h) /\ f.seq < h.seq
           /\ \A i \in 1..(k - 1) : ~ Failure(t, i)
           => Got(t, f) \/ Between(t, 1, k, f)
  BY <1>1 DEF AnchoredAt
<1>5. \A f \in numbered : Got(t, f) => Got(t, f)'
  <2>1. \A k \in DOMAIN applied[t] : k \in DOMAIN applied'[t] /\ applied'[t][k] = applied[t][k]
    <3> DEFINE s == applied[t]
               i == g.id
    <3>1. CASE applied'[t] = applied[t]
      BY <3>1
    <3>2. CASE applied'[t] = Append(s, i) /\ s \in Seq(Ids)
      <4> HIDE DEF s, i
      <4>1. \A k \in DOMAIN s : k \in DOMAIN Append(s, i) /\ Append(s, i)[k] = s[k]
        BY <3>2, Grown
      <4>2. QED
        BY <3>2, <4>1 DEF s, i
    <3>3. QED
      BY <1>3, <3>1, <3>2
  <2>2. QED
    BY <1>2, <2>1 DEF Got
<1>6. Got(t, g)'
  <2>1. CASE g.seq <= cursor[t]
    BY <1>4, <1>5, <2>1
  <2>2. CASE applied'[t] = Append(applied[t], g.id) /\ applied[t] \in Seq(Ids)
    <3> DEFINE s == applied[t]
               i == g.id
    <3>1. applied'[t] = Append(s, i) /\ s \in Seq(Ids)
      BY <2>2
    <3> HIDE DEF s, i
    <3>2. Len(s) + 1 \in DOMAIN Append(s, i) /\ Append(s, i)[Len(s) + 1] = i
      BY <3>1, Grown
    <3>3. \E k \in DOMAIN applied'[t] : applied'[t][k] = i
      BY <3>1, <3>2
    <3>4. QED
      BY <3>3 DEF Got, i
  <2>3. QED
    BY <1>3, <2>1, <2>2
<1>7. \A h \in Frame : wire[t][1] = Shown(h) => h = g
  BY ZenonT(40), <1>3, Messages
<1>8. /\ \A k \in DOMAIN wire'[t] : k \in Nat /\ 0 < k /\ k + 1 \in DOMAIN wire[t] /\ wire'[t][k] = wire[t][k + 1]
      /\ \A k \in DOMAIN wire[t] : k = 1 \/ (k - 1 \in DOMAIN wire'[t] /\ wire'[t][k - 1] = wire[t][k])
      /\ DOMAIN wire[t] = 1..Len(wire[t]) /\ Len(wire[t]) \in Nat
  BY <1>2, WireTail
<1>9. ASSUME NEW f \in numbered, On(t, 1, f) PROVE Got(t, f)' \/ On(t, 1, f)'
  <2>1. PICK j \in DOMAIN wire[t] : wire[t][j] = Shown(f)
    BY <1>9 DEF On
  <2>2. CASE j = 1
    BY <1>1, <1>6, <1>7, <2>1, <2>2
  <2>3. CASE j # 1
    <3>1. j - 1 \in DOMAIN wire'[t] /\ wire'[t][j - 1] = Shown(f) /\ 1 <= j - 1
      BY <1>8, <2>1, <2>3
    <3>2. QED
      BY <3>1 DEF On, Shown
  <2>4. QED
    BY <2>2, <2>3
<1>10. ASSUME NEW k \in DOMAIN wire'[t], NEW f \in numbered, Between(t, 1, k + 1, f)
       PROVE  Got(t, f)' \/ Between(t, 1, k, f)'
  <2>1. PICK j \in 1..((k + 1) - 1) : wire[t][j] = Shown(f)
    BY <1>10 DEF Between
  <2>2. k \in Nat /\ k + 1 <= Len(wire[t]) /\ j \in Nat /\ 1 <= j /\ j <= k
    BY <1>8, <2>1
  <2>3. CASE j = 1
    BY <1>1, <1>6, <1>7, <2>1, <2>3
  <2>4. CASE j # 1
    <3>1. j \in DOMAIN wire[t] /\ j - 1 \in 1..(k - 1)
      BY <1>8, <2>2, <2>4
    <3>2. wire'[t][j - 1] = Shown(f)
      BY <1>8, <2>1, <2>4, <3>1
    <3>3. QED
      BY <3>1, <3>2 DEF Between, Shown
  <2>5. QED
    BY <2>3, <2>4
<1>11. ~ Failure(t, 1)
  BY <1>2 DEF Failure
<1>12. cursor'[t] <= anchor[t].told \/ \E f \in numbered : cursor'[t] <= f.seq
  BY <1>1, <1>3, <1>4
<1>13. ASSUME NEW f \in numbered, f.seq <= cursor'[t] PROVE Got(t, f)'
  <2>1. CASE f.seq <= cursor[t]
    BY <1>4, <1>5, <2>1
  <2>2. CASE cursor'[t] = g.seq /\ ~ (f.seq <= cursor[t])
    <3>1. CASE f.seq = g.seq
      <4>1. f = g
        BY <1>1, <3>1 DEF InNumbers
      <4>2. QED
        BY <1>6, <4>1
    <3>2. CASE f.seq < g.seq
      <4>1. \A i \in 1..(1 - 1) : ~ Failure(t, i)
        OBVIOUS
      <4>2. Got(t, f) \/ Between(t, 1, 1, f)
        BY <1>2, <1>3, <1>4, <3>2, <4>1
      <4>3. ~ Between(t, 1, 1, f)
        BY DEF Between
      <4>4. QED
        BY <1>5, <4>2, <4>3
    <3>3. f.seq = g.seq \/ f.seq < g.seq
      BY <1>1, <1>13, <2>2
    <3>4. QED
      BY <3>1, <3>2, <3>3
  <2>3. QED
    BY <1>3, <1>13, <2>1, <2>2
<1>14. ASSUME NEW f \in numbered, conn[t] = "registered", \A i \in DOMAIN wire'[t] : ~ Failure(t, i)'
       PROVE  Got(t, f)' \/ On(t, 1, f)'
  <2>1. ASSUME NEW i \in DOMAIN wire[t] PROVE ~ Failure(t, i)
    <3>1. CASE i = 1
      BY <1>11, <3>1
    <3>2. CASE i # 1
      BY <1>8, <1>14, <3>2 DEF Failure
    <3>3. QED
      BY <3>1, <3>2
  <2>2. QED
    BY <1>4, <1>5, <1>9, <1>14, <2>1
<1>15. ASSUME NEW k \in DOMAIN wire'[t], NEW f \in numbered, NEW h \in numbered,
              wire'[t][k] = Shown(h), f.seq < h.seq, \A i \in 1..(k - 1) : ~ Failure(t, i)'
       PROVE  Got(t, f)' \/ Between(t, 1, k, f)'
  <2>1. k \in Nat /\ 0 < k /\ k + 1 \in DOMAIN wire[t] /\ wire[t][k + 1] = Shown(h)
    BY <1>8, <1>15
  <2>2. ASSUME NEW i \in 1..((k + 1) - 1) PROVE ~ Failure(t, i)
    <3>1. CASE i = 1
      BY <1>11, <3>1
    <3>2. CASE i # 1
      <4>1. i \in DOMAIN wire[t] /\ i - 1 \in 1..(k - 1)
        BY <1>8, <2>1, <3>2
      <4>2. ~ Failure(t, i - 1)' /\ i - 1 \in DOMAIN wire'[t] /\ wire'[t][i - 1] = wire[t][i]
        BY <1>8, <1>15, <3>2, <4>1
      <4>3. QED
        BY <4>2 DEF Failure
    <3>3. QED
      BY <3>1, <3>2
  <2>3. Got(t, f) \/ Between(t, 1, k + 1, f)
    BY <1>4, <1>15, <2>1, <2>2
  <2>4. QED
    BY <1>5, <1>10, <2>3
<1>16. QED
  BY <1>2, <1>12, <1>13, <1>14, <1>15 DEF AnchoredAt

(* A tab that is told of a gap is not exempt any more. *)
LEMMA AnchoredTold ==
  ASSUME Typed, Known, Unreset, [Next]_vars, NEW t \in Tabs, HandleResumeFailed(t)
  PROVE  AnchoredAt(t)'
<1> DEFINE n == wire[t][1].seq
<1>1. /\ AdmittedTo(t) /\ numbered \subseteq Frame /\ \A f \in numbered : f.seq \in Nat
  BY Numbers DEF Unreset
<1>2. /\ wire[t] # <<>> /\ 1 \in DOMAIN wire[t] /\ wire[t][1].kind = "resume_failed" /\ n \in Nat
      /\ wire'[t] = Tail(wire[t]) /\ cursor'[t] = n
      /\ anchor'[t] = [era |-> era, told |-> n]
      /\ UNCHANGED <<numbered, conn, applied, era>>
  BY ReadsAdmission
<1>3. \A f \in numbered : f.seq > n =>
        /\ On(t, 2, f)
        /\ \A k \in DOMAIN wire[t] : \A g \in numbered :
             1 < k /\ wire[t][k] = Shown(g) /\ f.seq < g.seq => Between(t, 2, k, f)
  <2>1. Failure(t, 1) /\ 1 + 1 = 2
    BY <1>2 DEF Failure
  <2>2. QED
    BY <1>1, <1>2, <2>1 DEF AdmittedTo
<1>4. anchor'[t].told = n /\ n <= n
  BY <1>2
<1>5. \A f \in numbered : f.seq <= n => Got(t, f)'
  BY <1>4 DEF Got
<1> HIDE DEF n
<1>6. ASSUME NEW f \in numbered PROVE Got(t, f)' \/ On(t, 1, f)'
  <2>1. CASE f.seq <= n
    BY <1>5, <2>1
  <2>2. CASE f.seq > n
    <3>1. On(t, 1 + 1, f) /\ 1 \in Nat /\ 0 < 1
      BY <1>3, <2>2
    <3>2. QED
      BY <1>2, <3>1, WireTail
  <2>3. QED
    BY <1>1, <1>2, <2>1, <2>2
<1>7. ASSUME NEW k \in DOMAIN wire'[t], NEW f \in numbered, NEW g \in numbered,
             wire'[t][k] = Shown(g), f.seq < g.seq
      PROVE  Got(t, f)' \/ Between(t, 1, k, f)'
  <2>1. CASE f.seq <= n
    BY <1>5, <2>1
  <2>2. CASE f.seq > n
    <3>1. k \in Nat /\ 0 < k /\ k + 1 \in DOMAIN wire[t] /\ wire[t][k + 1] = Shown(g)
      BY <1>2, <1>7, WireTail
    <3>2. Between(t, 1 + 1, k + 1, f)
      BY <1>3, <1>7, <2>2, <3>1
    <3>3. 1 \in Nat /\ 0 < 1
      OBVIOUS
    <3>4. QED
      BY <1>2, <3>2, <3>3, WireTail
  <2>3. QED
    BY <1>1, <1>2, <2>1, <2>2
<1>8. QED
  BY <1>2, <1>4, <1>5, <1>6, <1>7 DEF AnchoredAt

(* A tab whose hello is answered: it gets all that it has not got, in order, or is told. *)
LEMMA AnchoredResume ==
  ASSUME Typed, Known, Wired, Unreset, [Next]_vars, ~ Resets, NEW t \in Tabs, AutoResumeFromHello(t),
         anchor[t].era = era
  PROVE  AnchoredAt(t)'
<1> DEFINE r == Replay(ring', hello[t])
<1>1. /\ AnchoredAt(t) /\ InNumbers /\ wire[t] \in Seq(Message) /\ numbered \subseteq Frame
      /\ cursor[t] \in Nat /\ anchor[t].told \in Nat /\ lastSeq \in Nat
      /\ \A f \in numbered : f.seq \in Nat
  BY Numbers, Names DEF Unreset, Rising, Typed, TabsTyped, Anchors
<1>2. /\ UNCHANGED <<numbered, cursor, applied, anchor, era>> /\ r \in Seq(Message) /\ wire'[t] = wire[t] \o r
      /\ ring' \in Seq(Frame) /\ hello[t] \in Nat /\ hello[t] # None
  BY Answer, Names DEF AutoResumeFromHello
<1>3. Latest(ring', numbered)
  <2>1. Latest(ring, numbered)'
    BY InRingStep
  <2>2. QED
    BY <1>2, <2>1 DEF Latest, Sorted
<1>4. /\ cursor[t] <= anchor[t].told \/ \E f \in numbered : cursor[t] <= f.seq
      /\ \A f \in numbered : f.seq <= cursor[t] => Got(t, f)
      /\ \A f \in numbered : conn[t] = "registered" /\ (\A i \in DOMAIN wire[t] : ~ Failure(t, i)) =>
           Got(t, f) \/ On(t, 1, f)
      /\ \A k \in DOMAIN wire[t] : \A f, g \in numbered :
           /\ wire[t][k] = Shown(g) /\ f.seq < g.seq
           /\ \A i \in 1..(k - 1) : ~ Failure(t, i)
           => Got(t, f) \/ Between(t, 1, k, f)
  BY <1>1 DEF AnchoredAt
<1>5. \A f : Got(t, f)' <=> Got(t, f)
  BY <1>2 DEF Got
<1> DEFINE Arrives ==
      \A f \in numbered : (\A i \in DOMAIN wire'[t] : ~ Failure(t, i)') => Got(t, f) \/ On(t, 1, f)'
           Leads ==
      \A k \in DOMAIN wire'[t] : \A f, g \in numbered :
        /\ wire'[t][k] = Shown(g) /\ f.seq < g.seq
        /\ \A i \in 1..(k - 1) : ~ Failure(t, i)'
        => Got(t, f) \/ Between(t, 1, k, f)'
<1>6. ASSUME conn[t] = "registered" PROVE Arrives /\ Leads
  <2> HIDE DEF r
  <2>1. /\ \A k \in DOMAIN wire[t] : k \in DOMAIN wire'[t] /\ wire'[t][k] = wire[t][k]
        /\ DOMAIN wire[t] = 1..Len(wire[t]) /\ Len(wire[t]) \in Nat
        /\ \A f : On(t, 1, f) => On(t, 1, f)'
    BY <1>2, WireJoined
  <2>2. /\ \A k \in DOMAIN wire[t] : \A f : Between(t, 1, k, f) => Between(t, 1, k, f)'
        /\ \A k \in DOMAIN wire'[t] : \A f : k \notin DOMAIN wire[t] /\ On(t, 1, f) => Between(t, 1, k, f)'
        /\ \A k \in DOMAIN wire'[t] : k \in DOMAIN wire[t] \/ (k > Len(wire[t]) /\ k \in Nat)
    <3>1. 1 \in Nat /\ 0 < 1
      OBVIOUS
    <3>2. QED
      BY <1>2, <3>1, WireJoined
  <2>3. \A i \in DOMAIN wire[t] : Failure(t, i) => Failure(t, i)'
    BY <2>1 DEF Failure
  <2>4. Arrives
    BY <1>4, <1>6, <2>1, <2>3
  <2>5. ASSUME NEW k \in DOMAIN wire'[t], NEW f \in numbered, NEW g \in numbered,
               wire'[t][k] = Shown(g), f.seq < g.seq, \A i \in 1..(k - 1) : ~ Failure(t, i)'
        PROVE  Got(t, f) \/ Between(t, 1, k, f)'
    <3>1. CASE k \in DOMAIN wire[t]
      <4>1. \A i \in 1..(k - 1) : i \in DOMAIN wire[t]
        BY <2>1, <3>1
      <4>2. \A i \in 1..(k - 1) : ~ Failure(t, i)
        BY <2>3, <2>5, <4>1
      <4>3. wire[t][k] = Shown(g)
        BY <2>1, <2>5, <3>1
      <4>4. Got(t, f) \/ Between(t, 1, k, f)
        BY <1>4, <2>5, <3>1, <4>2, <4>3
      <4>5. QED
        BY <2>2, <3>1, <4>4
    <3>2. CASE k \notin DOMAIN wire[t]
      <4>1. \A i \in DOMAIN wire[t] : i \in 1..(k - 1)
        BY <2>1, <2>2, <3>2
      <4>2. \A i \in DOMAIN wire[t] : ~ Failure(t, i)
        BY <2>3, <2>5, <4>1
      <4>3. QED
        BY <1>4, <1>6, <2>2, <3>2, <4>2
    <3>3. QED
      BY <3>1, <3>2
  <2>6. QED
    BY <2>4, <2>5
<1>7. ASSUME conn[t] # "registered" PROVE Arrives /\ Leads
  <2>1. wire[t] = <<>> /\ hello[t] = cursor[t]
    BY <1>2, <1>7 DEF Wired
  <2>2. wire'[t] = r
    <3>1. <<>> \o r = r
      BY <1>2
    <3>2. QED
      BY <1>2, <2>1, <3>1
  <2>3. CASE r = <<Failed(lastSeq)>>
    <3>1. DOMAIN wire'[t] = {1} /\ wire'[t][1] = Failed(lastSeq)
      BY <2>2, <2>3
    <3>2. Failure(t, 1)'
      BY <1>1, <3>1, Messages DEF Failure
    <3>3. \A g \in numbered : wire'[t][1] # Shown(g)
      BY <1>1, <3>1, Messages
    <3>4. QED
      BY <3>1, <3>2, <3>3
  <2>4. CASE r = <<>> /\ hello[t] = lastSeq
    <3>1. \A f \in numbered : f.seq <= cursor[t]
      BY <1>1, <2>1, <2>4 DEF InNumbers
    <3>2. \A f \in numbered : Got(t, f)
      BY <1>4, <3>1
    <3>3. QED
      BY <3>2
  <2>5. CASE /\ ring' # <<>> /\ ring'[1].seq <= hello[t] + 1
             /\ DOMAIN r = DOMAIN After(ring', hello[t])
             /\ \A k \in DOMAIN r : r[k] = Shown(After(ring', hello[t])[k])
    <3> DEFINE a == After(ring', hello[t])
    <3>1. a \in Seq(Frame) /\ Picked(ring', hello[t], Len(ring'), a)
      BY <1>2, AfterPicks
    <3>2. /\ Sorted(a) /\ DOMAIN ring' = 1..Len(ring')
          /\ \A k \in DOMAIN ring' : ring'[k].seq > hello[t] => \E i \in DOMAIN a : a[i] = ring'[k]
      <4>1. DOMAIN ring' = 1..Len(ring')
        BY <1>2
      <4>2. QED
        BY <1>3, <3>1, <4>1 DEF Picked, Latest
    <3>3. /\ DOMAIN wire'[t] = DOMAIN a /\ \A k \in DOMAIN a : wire'[t][k] = Shown(a[k]) /\ a[k] \in Frame
          /\ DOMAIN a = 1..Len(a) /\ Len(a) \in Nat
      BY <2>2, <2>5, <3>1
    <3> HIDE DEF a
    <3>4. ASSUME NEW f \in numbered, ~ Got(t, f) PROVE \E i \in DOMAIN a : a[i] = f
      <4>1. f.seq \in Nat /\ f.seq > hello[t]
        BY <1>1, <1>4, <2>1, <3>4
      <4>2. 1 \in DOMAIN ring' /\ ring'[1].seq \in Nat
        <5>1. 1 \in DOMAIN ring'
          BY <1>2, <2>5, Shrunk
        <5>2. QED
          BY <1>1, <1>3, <5>1 DEF Latest
      <4>3. ring'[1].seq <= f.seq
        BY <1>2, <2>5, <4>1, <4>2
      <4>4. PICK k \in DOMAIN ring' : ring'[k] = f
        BY <1>3, <2>5, <4>3 DEF Latest
      <4>5. QED
        BY <3>2, <4>1, <4>4
    <3>5. Arrives
      <4>1. ASSUME NEW f \in numbered, ~ Got(t, f) PROVE On(t, 1, f)'
        <5>1. PICK i \in DOMAIN a : a[i] = f
          BY <3>4, <4>1
        <5>2. i \in DOMAIN wire'[t] /\ 1 <= i /\ wire'[t][i] = Shown(f)
          BY <3>3, <5>1
        <5>3. QED
          BY <5>2 DEF On, Shown
      <4>2. QED
        BY <4>1
    <3>6. ASSUME NEW k \in DOMAIN wire'[t], NEW f \in numbered, NEW g \in numbered,
                 wire'[t][k] = Shown(g), f.seq < g.seq, ~ Got(t, f)
          PROVE  Between(t, 1, k, f)'
      <4>1. PICK i \in DOMAIN a : a[i] = f
        BY <3>4, <3>6
      <4>2. k \in DOMAIN a /\ a[k] = g
        BY <1>1, <3>3, <3>6, Messages
      <4>3. ~ (k < i) /\ k # i
        <5>1. f.seq \in Nat /\ g.seq \in Nat /\ ~ (g.seq < f.seq) /\ f.seq # g.seq
          BY <1>1, <3>6
        <5>2. QED
          BY <3>2, <4>1, <4>2, <5>1 DEF Sorted
      <4>4. i \in 1..(k - 1)
        BY <3>3, <4>1, <4>2, <4>3
      <4>5. wire'[t][i] = Shown(f)
        BY <3>3, <4>1
      <4>6. QED
        BY <4>4, <4>5 DEF Between, Shown
    <3>7. QED
      BY <3>5, <3>6
  <2>6. QED
    BY <1>1, <1>2, <2>3, <2>4, <2>5, Replays
<1>8. Arrives /\ Leads
  BY <1>6, <1>7
<1>9. QED
  BY <1>2, <1>4, <1>5, <1>8 DEF AnchoredAt

(* A tab of which nothing changes that matters. *)
LEMMA AnchoredStays ==
  ASSUME NEW t \in Tabs, AnchoredAt(t), wire'[t] = wire[t], cursor'[t] = cursor[t], applied'[t] = applied[t],
         anchor'[t] = anchor[t], UNCHANGED <<numbered, era>>, conn'[t] = "registered" => conn[t] = "registered"
  PROVE  AnchoredAt(t)'
<1>1. \A f : Got(t, f)' <=> Got(t, f)
  BY DEF Got
<1>2. \A i, f : On(t, i, f)' <=> On(t, i, f)
  BY DEF On, Shown
<1>3. \A i, k, f : Between(t, i, k, f)' <=> Between(t, i, k, f)
  BY DEF Between, Shown
<1>4. \A i : Failure(t, i)' <=> Failure(t, i)
  BY DEF Failure
<1>5. QED
  BY <1>1, <1>2, <1>3, <1>4 DEF AnchoredAt

(* A tab that is not exempt has got, or was told of, all that is not on its way. *)
LEMMA AnchoredAtStep ==
  ASSUME Typed, Typed', Known, Wired, Unreset, [Next]_vars, ~ Resets, NEW t \in Tabs
  PROVE  AnchoredAt(t)'
<1> SUFFICES ASSUME anchor'[t].era = era' PROVE AnchoredAt(t)'
  BY DEF AnchoredAt
<1>1. /\ conn \in [Tabs -> {"down", "open", "registered"}] /\ cursor \in [Tabs -> 0..MaxFrames]
      /\ wire \in [Tabs -> Seq(Message)] /\ anchor \in [Tabs -> Anchors] /\ era \in Nat /\ None \notin Nat
      /\ anchor[t].era # None => anchor[t].era <= era /\ anchor[t].era \in Nat
      /\ AnchoredAt(t) /\ cursor[t] \in Nat
      /\ \A f \in numbered : f.seq \in Nat /\ f.seq # 0
  <2>1. /\ conn \in [Tabs -> {"down", "open", "registered"}] /\ cursor \in [Tabs -> 0..MaxFrames]
        /\ wire \in [Tabs -> Seq(Message)] /\ anchor \in [Tabs -> Anchors] /\ era \in Nat
        /\ anchor[t].era # None => anchor[t].era <= era
    BY DEF Typed, CountsTyped, TabsTyped
  <2>2. anchor[t].era # None => anchor[t].era \in Nat
    BY <2>1 DEF Anchors
  <2>3. AnchoredAt(t) /\ None \notin Nat /\ cursor[t] \in Nat
    BY <2>1, Names DEF Unreset
  <2>4. QED
    BY <2>1, <2>2, <2>3, Numbers
<1>2. CASE Quiet(t)
  BY <1>1, <1>2, AnchoredStays DEF Quiet
<1>3. CASE Send
  <2>1. anchor[t].era = era
    BY <1>3 DEF Send
  <2>2. QED
    BY <1>3, <2>1, AnchoredSend
<1>4. CASE Restart
  <2>1. anchor' = anchor /\ era' = era + 1
    BY <1>4 DEF Restart, BeginNumbering
  <2>2. QED
    BY <1>1, <2>1
<1>5. CASE ReceiveFrame(t)
  <2>1. anchor[t].era = era
    BY <1>5, Reads
  <2>2. QED
    BY <1>5, <2>1, AnchoredRead
<1>6. CASE HandleResumeFailed(t)
  BY <1>6, AnchoredTold
<1>7. CASE AutoResumeFromHello(t)
  <2>1. anchor[t].era = era
    BY <1>7 DEF AutoResumeFromHello
  <2>2. QED
    BY <1>7, <2>1, AnchoredResume
<1>8. CASE Connect(t)
  <2>1. /\ conn[t] = "down" /\ conn'[t] = "open" /\ UNCHANGED <<wire, cursor, applied, numbered, era>>
        /\ anchor' = IF cursor[t] = 0 THEN [anchor EXCEPT ![t] = [era |-> era, told |-> 0]] ELSE anchor
    BY <1>1, <1>8 DEF Connect, SendHello
  <2>2. wire[t] = <<>>
    BY <2>1 DEF Wired
  <2>3. CASE cursor[t] = 0
    <3>1. anchor'[t].told = 0 /\ cursor'[t] = 0 /\ wire'[t] = <<>> /\ conn'[t] # "registered"
      BY <1>1, <2>1, <2>2, <2>3
    <3>2. \A f \in numbered' : ~ (f.seq <= cursor'[t])
      BY <1>1, <2>1, <2>3
    <3>3. cursor'[t] <= anchor'[t].told
      BY <3>1
    <3>4. QED
      BY <3>1, <3>2, <3>3 DEF AnchoredAt
  <2>4. CASE cursor[t] # 0
    <3>1. anchor' = anchor /\ conn'[t] # "registered"
      BY <2>1, <2>4
    <3>2. QED
      BY <1>1, <2>1, <3>1, AnchoredStays
  <2>5. QED
    BY <2>3, <2>4
<1>9. CASE SendMessage(t)
  <2>1. /\ conn'[t] = "registered" /\ conn[t] # "down" /\ UNCHANGED <<wire, cursor, applied, numbered, era>>
        /\ anchor' = IF conn[t] = "open" /\ Behind(t) THEN [anchor EXCEPT ![t].era = None] ELSE anchor
    BY <1>1, <1>9 DEF SendMessage
  <2>2. CASE conn[t] = "open" /\ Behind(t)
    <3>1. anchor'[t].era = None
      BY <1>1, <2>1, <2>2 DEF Anchors
    <3>2. QED
      BY <1>1, <2>1, <3>1
  <2>3. CASE conn[t] = "registered"
    <3>1. anchor' = anchor
      BY <2>1, <2>3
    <3>2. QED
      BY <1>1, <2>1, <2>3, <3>1, AnchoredStays
  <2>4. CASE conn[t] = "open" /\ ~ Behind(t)
    <3>1. anchor' = anchor /\ anchor[t].era = era
      BY <2>1, <2>4
    <3>2. \A f \in numbered : f.seq <= cursor[t]
      BY <1>1, <2>4 DEF Behind
    <3>3. \A f \in numbered : Got(t, f)
      BY <1>1, <3>1, <3>2 DEF AnchoredAt
    <3>4. \A f : Got(t, f)' <=> Got(t, f)
      BY <2>1, <3>1 DEF Got
    <3>5. cursor[t] <= anchor[t].told \/ \E f \in numbered : cursor[t] <= f.seq
      BY <1>1, <3>1 DEF AnchoredAt
    <3>6. QED
      BY <2>1, <3>1, <3>3, <3>4, <3>5 DEF AnchoredAt
  <2>5. QED
    BY <1>1, <2>1, <2>2, <2>3, <2>4
<1>10. CASE Disconnect(t)
  <2>1. /\ conn'[t] = "down" /\ wire'[t] = <<>> /\ UNCHANGED <<cursor, applied, numbered, era, anchor>>
    BY <1>1, <1>10 DEF Disconnect, histVars
  <2>2. QED
    BY <1>1, <2>1 DEF AnchoredAt, Got
<1>11. QED
  BY <1>2, <1>3, <1>4, <1>5, <1>6, <1>7, <1>8, <1>9, <1>10, Cases

--------------------------------------------------------------------------------
(* The invariant. *)

(* It holds at first. *)
LEMMA InvInit ==
  ASSUME Init
  PROVE  IInv
<1>1. Typed
  <2>1. CountsTyped
    <3>1. MaxTurns \in Nat
      BY Names
    <3>2. /\ waiting \in Nat /\ turn \in Nat /\ started \in Nat /\ era \in Nat /\ turns \in Nat
          /\ resets \in Nat /\ turns <= MaxTurns
      BY <3>1 DEF Init
    <3>3. session \in BOOLEAN /\ poisoned \in BOOLEAN
      BY DEF Init
    <3>4. QED
      BY <3>2, <3>3 DEF CountsTyped
  <2>2. LineTyped
    <3>1. /\ made \in Seq(Nat) /\ Len(made) <= MaxFrames /\ tape \in Seq(Ids)
          /\ chain \in Seq({Commit} \cup {Deliver(i) : i \in Ids})
      BY Names DEF Init
    <3>2. \A t \in Tabs : <<>> \in Seq(Ids)
      OBVIOUS
    <3>3. QED
      BY <3>1, <3>2 DEF Init, LineTyped
  <2>3. RingTyped
    BY Names DEF Init, RingTyped
  <2>4. TabsTyped
    <3>1. 0 \in 0..MaxFrames /\ [era |-> 0, told |-> 0] \in Anchors /\ <<>> \in Seq(Message)
      BY Names DEF Anchors
    <3>2. QED
      BY <3>1 DEF Init, TabsTyped
  <2>5. QED
    BY <2>1, <2>2, <2>3, <2>4 DEF Typed
<1>2. Chained
  BY DEF Init, Chained
<1>3. Paid
  <2>1. Commits = {}
    BY DEF Init, Commits
  <2>2. Cardinality(Commits) = 0
    BY <2>1, FS_EmptySet
  <2>3. QED
    BY <2>2 DEF Init, Paid
<1>4. Known
  BY DEF Init, Known
<1>5. Wired
  BY DEF Init, Wired
<1>6. Taped
  BY DEF Init, Taped
<1>7. Rising
  BY DEF Init, Rising, Increasing, OnChain, InHand, InNumbers, Latest, Sorted
<1>8. ASSUME NEW t \in Tabs PROVE ReadBy(t) /\ AdmittedTo(t) /\ AnchoredAt(t)
  <2>1. /\ wire[t] = <<>> /\ applied[t] = <<>> /\ numbered = {} /\ cursor[t] = 0 /\ anchor[t].told = 0
    BY DEF Init
  <2>2. cursor[t] <= anchor[t].told
    BY <2>1
  <2>3. QED
    BY <2>1, <2>2 DEF ReadBy, AdmittedTo, AnchoredAt, Increasing, Later
<1>9. QED
  BY <1>1, <1>2, <1>3, <1>4, <1>5, <1>6, <1>7, <1>8 DEF IInv, Unreset

(* A session that has not been reset after a step was not reset before it. *)
LEMMA NotReset ==
  ASSUME Typed, [Next]_vars, resets' = 0
  PROVE  resets = 0 /\ ~ Resets
<1>1. resets \in Nat
  BY DEF Typed, CountsTyped
<1>2. ASSUME NEW t \in Tabs, Reset(t) PROVE FALSE
  BY <1>1, <1>2 DEF Reset
<1>3. ~ Resets
  BY <1>2 DEF Resets
<1>4. resets' = resets
  BY <1>2
  DEF Next, vars, memVars, histVars, bounds, GatewayStep, TabStep, SendMessage, CommitMessage, CommitFails,
      StartTurn, EndTurn, Emit, SkipPoisoned, AllocateFrameSeq, AppendTape, AppendFails, Send, SendHello,
      Connect, Foreground, AutoResumeFromHello, IgnoreHello, ReceiveFrame, HandleResumeFailed, Disconnect,
      Restart
<1>5. QED
  BY <1>3, <1>4

(* Every step keeps it. *)
LEMMA InvStep ==
  ASSUME IInv, [Next]_vars
  PROVE  IInv'
<1>1. /\ Typed /\ Chained /\ Paid /\ Known /\ Wired /\ Taped /\ CountsTyped /\ LineTyped /\ turn \in Nat
  BY DEF IInv, Typed, CountsTyped
<1>2. Typed'
  BY <1>1, CountsStep, LineStep, RingStep, TabsStep DEF Typed
<1>3. Chained'
  BY <1>1, ChainedStep
<1>4. Paid'
  BY <1>1, PaidStep
<1>5. Known'
  BY <1>1, <1>2, <1>3, KnownStep
<1>6. Wired' /\ Taped'
  BY <1>1, WiredStep, TapedStep
<1>7. ASSUME resets' = 0 PROVE Unreset'
  <2>1. Unreset /\ ~ Resets
    BY <1>1, <1>7, NotReset DEF IInv
  <2>2. Rising'
    BY <1>1, <2>1, InTapeStep, OnChainStep, InHandStep, InNumbersStep, InRingStep DEF Rising
  <2>3. \A t \in Tabs : ReadBy(t)' /\ AdmittedTo(t)' /\ AnchoredAt(t)'
    BY <1>1, <1>2, <2>1, ReadByStep, AdmittedToStep, AnchoredAtStep
  <2>4. QED
    BY <2>2, <2>3 DEF Unreset
<1>8. QED
  BY <1>2, <1>3, <1>4, <1>5, <1>6, <1>7 DEF IInv

(* IInv is an invariant: frames have rising numbers, are on the tape before anyone can
   see them, and what a tab has not got is on its way, in order, or admitted. *)
THEOREM FrameInvariance == Spec => []IInv
<1>1. Init => IInv
  BY InvInit
<1>2. IInv /\ [Next]_vars => IInv'
  BY InvStep
<1>3. QED
  BY <1>1, <1>2, PTL DEF Spec

(* Type correctness, with the bounds of the counters: no more turns start than messages
   were sent, and no more numbers are given out than frames were made. *)
THEOREM FrameTypes == Spec => []TypeOK
<1>1. IInv => TypeOK
  <2> SUFFICES ASSUME IInv PROVE TypeOK
    OBVIOUS
  <2>1. Typed /\ Chained /\ Paid /\ Known /\ CountsTyped /\ LineTyped /\ RingTyped /\ TabsTyped
    BY DEF IInv, Typed
  <2>2. waiting \in 0..MaxTurns /\ turn \in 0..MaxTurns
    <3>1. /\ Cardinality(Commits) \in Nat /\ waiting \in Nat /\ turn \in Nat /\ started \in Nat /\ turns \in Nat
          /\ turns <= MaxTurns /\ MaxTurns \in Nat
          /\ started + waiting + Cardinality(Commits) <= turns /\ turn <= started
      BY <2>1, CommitsCounted, Names DEF CountsTyped, Paid
    <3>2. QED
      BY <3>1
  <2>3. \A k \in DOMAIN chain : chain[k] = Commit \/ chain[k].id \in DOMAIN made
    BY <2>1, Operations DEF Ids
  <2>4. lastSeq \in 0..MaxFrames
    BY <2>1, Names DEF LineTyped, Chained
  <2>5. sending = None \/ (sending.frame \in Frame /\ sending.taped \in BOOLEAN)
    BY <2>1 DEF Known, Of
  <2>6. Range(ring) \subseteq Frame /\ Len(ring) <= MaxEntries
    BY <2>1 DEF RingTyped, Range
  <2>7. Range(tape) \subseteq DOMAIN made
    BY <2>1 DEF LineTyped, Range, Ids
  <2>8. ASSUME NEW t \in Tabs, NEW k \in DOMAIN wire[t]
        PROVE  wire[t][k].kind = "resume_failed" \/ wire[t][k].id \in DOMAIN made
    <3>1. CASE \E f \in Frame : Of(f) /\ wire[t][k] = Shown(f)
      BY <3>1, Messages DEF Of, Ids
    <3>2. CASE \E n \in 0..MaxFrames : wire[t][k] = Failed(n)
      BY <3>2, Messages, Names
    <3>3. QED
      BY <2>1, <3>1, <3>2 DEF Known
  <2>9. QED
    BY <2>1, <2>2, <2>3, <2>4, <2>5, <2>6, <2>7, <2>8 DEF TypeOK, CountsTyped, TabsTyped
<1>2. QED
  BY <1>1, FrameInvariance, PTL

(* No tab is shown, and no ring replays, an answer that the transcript does not have
   (_deliverWebchatAsync). *)
THEOREM FramesTapedFirst == Spec => []TapedFirst
<1>1. IInv => TapedFirst
  <2> SUFFICES ASSUME IInv, NEW i \in {f.id : f \in Range(ring)} \cup UNION {Visible(t) : t \in Tabs},
                      Durable(i)
               PROVE  i \in Range(tape)
    BY DEF TapedFirst
  <2>1. Taped
    BY DEF IInv
  <2>2. CASE i \in {f.id : f \in Range(ring)}
    <3>1. PICK k \in DOMAIN ring : i = ring[k].id
      BY <2>2 DEF Range
    <3>2. Ok(i)
      BY <2>1, <3>1 DEF Taped
    <3>3. QED
      BY <3>2 DEF Ok, Range
  <2>3. CASE i \in UNION {Visible(t) : t \in Tabs}
    <3>1. PICK t \in Tabs : i \in Visible(t)
      BY <2>3
    <3>2. CASE i \in Range(applied[t])
      <4>1. PICK k \in DOMAIN applied[t] : i = applied[t][k]
        BY <3>2 DEF Range
      <4>2. Ok(i)
        BY <2>1, <4>1 DEF Taped
      <4>3. QED
        BY <4>2 DEF Ok, Range
    <3>3. CASE i \in {m.id : m \in {n \in Range(wire[t]) : n.kind = "frame"}}
      <4>1. PICK k \in DOMAIN wire[t] : i = wire[t][k].id /\ wire[t][k].kind = "frame"
        BY <3>3 DEF Range
      <4>2. Ok(i)
        BY <2>1, <4>1 DEF Taped
      <4>3. QED
        BY <4>2 DEF Ok, Range
    <3>4. QED
      BY <3>1, <3>2, <3>3 DEF Visible
  <2>4. QED
    BY <2>2, <2>3
<1>2. QED
  BY <1>1, FrameInvariance, PTL

(* As long as nobody resets the session, the transcript and every tab have the frames in
   the order in which they were made, and none twice (_enqueueSessionDelivery). *)
THEOREM FramesInOrder == Spec => []InOrder
<1>1. IInv => InOrder
  BY DEF IInv, Unreset, Rising, ReadBy, InOrder
<1>2. QED
  BY <1>1, FrameInvariance, PTL

(* As long as nobody resets the session, a registered tab has got every frame of the
   numbering that its cursor is of, or the frame is on its way, or the tab was or is being
   told of the gap (peekReplay, autoResumeFromHello). *)
THEOREM GapsAreTold == Spec => []NoSilentGap
<1>1. IInv => NoSilentGap
  <2> SUFFICES ASSUME IInv, resets = 0, NEW t \in Tabs, conn[t] = "registered", anchor[t].era = era,
                      NEW f \in numbered
               PROVE  f.id \in Visible(t) \/ ToldOf(t, f)
    BY DEF NoSilentGap
  <2>1. AnchoredAt(t) /\ AdmittedTo(t) /\ wire[t] \in Seq(Message) /\ f \in Frame /\ f.seq \in Nat
    BY Numbers DEF IInv, Unreset, Typed, TabsTyped
  <2>2. ASSUME Got(t, f) PROVE f.id \in Visible(t) \/ ToldOf(t, f)
    <3>1. CASE \E k \in DOMAIN applied[t] : applied[t][k] = f.id
      BY <3>1 DEF Visible, Range
    <3>2. QED
      BY <2>2, <3>1 DEF Got, ToldOf
  <2>3. ASSUME NEW i, On(t, i, f) PROVE f.id \in Visible(t)
    <3>1. PICK j \in DOMAIN wire[t] : wire[t][j] = Shown(f)
      BY <2>3 DEF On
    <3>2. wire[t][j].kind = "frame" /\ wire[t][j].id = f.id
      BY <2>1, <3>1, Messages
    <3>3. wire[t][j] \in {n \in Range(wire[t]) : n.kind = "frame"}
      BY <3>2 DEF Range
    <3>4. QED
      BY <3>2, <3>3 DEF Visible
  <2>4. CASE \A i \in DOMAIN wire[t] : ~ Failure(t, i)
    <3>1. Got(t, f) \/ On(t, 1, f)
      BY <2>1, <2>4 DEF AnchoredAt
    <3>2. QED
      BY <2>2, <2>3, <3>1
  <2>5. ASSUME NEW i \in DOMAIN wire[t], Failure(t, i) PROVE f.id \in Visible(t) \/ ToldOf(t, f)
    <3>1. wire[t][i].seq \in Nat /\ wire[t][i].kind = "resume_failed" /\ wire[t][i] \in Range(wire[t])
      <4>1. wire[t][i] \in Message
        BY <2>1
      <4>2. QED
        BY <2>5, <4>1 DEF Failure, Message, Range
    <3>2. CASE f.seq <= wire[t][i].seq
      BY <3>1, <3>2 DEF ToldOf
    <3>3. CASE f.seq > wire[t][i].seq
      <4>1. On(t, i + 1, f)
        BY <2>1, <2>5, <3>3 DEF AdmittedTo
      <4>2. QED
        BY <2>3, <4>1
    <3>4. QED
      BY <2>1, <3>1, <3>2, <3>3
  <2>6. QED
    BY <2>4, <2>5
<1>2. QED
  BY <1>1, FrameInvariance, PTL

================================================================================
