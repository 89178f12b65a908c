---------------------------- MODULE SessionProof ----------------------------
(***************************************************************************)
(* Theorems about runs and benchmarks for every chunk, cap, queue and      *)
(* number of programs: the output is the program's own, the exit code is   *)
(* the verdict, a run is over its cap by less than a chunk, and no spinner *)
(* writes over a result.                                                   *)
(***************************************************************************)
EXTENDS Session, SequenceTheorems, TLAPS

(* A byte on its way, with the program that sent it. *)
Item == [program : Nat, n : Nat]

Rising(q) == \A i, j \in DOMAIN q : i < j => q[i].n < q[j].n

(* Bytes of program p in the order of sending, up to the k-th. *)
SentBy(q, p, k) == (\A i \in DOMAIN q : q[i].program = p /\ q[i].n <= k) /\ Rising(q)

-----------------------------------------------------------------------------
(* Queues. *)

(* What is cut from a queue's front, and what is read from it. *)
LEMMA SuffixType ==
  ASSUME NEW q \in Seq(Item), NEW d \in 0 .. Len(q)
  PROVE  /\ SubSeq(q, d + 1, Len(q)) \in Seq(Item)
         /\ Len(SubSeq(q, d + 1, Len(q))) = Len(q) - d
         /\ \A i \in 1 .. Len(q) - d : SubSeq(q, d + 1, Len(q))[i] = q[i + d]
         /\ SubSeq(q, 1, d) \in Seq(Item)
         /\ SubSeq(q, 1, d) \o SubSeq(q, d + 1, Len(q)) = q
<1>1. Len(q) \in Nat /\ \A i \in 1 .. Len(q) : q[i] \in Item
  OBVIOUS
<1>2. SubSeq(q, 1, d) \in Seq(Item)
  BY <1>1, SubSeqProperties
<1>3. /\ SubSeq(q, d + 1, Len(q)) \in Seq(Item)
      /\ Len(SubSeq(q, d + 1, Len(q))) = Len(q) - d
  BY <1>1, SubSeqProperties
<1>4. \A i \in 1 .. Len(q) - d : SubSeq(q, d + 1, Len(q))[i] = q[i + d]
  BY <1>1
<1>5. SubSeq(q, 1, d) \o SubSeq(q, d + 1, Len(q)) = q
  <2>1. 1 \in 1 .. Len(q) + 1 /\ d \in 1 - 1 .. Len(q) /\ Len(q) \in d .. Len(q)
    BY <1>1
  <2>2. SubSeq(q, 1, d) \o SubSeq(q, d + 1, Len(q)) = SubSeq(q, 1, Len(q))
    BY <2>1, ConcatAdjacentSubSeq
  <2> QED BY <2>2, SubSeqFull
<1> QED BY <1>2, <1>3, <1>4, <1>5

LEMMA NewestIsSuffix ==
  ASSUME NEW q \in Seq(Item)
  PROVE  \E d \in 0 .. Len(q) : /\ Newest(q) = SubSeq(q, d + 1, Len(q))
                                /\ Len(q) - d <= MaxBuffered
                                /\ Len(q) <= MaxBuffered => d = 0
<1>1. Len(q) \in Nat /\ MaxBuffered \in Nat
  BY SessionAssumption
<1>2. CASE Len(q) > MaxBuffered
  <2>1. Len(q) - MaxBuffered \in 0 .. Len(q)
    BY <1>1, <1>2
  <2> QED BY <1>1, <1>2, <2>1 DEF Newest
<1>3. CASE Len(q) <= MaxBuffered
  <2>1. 0 \in 0 .. Len(q) /\ 0 + 1 = 1
    BY <1>1
  <2>2. Newest(q) = SubSeq(q, 0 + 1, Len(q))
    BY <1>1, <1>3, <2>1, SubSeqFull DEF Newest
  <2> QED BY <1>1, <1>3, <2>1, <2>2
<1> QED BY <1>1, <1>2, <1>3

LEMMA ReadSplits ==
  ASSUME NEW q \in Seq(Item)
  PROVE  /\ ReadUart(q) \in Seq(Item) /\ AfterRead(q) \in Seq(Item)
         /\ ReadUart(q) \o AfterRead(q) = q
         /\ Len(AfterRead(q)) <= Len(q)
         /\ AfterRead(q) # <<>> => Len(ReadUart(q)) = ReadCap
<1> DEFINE d == IF Len(q) < ReadCap THEN Len(q) ELSE ReadCap
<1>1. Len(q) \in Nat /\ d \in 0 .. Len(q)
  BY SessionAssumption
<1>2. ReadUart(q) = SubSeq(q, 1, d)
  BY DEF ReadUart
<1> HIDE DEF d
<1>3. Len(SubSeq(q, 1, d)) = d
  <2>1. \A i \in 1 .. d : q[i] \in Item
    BY <1>1
  <2> QED BY <1>1, <2>1, SubSeqProperties
<1>4. AfterRead(q) = SubSeq(q, d + 1, Len(q))
  BY <1>2, <1>3 DEF AfterRead
<1>5. /\ SubSeq(q, 1, d) \in Seq(Item) /\ SubSeq(q, d + 1, Len(q)) \in Seq(Item)
      /\ Len(SubSeq(q, d + 1, Len(q))) = Len(q) - d
      /\ SubSeq(q, 1, d) \o SubSeq(q, d + 1, Len(q)) = q
  BY <1>1, SuffixType
<1>6. Len(q) - d <= Len(q)
  BY <1>1
<1>7. SubSeq(q, d + 1, Len(q)) # <<>> => d = ReadCap
  <2> SUFFICES ASSUME d # ReadCap PROVE SubSeq(q, d + 1, Len(q)) = <<>>
    OBVIOUS
  <2>1. Len(q) - d = 0
    BY <1>1 DEF d
  <2> QED BY <1>5, <2>1, EmptySeq
<1> QED BY <1>2, <1>3, <1>4, <1>5, <1>6, <1>7, Zenon

LEMMA Regroup ==
  ASSUME NEW q \in Seq(Item), NEW r \in Seq(Item), NEW s \in Seq(Item)
  PROVE  (q \o r) \o s = q \o (r \o s)
BY ConcatAssociative

LEMMA NewBytes ==
  ASSUME NEW m \in Nat, NEW p \in Nat, NEW k \in Nat
  PROVE  LET r == [i \in 1 .. m |-> [program |-> p, n |-> k + i]]
         IN  /\ r \in Seq(Item) /\ Len(r) = m
             /\ \A i \in DOMAIN r : r[i] = [program |-> p, n |-> k + i]
<1> DEFINE r == [i \in 1 .. m |-> [program |-> p, n |-> k + i]]
<1>1. r \in [1 .. m -> Item] /\ DOMAIN r = 1 .. m
  BY DEF Item
<1>2. \A i \in DOMAIN r : r[i] = [program |-> p, n |-> k + i]
  OBVIOUS
<1> HIDE DEF r
<1>3. r \in Seq(Item) /\ Len(r) = m
  BY <1>1
<1> QED BY <1>2, <1>3 DEF r

(* Bytes sent after those of a queue go on from it. *)
LEMMA SentGoesOn ==
  ASSUME NEW q \in Seq(Item), NEW r \in Seq(Item), NEW p \in Nat, NEW k \in Nat,
         SentBy(q, p, k), \A i \in DOMAIN r : r[i] = [program |-> p, n |-> k + i]
  PROVE  SentBy(q \o r, p, k + Len(r))
<1> DEFINE t == q \o r
<1>1. /\ t \in Seq(Item) /\ Len(t) = Len(q) + Len(r)
      /\ \A i \in 1 .. Len(q) + Len(r) : t[i] = IF i <= Len(q) THEN q[i] ELSE r[i - Len(q)]
  BY ConcatProperties
<1> HIDE DEF t
<1>2. /\ DOMAIN q = 1 .. Len(q) /\ DOMAIN r = 1 .. Len(r) /\ DOMAIN t = 1 .. Len(q) + Len(r)
      /\ Len(q) \in Nat /\ Len(r) \in Nat
      /\ \A i \in DOMAIN q : q[i].n \in Nat
  <2>1. \A i \in DOMAIN q : q[i] \in Item
    OBVIOUS
  <2> QED BY <1>1, <2>1 DEF Item
<1>3. ASSUME NEW i \in DOMAIN t, i > Len(q)
      PROVE  t[i].program = p /\ t[i].n = k + (i - Len(q)) /\ i - Len(q) \in 1 .. Len(r)
  <2>1. i - Len(q) \in 1 .. Len(r) /\ t[i] = r[i - Len(q)]
    BY <1>1, <1>2, <1>3
  <2>2. r[i - Len(q)] = [program |-> p, n |-> k + (i - Len(q))]
    BY <1>2, <2>1
  <2> QED BY <2>1, <2>2
<1>4. ASSUME NEW i \in DOMAIN t, i <= Len(q)
      PROVE  i \in DOMAIN q /\ t[i] = q[i] /\ t[i].program = p /\ t[i].n <= k /\ t[i].n \in Nat
  BY <1>1, <1>2, <1>4 DEF SentBy
<1>5. ASSUME NEW i \in DOMAIN t
      PROVE  t[i].program = p /\ t[i].n <= k + Len(r)
  <2>1. CASE i > Len(q)
    BY <1>2, <1>3, <2>1
  <2>2. CASE i <= Len(q)
    BY <1>2, <1>4, <2>2
  <2> QED BY <1>2, <2>1, <2>2
<1>6. ASSUME NEW i \in DOMAIN t, NEW j \in DOMAIN t, i < j
      PROVE  t[i].n < t[j].n
  <2>1. CASE j <= Len(q)
    BY <1>2, <1>4, <1>6, <2>1 DEF SentBy, Rising
  <2>2. CASE j > Len(q) /\ i <= Len(q)
    BY <1>2, <1>3, <1>4, <2>2
  <2>3. CASE i > Len(q)
    BY <1>2, <1>3, <1>6, <2>3
  <2> QED BY <1>2, <2>1, <2>2, <2>3
<1> QED BY <1>5, <1>6 DEF SentBy, Rising, t

(* Losing bytes between two others leaves the order. *)
LEMMA SentWithGap ==
  ASSUME NEW q \in Seq(Item), NEW r \in Seq(Item), NEW d \in 0 .. Len(r),
         NEW p, NEW k, SentBy(q \o r, p, k)
  PROVE  SentBy(q \o SubSeq(r, d + 1, Len(r)), p, k)
<1> DEFINE s == SubSeq(r, d + 1, Len(r))
           t == q \o r
           u == q \o s
<1>1. /\ s \in Seq(Item) /\ Len(s) = Len(r) - d
      /\ \A i \in 1 .. Len(r) - d : s[i] = r[i + d]
  BY SuffixType
<1> HIDE DEF s
<1>2. /\ t \in Seq(Item) /\ Len(t) = Len(q) + Len(r)
      /\ \A i \in 1 .. Len(q) + Len(r) : t[i] = IF i <= Len(q) THEN q[i] ELSE r[i - Len(q)]
      /\ u \in Seq(Item) /\ Len(u) = Len(q) + Len(s)
      /\ \A i \in 1 .. Len(q) + Len(s) : u[i] = IF i <= Len(q) THEN q[i] ELSE s[i - Len(q)]
  BY <1>1, ConcatProperties
<1> HIDE DEF t, u
<1>3. Len(q) \in Nat /\ Len(r) \in Nat /\ d \in Nat /\ d <= Len(r)
  OBVIOUS
<1>4. DOMAIN t = 1 .. Len(q) + Len(r) /\ DOMAIN u = 1 .. Len(q) + Len(r) - d
  BY <1>1, <1>2, <1>3
<1> DEFINE e(i) == IF i <= Len(q) THEN i ELSE i + d
<1>5. ASSUME NEW i \in DOMAIN u
      PROVE  e(i) \in DOMAIN t /\ u[i] = t[e(i)]
  <2>1. CASE i <= Len(q)
    <3>1. e(i) = i /\ i \in 1 .. Len(q) + Len(r) /\ i \in 1 .. Len(q) + Len(s)
      BY <1>1, <1>3, <1>4, <2>1
    <3>2. u[i] = q[i] /\ t[i] = q[i]
      BY <1>2, <2>1, <3>1
    <3> HIDE DEF e
    <3> QED BY <1>4, <3>1, <3>2
  <2>2. CASE i > Len(q)
    <3>1. i - Len(q) \in 1 .. Len(r) - d /\ i + d - Len(q) = i - Len(q) + d
      BY <1>3, <1>4, <2>2
    <3>2. u[i] = r[i - Len(q) + d]
      <4>1. i \in 1 .. Len(q) + Len(s) /\ ~(i <= Len(q))
        BY <1>1, <1>3, <1>4, <2>2
      <4>2. u[i] = s[i - Len(q)]
        BY <1>2, <4>1
      <4> QED BY <1>1, <3>1, <4>2
    <3>3. i + d \in 1 .. Len(q) + Len(r) /\ t[i + d] = r[i + d - Len(q)]
      <4>1. i + d \in 1 .. Len(q) + Len(r) /\ ~(i + d <= Len(q))
        BY <1>3, <1>4, <2>2
      <4> QED BY <1>2, <4>1
    <3>4. e(i) = i + d
      BY <1>3, <1>4, <2>2
    <3> HIDE DEF e
    <3> QED BY <1>4, <3>1, <3>2, <3>3, <3>4
  <2> QED BY <1>3, <1>4, <2>1, <2>2
<1>6. ASSUME NEW i \in DOMAIN u, NEW j \in DOMAIN u, i < j
      PROVE  e(i) < e(j)
  BY <1>3, <1>4, <1>6
<1>7. SentBy(t, p, k)
  BY DEF t
<1> HIDE DEF e
<1>8. SentBy(u, p, k)
  BY <1>5, <1>6, <1>7 DEF SentBy, Rising
<1> QED BY <1>8 DEF u, s

-----------------------------------------------------------------------------
(* The inductive invariant: the type; which task is in which phase; how    *)
(* many runs a benchmark has left; what the spinner and the exit code owe; *)
(* and, for the run on show, its output.                                   *)
Words == {0, 1, 2, 3}

TaskRecords ==
  [kind : {"none", "run", "bench"},
   at : {"idle", "open", "loop", "end", "close", "wait", "clear", "line"},
   cap : Nat, total : Nat, runs : Nat, quiet : BOOLEAN, inMenu : BOOLEAN, cut : BOOLEAN]

TypeInv ==
  /\ task \in TaskRecords
  /\ task.cap > 0 => task.total < task.cap + Chunk
  /\ program \in 0 .. MaxPrograms /\ sent \in 0 .. MaxSent /\ tohost \in Words
  /\ tx \in Seq(Item) /\ Len(tx) <= MaxBuffered
  /\ shown \in Seq(Item) /\ snaps \in Seq(Words)
  /\ exit \in {"none", "0", "1", "2"}

BenchPhases == {"open", "close", "wait", "clear", "line"}

PhaseInv ==
  /\ task.at \in BenchPhases => task.kind = "bench"
  /\ task.at = "end" => task.kind = "run"
  /\ exit # "none" => task.at = "idle"
  /\ exit = "none" /\ task.kind = "bench" => task.at # "idle"
  /\ exit = "none" /\ task.kind # "bench" => snaps = <<>>

BenchInv ==
  /\ task.at \in BenchPhases /\ ~task.cut =>
       Len(snaps) <= task.runs /\ program + (task.runs - Len(snaps)) <= MaxPrograms
  /\ task.at = "open" => ~task.cut /\ Len(snaps) < task.runs
  /\ task.kind = "bench" /\ task.at = "loop" =>
       /\ ~task.cut /\ Len(snaps) < task.runs
       /\ program + (task.runs - Len(snaps)) - 1 <= MaxPrograms

SpinnerInv == (task.at = "clear" => spinner = "off") /\ SpinnerQuiet

OutputInv ==
  (task.kind = "run" /\ task.at # "idle" /\ ~task.quiet) =>
    /\ SentBy(shown \o tx, program, sent) /\ (sent <= MaxBuffered => Len(shown \o tx) = sent)
    /\ tx # <<>> => Len(shown) >= ReadCap

IInv == TypeInv /\ PhaseInv /\ BenchInv /\ SpinnerInv /\ ExitTellsVerdict /\ OutputInv

LEMMA InitInv == Init => IInv
<1> SUFFICES ASSUME Init PROVE IInv
  OBVIOUS
<1>1. /\ <<>> \in Seq(Item) /\ <<>> \in Seq(Words) /\ Len(<<>>) = 0
  BY EmptySeq
<1>2. task \in TaskRecords /\ ~(task.cap > 0) /\ task.at = "idle" /\ task.kind = "none"
  BY DEF Init, NoTask, TaskRecords
<1>3. TypeInv
  BY <1>1, <1>2, SessionAssumption DEF Init, TypeInv, Words
<1> QED BY <1>2, <1>3 DEF Init, IInv, PhaseInv, BenchInv, BenchPhases, SpinnerInv, SpinnerQuiet,
                          ExitTellsVerdict, OutputInv

-----------------------------------------------------------------------------
(* A chunk: the bytes it sends join the queue behind what is shown, and    *)
(* the oldest are shown.                                                   *)
LEMMA StepOutput ==
  ASSUME TypeInv, StepAndRead
  PROVE  /\ program' = program /\ tohost' \in Words /\ sent' \in 0 .. MaxSent
         /\ tx' \in Seq(Item) /\ Len(tx') <= MaxBuffered /\ shown' \in Seq(Item)
         /\ \E ran \in 1 .. Chunk :
              task' = [task EXCEPT !.total = IF task.cap > 0 THEN @ + ran ELSE 0]
         /\ ~task.quiet /\ SentBy(shown \o tx, program, sent)
              => SentBy(shown' \o tx', program, sent')
         /\ ~task.quiet /\ (sent <= MaxBuffered => Len(shown \o tx) = sent)
              => (sent' <= MaxBuffered => Len(shown' \o tx') = sent')
         /\ ~task.quiet => (tx' # <<>> => Len(shown') >= ReadCap)
<1>1. PICK m \in 0 .. MaxSent - sent, ran \in 1 .. Chunk :
        LET queue == Newest(tx \o [i \in 1 .. m |-> [program |-> program, n |-> sent + i]])
        IN /\ tohost' \in {0, 1, 2, 3}
           /\ tohost' = 0 => ran = Chunk
           /\ sent' = sent + m
           /\ tx' = AfterRead(queue)
           /\ shown' = IF task.quiet THEN shown ELSE shown \o ReadUart(queue)
           /\ task' = [task EXCEPT !.total = IF task.cap > 0 THEN @ + ran ELSE 0]
  BY DEF StepAndRead
<1> DEFINE new == [i \in 1 .. m |-> [program |-> program, n |-> sent + i]]
           all == tx \o new
           queue == Newest(all)
<1>2. /\ program \in Nat /\ sent \in Nat /\ sent <= MaxSent /\ m \in Nat /\ sent + m \in 0 .. MaxSent
      /\ tx \in Seq(Item) /\ shown \in Seq(Item) /\ Len(tx) \in Nat /\ Len(shown) \in Nat
  BY SessionAssumption DEF TypeInv
<1>3. /\ new \in Seq(Item) /\ Len(new) = m
      /\ \A i \in DOMAIN new : new[i] = [program |-> program, n |-> sent + i]
  BY <1>2, NewBytes
<1>4. /\ sent' = sent + m /\ tx' = AfterRead(queue) /\ tohost' \in Words
      /\ shown' = IF task.quiet THEN shown ELSE shown \o ReadUart(queue)
      /\ task' = [task EXCEPT !.total = IF task.cap > 0 THEN @ + ran ELSE 0]
  BY <1>1 DEF Words
<1> HIDE DEF new
<1>5. all \in Seq(Item) /\ Len(all) = Len(tx) + m
  BY <1>2, <1>3, ConcatProperties
<1> HIDE DEF all
<1>6. PICK d \in 0 .. Len(all) : /\ queue = SubSeq(all, d + 1, Len(all))
                                 /\ Len(all) - d <= MaxBuffered
                                 /\ Len(all) <= MaxBuffered => d = 0
  BY <1>5, NewestIsSuffix
<1> HIDE DEF queue
<1>7. queue \in Seq(Item) /\ Len(queue) = Len(all) - d
  BY <1>5, <1>6, SuffixType
<1>8. /\ ReadUart(queue) \in Seq(Item) /\ AfterRead(queue) \in Seq(Item)
      /\ ReadUart(queue) \o AfterRead(queue) = queue
      /\ Len(AfterRead(queue)) <= Len(queue)
      /\ AfterRead(queue) # <<>> => Len(ReadUart(queue)) = ReadCap
  BY <1>7, ReadSplits
<1>9. tx' \in Seq(Item) /\ Len(tx') <= MaxBuffered
  <2>1. Len(AfterRead(queue)) \in Nat /\ Len(all) \in Nat /\ MaxBuffered \in Nat
    BY <1>5, <1>8, SessionAssumption
  <2>2. Len(AfterRead(queue)) <= MaxBuffered
    BY <1>6, <1>7, <1>8, <2>1
  <2> QED BY <1>4, <1>8, <2>2, Zenon
<1>10. shown' \in Seq(Item)
  BY <1>2, <1>4, <1>8, ConcatProperties
<1>11. ~task.quiet => shown' \o tx' = shown \o queue
  <2> SUFFICES ASSUME ~task.quiet PROVE shown' \o tx' = shown \o queue
    OBVIOUS
  <2>1. shown' = shown \o ReadUart(queue) /\ tx' = AfterRead(queue)
    BY <1>4
  <2>2. (shown \o ReadUart(queue)) \o AfterRead(queue) = shown \o (ReadUart(queue) \o AfterRead(queue))
    BY <1>2, <1>8, Regroup
  <2> QED BY <1>8, <2>1, <2>2, Zenon
<1>12. ASSUME ~task.quiet, SentBy(shown \o tx, program, sent)
       PROVE  SentBy(shown' \o tx', program, sent')
  <2>1. shown \o tx \in Seq(Item)
    BY <1>2, ConcatProperties
  <2>2. SentBy((shown \o tx) \o new, program, sent + Len(new))
    BY <1>2, <1>3, <1>12, <2>1, SentGoesOn
  <2>3. (shown \o tx) \o new = shown \o all
    BY <1>2, <1>3, Regroup DEF all
  <2>4. SentBy(shown \o all, program, sent')
    BY <1>3, <1>4, <2>2, <2>3
  <2>5. SentBy(shown \o SubSeq(all, d + 1, Len(all)), program, sent')
    BY <1>2, <1>5, <2>4, SentWithGap
  <2> QED BY <1>6, <1>11, <1>12, <2>5
<1>13. ASSUME ~task.quiet, sent <= MaxBuffered => Len(shown \o tx) = sent, sent' <= MaxBuffered
       PROVE  Len(shown' \o tx') = sent'
  <2>1. Len(shown \o tx) = Len(shown) + Len(tx) /\ Len(shown \o queue) = Len(shown) + Len(queue)
    BY <1>2, <1>7, ConcatProperties
  <2>2. sent' = sent + m /\ sent + m <= MaxBuffered /\ MaxBuffered \in Nat
    BY <1>4, <1>13, SessionAssumption
  <2>3. Len(shown) + Len(tx) = sent
    BY <1>2, <1>13, <2>1, <2>2
  <2>4. Len(tx) + m <= MaxBuffered
    BY <1>2, <2>2, <2>3
  <2>5. d = 0
    BY <1>5, <1>6, <2>4
  <2>6. Len(queue) = Len(tx) + m
    BY <1>2, <1>5, <1>7, <2>5
  <2>7. Len(shown' \o tx') = Len(shown) + (Len(tx) + m)
    BY <1>11, <1>13, <2>1, <2>6
  <2> QED BY <1>2, <2>2, <2>3, <2>7
<1>14. ASSUME ~task.quiet, tx' # <<>>
       PROVE  Len(shown') >= ReadCap
  <2>1. Len(shown') = Len(shown) + Len(ReadUart(queue)) /\ Len(ReadUart(queue)) = ReadCap
    BY <1>2, <1>4, <1>8, <1>14, ConcatProperties
  <2> QED BY <1>2, <2>1, SessionAssumption
<1> QED BY <1>1, <1>2, <1>4, <1>9, <1>10, <1>12, <1>13, <1>14 DEF StepAndRead

-----------------------------------------------------------------------------
(* A run. *)

LEMMA RunBeginInv ==
  ASSUME IInv, NEW cap \in Caps, NEW quiet \in BOOLEAN, NEW inMenu \in BOOLEAN,
         RunBegin(cap, quiet, inMenu)
  PROVE  IInv'
<1>1. /\ task.at = "idle" /\ exit = "none" /\ program' = program + 1 /\ program' \in 0 .. MaxPrograms
      /\ shown' = <<>> /\ UNCHANGED <<spinner, done, row, snaps>>
  BY SessionAssumption DEF RunBegin, spinnerVars, IInv, TypeInv
<1>2. <<>> \in Seq(Item) /\ Len(<<>>) = 0 /\ <<>> \o <<>> = <<>> /\ DOMAIN <<>> = {}
  BY EmptySeq, ConcatEmptySeq
<1>3. CASE task' = [NoTask EXCEPT !.kind = "run", !.at = "loop", !.cap = cap,
                                  !.quiet = quiet, !.inMenu = inMenu]
           /\ LoadHex /\ UNCHANGED exit
  <2>1. /\ task' \in TaskRecords /\ task'.kind = "run" /\ task'.at = "loop"
        /\ task'.total = 0 /\ task'.cap = cap
    BY <1>3, SessionAssumption DEF NoTask, TaskRecords
  <2>2. cap > 0 => 0 < cap + Chunk
    BY SessionAssumption
  <2>3. TypeInv'
    BY <1>1, <1>2, <1>3, <2>1, <2>2, SessionAssumption DEF IInv, TypeInv, LoadHex, Words
  <2>4. OutputInv'
    BY <1>1, <1>2, <1>3 DEF OutputInv, LoadHex, SentBy, Rising
  <2> QED BY <1>1, <1>3, <2>1, <2>3, <2>4 DEF IInv, PhaseInv, BenchPhases, BenchInv, SpinnerInv,
            SpinnerQuiet, ExitTellsVerdict
<1>4. CASE UNCHANGED <<task, tohost, sent, tx>> /\ exit' = IF inMenu THEN exit ELSE "2"
  <2>1. TypeInv'
    BY <1>1, <1>2, <1>4 DEF IInv, TypeInv
  <2> QED BY <1>1, <1>4, <2>1 DEF IInv, PhaseInv, BenchPhases, BenchInv, SpinnerInv,
            SpinnerQuiet, ExitTellsVerdict, OutputInv
<1> QED BY <1>3, <1>4 DEF RunBegin

(* A round that runs a chunk, of a run or of a benchmark. *)
LEMMA ChunkInv ==
  ASSUME IInv, task.at = "loop", StepAndRead, UNCHANGED <<spinner, done, row, snaps, exit>>,
         task.cap > 0 => ~CapReached(task.total, task.cap)
  PROVE  IInv'
<1>1. /\ program' = program /\ tohost' \in Words /\ sent' \in 0 .. MaxSent
      /\ tx' \in Seq(Item) /\ Len(tx') <= MaxBuffered /\ shown' \in Seq(Item)
  BY StepOutput DEF IInv
<1>2. PICK ran \in 1 .. Chunk :
        task' = [task EXCEPT !.total = IF task.cap > 0 THEN @ + ran ELSE 0]
  BY StepOutput DEF IInv
<1>3. task \in TaskRecords
  BY DEF IInv, TypeInv
<1>4. /\ task' \in TaskRecords /\ task'.at = "loop" /\ task'.kind = task.kind /\ task'.cap = task.cap
      /\ task'.quiet = task.quiet /\ task'.cut = task.cut /\ task'.runs = task.runs
      /\ task'.total = IF task.cap > 0 THEN task.total + ran ELSE 0
  BY <1>2, <1>3 DEF TaskRecords
<1>5. task'.cap > 0 => task'.total < task'.cap + Chunk
  <2>1. task.cap \in Nat /\ task.total \in Nat
    BY <1>3 DEF TaskRecords
  <2> QED BY <1>4, <2>1, SessionAssumption DEF CapReached
<1>6. TypeInv'
  BY <1>1, <1>4, <1>5 DEF IInv, TypeInv
<1>7. OutputInv'
  BY <1>1, <1>4, StepOutput DEF IInv, OutputInv
<1>8. exit = "none"
  BY DEF IInv, PhaseInv
<1> QED BY <1>1, <1>4, <1>6, <1>7, <1>8 DEF IInv, PhaseInv, BenchPhases, BenchInv, SpinnerInv,
          SpinnerQuiet, ExitTellsVerdict

LEMMA RunRoundInv == IInv /\ RunRound => IInv'
<1> SUFFICES ASSUME IInv, RunRound PROVE IInv'
  OBVIOUS
<1>1. CASE (task.cap > 0 /\ CapReached(task.total, task.cap)) \/ Halted
  <2>1. /\ task' = [task EXCEPT !.at = "end"] /\ task.kind = "run" /\ task.at = "loop"
        /\ UNCHANGED <<program, tohost, sent, tx, shown, spinner, done, row, snaps, exit>>
    BY <1>1 DEF RunRound, simVars, spinnerVars
  <2>2. task \in TaskRecords
    BY DEF IInv, TypeInv
  <2>3. /\ task' \in TaskRecords /\ task'.at = "end" /\ task'.kind = "run" /\ task'.cap = task.cap
        /\ task'.total = task.total /\ task'.quiet = task.quiet
    BY <2>1, <2>2 DEF TaskRecords
  <2> QED BY <2>1, <2>3 DEF IInv, TypeInv, PhaseInv, BenchPhases, BenchInv, SpinnerInv,
            SpinnerQuiet, ExitTellsVerdict, OutputInv
<1>2. CASE ~((task.cap > 0 /\ CapReached(task.total, task.cap)) \/ Halted)
  BY <1>2, ChunkInv DEF RunRound, spinnerVars
<1> QED BY <1>1, <1>2

LEMMA UserLeavesInv == IInv /\ UserLeaves => IInv'
<1> SUFFICES ASSUME IInv, UserLeaves PROVE IInv'
  OBVIOUS
<1>1. /\ task.kind = "run" /\ task.at = "loop" /\ task \in TaskRecords /\ exit = "none"
      /\ UNCHANGED <<program, tohost, sent, tx, shown, spinner, done, row, snaps>>
  BY DEF UserLeaves, simVars, spinnerVars, IInv, TypeInv, PhaseInv
<1>2. CASE task' = [task EXCEPT !.at = "end"] /\ UNCHANGED exit
  <2>1. /\ task' \in TaskRecords /\ task'.at = "end" /\ task'.kind = "run" /\ task'.cap = task.cap
        /\ task'.total = task.total /\ task'.quiet = task.quiet
    BY <1>1, <1>2 DEF TaskRecords
  <2> QED BY <1>1, <1>2, <2>1 DEF IInv, TypeInv, PhaseInv, BenchPhases, BenchInv, SpinnerInv,
            SpinnerQuiet, ExitTellsVerdict, OutputInv
<1>3. CASE task' = [task EXCEPT !.at = "idle", !.cut = TRUE] /\ exit' = "0"
  <2>1. /\ task' \in TaskRecords /\ task'.at = "idle" /\ task'.kind = "run" /\ task'.cap = task.cap
        /\ task'.total = task.total /\ task'.cut
    BY <1>1, <1>3 DEF TaskRecords
  <2> QED BY <1>1, <1>3, <2>1 DEF IInv, TypeInv, PhaseInv, BenchPhases, BenchInv, SpinnerInv,
            SpinnerQuiet, ExitTellsVerdict, OutputInv
<1> QED BY <1>2, <1>3 DEF UserLeaves

(* A word that counts as a pass is reported as one. *)
LEMMA PassedIsPass == ASSUME NEW w, Passed(w) PROVE Verdict(w) = <<"PASS">>
BY DEF Passed, Verdict

LEMMA RunEndInv == IInv /\ RunEnd => IInv'
<1> SUFFICES ASSUME IInv, RunEnd PROVE IInv'
  OBVIOUS
<1>1. /\ task.kind = "run" /\ task.at = "end" /\ task \in TaskRecords /\ exit = "none"
      /\ task' = [task EXCEPT !.at = "idle"]
      /\ UNCHANGED <<program, tohost, sent, tx, shown, spinner, done, row, snaps>>
      /\ exit' = IF task.inMenu THEN exit ELSE IF Passed(tohost) THEN "0" ELSE "1"
  BY DEF RunEnd, simVars, spinnerVars, IInv, TypeInv, PhaseInv
<1>2. /\ task' \in TaskRecords /\ task'.at = "idle" /\ task'.kind = "run" /\ task'.cap = task.cap
      /\ task'.total = task.total
  BY <1>1 DEF TaskRecords
<1>3. ExitTellsVerdict'
  <2> SUFFICES ASSUME exit' = "0" PROVE Verdict(tohost') = <<"PASS">>
    BY <1>2 DEF ExitTellsVerdict
  <2>1. Passed(tohost)
    BY <1>1
  <2> QED BY <1>1, <2>1, PassedIsPass
<1>4. exit' \in {"none", "0", "1", "2"}
  BY <1>1
<1> QED BY <1>1, <1>2, <1>3, <1>4 DEF IInv, TypeInv, PhaseInv, BenchPhases, BenchInv, SpinnerInv,
          SpinnerQuiet, OutputInv

-----------------------------------------------------------------------------
(* A benchmark. *)

LEMMA BenchBeginInv ==
  ASSUME IInv, NEW cap \in Caps, NEW runs \in Runs, BenchBegin(cap, runs)
  PROVE  IInv'
<1>1. /\ task.at = "idle" /\ exit = "none" /\ program + runs <= MaxPrograms
      /\ UNCHANGED <<program, tohost, sent, tx, row, snaps, exit>> /\ shown' = <<>>
      /\ snaps = <<>> /\ <<>> \in Seq(Item) /\ Len(snaps) = 0
  BY EmptySeq DEF BenchBegin, simVars, IInv, PhaseInv
<1>2. /\ task' \in TaskRecords /\ task'.kind = "bench" /\ task'.at = "open" /\ task'.cap = cap
      /\ task'.total = 0 /\ task'.runs = runs /\ task'.cut = FALSE
  BY SessionAssumption DEF BenchBegin, NoTask, TaskRecords
<1>3. TypeInv'
  BY <1>1, <1>2, SessionAssumption DEF IInv, TypeInv
<1>4. BenchInv'
  BY <1>1, <1>2, SessionAssumption DEF BenchInv, IInv, TypeInv
<1> QED BY <1>1, <1>2, <1>3, <1>4 DEF IInv, PhaseInv, BenchPhases, SpinnerInv,
          SpinnerQuiet, ExitTellsVerdict, OutputInv

LEMMA BenchOpenInv == IInv /\ BenchOpen => IInv'
<1> SUFFICES ASSUME IInv, BenchOpen PROVE IInv'
  OBVIOUS
<1>1. /\ task.at = "open" /\ task.kind = "bench" /\ task \in TaskRecords /\ exit = "none"
      /\ program' = program + 1 /\ UNCHANGED <<shown, spinner, done, row, snaps, exit>>
      /\ Len(snaps) \in Nat /\ task.runs \in Nat /\ program \in Nat
      /\ Len(snaps) < task.runs /\ program + (task.runs - Len(snaps)) <= MaxPrograms
  BY DEF BenchOpen, spinnerVars, IInv, TypeInv, TaskRecords, PhaseInv, BenchPhases, BenchInv
<1>2. program' \in 0 .. MaxPrograms
  BY <1>1, SessionAssumption
<1>3. CASE LoadHex /\ task' = [task EXCEPT !.at = "loop", !.total = 0]
  <2>1. /\ task' \in TaskRecords /\ task'.at = "loop" /\ task'.kind = "bench" /\ task'.total = 0
        /\ task'.cap = task.cap /\ task'.runs = task.runs /\ task'.cut = task.cut /\ task.cap \in Nat
    BY <1>1, <1>3 DEF TaskRecords
  <2>2. <<>> \in Seq(Item) /\ Len(<<>>) = 0
    BY EmptySeq
  <2>3. TypeInv'
    BY <1>1, <1>2, <1>3, <2>1, <2>2, SessionAssumption DEF IInv, TypeInv, LoadHex, Words
  <2>4. BenchInv'
    BY <1>1, <1>2, <2>1, SessionAssumption DEF IInv, BenchInv, BenchPhases
  <2> QED BY <1>1, <2>1, <2>3, <2>4 DEF IInv, PhaseInv, BenchPhases, SpinnerInv,
            SpinnerQuiet, ExitTellsVerdict, OutputInv
<1>4. CASE task' = [task EXCEPT !.at = "close", !.cut = TRUE] /\ UNCHANGED <<tohost, sent, tx>>
  <2>1. /\ task' \in TaskRecords /\ task'.at = "close" /\ task'.kind = "bench"
        /\ task'.total = task.total /\ task'.cap = task.cap /\ task'.cut
    BY <1>1, <1>4 DEF TaskRecords
  <2> QED BY <1>1, <1>2, <1>4, <2>1 DEF IInv, TypeInv, PhaseInv, BenchPhases, BenchInv, SpinnerInv,
            SpinnerQuiet, ExitTellsVerdict, OutputInv
<1> QED BY <1>3, <1>4 DEF BenchOpen

LEMMA BenchRoundInv == IInv /\ BenchRound => IInv'
<1> SUFFICES ASSUME IInv, BenchRound PROVE IInv'
  OBVIOUS
<1>1. CASE CapReached(task.total, task.cap) \/ Halted
  <2>1. /\ task' = [task EXCEPT !.at = "close"] /\ task.kind = "bench" /\ task.at = "loop"
        /\ snaps' = Append(snaps, tohost)
        /\ UNCHANGED <<program, tohost, sent, tx, shown, spinner, done, row, exit>>
    BY <1>1 DEF BenchRound, simVars, spinnerVars
  <2>2. task \in TaskRecords /\ snaps \in Seq(Words) /\ tohost \in Words /\ program \in Nat
    BY DEF IInv, TypeInv
  <2>3. /\ task' \in TaskRecords /\ task'.at = "close" /\ task'.kind = "bench" /\ task'.cap = task.cap
        /\ task'.total = task.total /\ task'.runs = task.runs /\ task'.cut = task.cut
    BY <2>1, <2>2 DEF TaskRecords
  <2>4. snaps' \in Seq(Words) /\ Len(snaps') = Len(snaps) + 1 /\ Len(snaps) \in Nat
    BY <2>1, <2>2, AppendProperties
  <2>5. TypeInv'
    BY <2>1, <2>3, <2>4 DEF IInv, TypeInv
  <2>6. BenchInv'
    <3>1. Len(snaps) < task.runs /\ program + (task.runs - Len(snaps)) - 1 <= MaxPrograms
      BY <2>1 DEF IInv, BenchInv
    <3>2. task.runs \in Nat
      BY <2>2 DEF TaskRecords
    <3>3. /\ Len(snaps) + 1 <= task.runs
          /\ program + (task.runs - (Len(snaps) + 1)) <= MaxPrograms
      BY <2>2, <2>4, <3>1, <3>2, SessionAssumption
    <3> QED BY <2>1, <2>3, <2>4, <3>3 DEF BenchInv
  <2> QED BY <2>1, <2>3, <2>5, <2>6 DEF IInv, PhaseInv, BenchPhases, SpinnerInv,
            SpinnerQuiet, ExitTellsVerdict, OutputInv
<1>2. CASE ~(CapReached(task.total, task.cap) \/ Halted)
  BY <1>2, ChunkInv DEF BenchRound, spinnerVars
<1> QED BY <1>1, <1>2

(* The end of a benchmark's run: only the phase, the channel and the row   *)
(* change.                                                                 *)
LEMMA CloseInv == IInv /\ (CloseDone \/ WaitSpinner \/ ClearRow) => IInv'
<1> SUFFICES ASSUME IInv, CloseDone \/ WaitSpinner \/ ClearRow PROVE IInv'
  OBVIOUS
<1>1. /\ UNCHANGED <<program, tohost, sent, tx, shown, spinner, snaps, exit>>
      /\ task.at \in {"close", "wait", "clear"}
      /\ \E at \in {"wait", "clear", "line"} : task' = [task EXCEPT !.at = at]
  BY DEF CloseDone, WaitSpinner, ClearRow, simVars, spinnerVars
<1>2. task \in TaskRecords /\ task.kind = "bench" /\ exit = "none"
  BY <1>1 DEF IInv, TypeInv, PhaseInv, BenchPhases
<1>3. /\ task' \in TaskRecords /\ task'.at \in {"wait", "clear", "line"} /\ task'.kind = "bench"
      /\ task'.cap = task.cap /\ task'.total = task.total /\ task'.runs = task.runs
      /\ task'.cut = task.cut
  BY <1>1, <1>2 DEF TaskRecords
<1>4. TypeInv'
  BY <1>1, <1>3 DEF IInv, TypeInv
<1>5. SpinnerInv'
  <2>1. CASE CloseDone
    BY <1>2, <2>1 DEF CloseDone, TaskRecords, SpinnerInv, SpinnerQuiet
  <2>2. CASE WaitSpinner
    BY <1>2, <2>2 DEF WaitSpinner, spinnerVars, TaskRecords, SpinnerInv, SpinnerQuiet
  <2>3. CASE ClearRow
    BY <1>2, <2>3 DEF ClearRow, TaskRecords, IInv, SpinnerInv, SpinnerQuiet
  <2> QED BY <1>1, <2>1, <2>2, <2>3
<1>6. BenchInv'
  BY <1>1, <1>3 DEF IInv, BenchInv, BenchPhases
<1> QED BY <1>1, <1>2, <1>3, <1>4, <1>5, <1>6 DEF IInv, PhaseInv, BenchPhases, ExitTellsVerdict, OutputInv

LEMMA RunLineInv == IInv /\ RunLine => IInv'
<1> SUFFICES ASSUME IInv, RunLine PROVE IInv'
  OBVIOUS
<1>1. /\ UNCHANGED <<program, tohost, sent, tx, shown, snaps>>
      /\ task.at = "line" /\ task.kind = "bench" /\ task \in TaskRecords /\ exit = "none"
      /\ snaps \in Seq(Words)
  BY DEF RunLine, simVars, IInv, TypeInv, PhaseInv, BenchPhases
<1>2. CASE task.cut \/ Len(snaps) = task.runs
  <2>1. /\ task' = [task EXCEPT !.at = "idle"] /\ exit' \in {"0", "1", "2"}
        /\ exit' = "0" => ~task.cut /\ Len(snaps) = task.runs /\ allPass(snaps)
    BY <1>2 DEF RunLine
  <2>2. /\ task' \in TaskRecords /\ task'.at = "idle" /\ task'.kind = "bench"
        /\ task'.cap = task.cap /\ task'.total = task.total /\ task'.runs = task.runs
    BY <1>1, <2>1 DEF TaskRecords
  <2>3. TypeInv'
    BY <1>1, <2>1, <2>2 DEF IInv, TypeInv
  <2>4. ExitTellsVerdict'
    <3> SUFFICES ASSUME exit' = "0" PROVE \A i \in DOMAIN snaps : Verdict(snaps[i]) = <<"PASS">>
      BY <1>1, <2>1, <2>2 DEF ExitTellsVerdict
    <3>1. \A i \in DOMAIN snaps : snaps[i] \in Words /\ Passed(snaps[i])
      BY <1>1, <2>1 DEF allPass
    <3> QED BY <3>1, PassedIsPass
  <2> QED BY <1>1, <2>1, <2>2, <2>3, <2>4 DEF IInv, PhaseInv, BenchPhases, BenchInv, SpinnerInv,
            SpinnerQuiet, OutputInv
<1>3. CASE ~(task.cut \/ Len(snaps) = task.runs)
  <2>1. task' = [task EXCEPT !.at = "open"] /\ UNCHANGED exit
    BY <1>3 DEF RunLine
  <2>2. /\ task' \in TaskRecords /\ task'.at = "open" /\ task'.kind = "bench"
        /\ task'.cap = task.cap /\ task'.total = task.total /\ task'.runs = task.runs
        /\ task'.cut = task.cut /\ task.runs \in Nat
    BY <1>1, <2>1 DEF TaskRecords
  <2>3. TypeInv'
    BY <1>1, <2>1, <2>2 DEF IInv, TypeInv
  <2>4. /\ Len(snaps) <= task.runs /\ program + (task.runs - Len(snaps)) <= MaxPrograms
        /\ Len(snaps) # task.runs /\ ~task.cut
    BY <1>1, <1>3 DEF IInv, BenchInv, BenchPhases
  <2>5. Len(snaps) \in Nat
    BY <1>1
  <2>6. Len(snaps) < task.runs
    BY <2>2, <2>4, <2>5
  <2>7. BenchInv'
    BY <1>1, <2>2, <2>4, <2>6 DEF BenchInv, BenchPhases
  <2> QED BY <1>1, <2>1, <2>2, <2>3, <2>7 DEF IInv, PhaseInv, BenchPhases, SpinnerInv,
            SpinnerQuiet, ExitTellsVerdict, OutputInv
<1> QED BY <1>2, <1>3

(* The spinner takes no step between the wait for it and the final line.   *)
LEMMA SpinnerStepInv == IInv /\ Spinner => IInv'
<1> SUFFICES ASSUME IInv, Spinner PROVE IInv'
  OBVIOUS
<1>1. UNCHANGED <<task, program, tohost, sent, tx, shown, snaps, exit>> /\ spinner # "off"
  BY DEF Spinner, SpinnerTakesTick, SpinnerPrints, SpinnerReturns, simVars
<1>2. task.at \notin {"clear", "line"}
  BY <1>1 DEF IInv, SpinnerInv, SpinnerQuiet
<1> QED BY <1>1, <1>2 DEF IInv, TypeInv, PhaseInv, BenchInv, SpinnerInv, SpinnerQuiet,
                          ExitTellsVerdict, OutputInv

LEMMA StepInv == IInv /\ [Next]_vars => IInv'
<1> SUFFICES ASSUME IInv, [Next]_vars PROVE IInv'
  OBVIOUS
<1>1. ASSUME NEW cap \in Caps, NEW quiet \in BOOLEAN, NEW inMenu \in BOOLEAN,
             RunBegin(cap, quiet, inMenu)
      PROVE  IInv'
  BY <1>1, RunBeginInv
<1>2. ASSUME NEW cap \in Caps, NEW runs \in Runs, BenchBegin(cap, runs)
      PROVE  IInv'
  BY <1>2, BenchBeginInv
<1>3. CASE RunRound \/ UserLeaves \/ RunEnd
  BY <1>3, RunRoundInv, UserLeavesInv, RunEndInv
<1>4. CASE Bench
  BY <1>4, BenchOpenInv, BenchRoundInv, CloseInv, RunLineInv DEF Bench
<1>5. CASE Spinner
  BY <1>5, SpinnerStepInv
<1>6. CASE UNCHANGED vars
  BY <1>6 DEF vars, IInv, TypeInv, PhaseInv, BenchInv, SpinnerInv, SpinnerQuiet,
              ExitTellsVerdict, OutputInv
<1> QED BY <1>1, <1>2, <1>3, <1>4, <1>5, <1>6 DEF Next

LEMMA Invariance == Spec => []IInv
<1> QED BY InitInv, StepInv, PTL DEF Spec

-----------------------------------------------------------------------------

(* A run or a benchmark keeps its types, and counts at most one chunk over *)
(* its cap (bench.go's and runner.go's loops), for every chunk and cap.    *)
THEOREM SessionTypeCorrect == Spec => []SessionTypeOK
<1>1. IInv => SessionTypeOK
  BY DEF IInv, TypeInv, TaskRecords, Words, SessionTypeOK
<1> QED BY <1>1, Invariance, PTL

(* The process's exit code and the reported verdict agree, for every       *)
(* number of programs and runs (cmd/run.go, cmd/bench.go).                 *)
THEOREM ExitIsVerdict == Spec => []ExitTellsVerdict
<1>1. IInv => ExitTellsVerdict
  BY DEF IInv
<1> QED BY <1>1, Invariance, PTL

(* The spinner of bench.go is gone, and its row with it, before a final    *)
(* line is written.                                                        *)
THEOREM SpinnerLeavesRow == Spec => []SpinnerQuiet
<1>1. IInv => SpinnerQuiet
  BY DEF IInv, SpinnerInv
<1> QED BY <1>1, Invariance, PTL

(* A run shows what its own program sent, in order, for every chunk, every *)
(* read and every queue: the flush of LoadHex is what keeps the bytes of   *)
(* the program before it away.                                             *)
THEOREM OutputIsOwn == Spec => []OutputOfThisRun
<1>1. IInv => OutputOfThisRun
  BY DEF IInv, OutputInv, OutputOfThisRun, SentBy, Rising
<1> QED BY <1>1, Invariance, PTL
=============================================================================
