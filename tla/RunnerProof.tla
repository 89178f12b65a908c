---------------------------- MODULE RunnerProof ----------------------------
(***************************************************************************)
(* Theorems about the runner's keys for every channel capacity, keyboard   *)
(* and length of typing: the reader, the channel and the main loop pass    *)
(* them on in the order of typing, and none twice.                         *)
(***************************************************************************)
EXTENDS Runner, SequenceTheorems, TLAPS

(* A queue of keys in the order of typing; one whose keys are all among    *)
(* the first n typed; one that was typed before another.                   *)
Rising(q) == \A i, j \in DOMAIN q : i < j => q[i].id < q[j].id
Upto(q, n) == \A i \in DOMAIN q : q[i].id <= n
Before(q, r) == \A i \in DOMAIN q, j \in DOMAIN r : q[i].id < r[j].id

-----------------------------------------------------------------------------
(* Queues of bytes. *)

LEMMA NumberOfByte == ASSUME NEW b \in Bytes PROVE b.id \in 1 .. MaxTyped
BY DEF Bytes

LEMMA TailKeepsOrder ==
  ASSUME NEW q \in Seq(Bytes), q # <<>>
  PROVE  /\ Head(q) \in Bytes /\ Head(q) = q[1] /\ 1 \in DOMAIN q
         /\ Tail(q) \in Seq(Bytes) /\ Len(Tail(q)) = Len(q) - 1
         /\ \A i \in DOMAIN Tail(q) : i + 1 \in DOMAIN q /\ Tail(q)[i] = q[i + 1]
         /\ Rising(q) => Rising(Tail(q))
<1>1. /\ Head(q) \in Bytes /\ Tail(q) \in Seq(Bytes) /\ Len(Tail(q)) = Len(q) - 1
      /\ \A i \in 1 .. Len(Tail(q)) : Tail(q)[i] = q[i + 1]
  BY HeadTailProperties
<1>2. Head(q) = q[1] /\ 1 \in DOMAIN q
  OBVIOUS
<1>3. DOMAIN q = 1 .. Len(q) /\ DOMAIN Tail(q) = 1 .. Len(Tail(q)) /\ Len(q) \in Nat
  BY <1>1
<1>4. \A i \in DOMAIN Tail(q) : i + 1 \in DOMAIN q /\ Tail(q)[i] = q[i + 1]
  BY <1>1, <1>3
<1>5. ASSUME Rising(q), NEW i \in DOMAIN Tail(q), NEW j \in DOMAIN Tail(q), i < j
      PROVE  Tail(q)[i].id < Tail(q)[j].id
  <2>1. i + 1 \in DOMAIN q /\ j + 1 \in DOMAIN q /\ i + 1 < j + 1
    BY <1>3, <1>4, <1>5
  <2>2. q[i + 1].id < q[j + 1].id
    BY <1>5, <2>1 DEF Rising
  <2> QED BY <1>4, <2>2
<1> QED BY <1>1, <1>2, <1>4, <1>5 DEF Rising

LEMMA AppendKeepsOrder ==
  ASSUME NEW q \in Seq(Bytes), NEW b \in Bytes, NEW n \in Int, Upto(q, n), n < b.id
  PROVE  /\ Append(q, b) \in Seq(Bytes) /\ Len(Append(q, b)) = Len(q) + 1
         /\ Upto(Append(q, b), b.id)
         /\ Rising(q) => Rising(Append(q, b))
         /\ \A i \in DOMAIN Append(q, b) : Append(q, b)[i] = b \/ (i \in DOMAIN q /\ Append(q, b)[i] = q[i])
<1> DEFINE r == Append(q, b)
<1>1. /\ r \in Seq(Bytes) /\ Len(r) = Len(q) + 1
      /\ \A i \in 1 .. Len(q) : r[i] = q[i]
      /\ r[Len(q) + 1] = b
  BY AppendProperties
<1> HIDE DEF r
<1>2. DOMAIN q = 1 .. Len(q) /\ DOMAIN r = 1 .. Len(q) + 1 /\ Len(q) \in Nat
  BY <1>1
<1>3. \A i \in DOMAIN r : r[i] = b \/ (i \in DOMAIN q /\ r[i] = q[i])
  BY <1>1, <1>2
<1>4. b.id \in Int /\ \A i \in DOMAIN q : q[i].id \in Int /\ q[i].id <= n
  <2>1. \A i \in DOMAIN q : q[i] \in Bytes
    BY <1>2
  <2> QED BY <2>1, NumberOfByte DEF Upto
<1>5. Upto(r, b.id)
  BY <1>3, <1>4 DEF Upto
<1>6. ASSUME Rising(q), NEW i \in DOMAIN r, NEW j \in DOMAIN r, i < j
      PROVE  r[i].id < r[j].id
  <2>1. i \in DOMAIN q /\ r[i] = q[i]
    BY <1>1, <1>2, <1>6
  <2>2. CASE j = Len(q) + 1
    BY <1>1, <1>4, <2>1, <2>2
  <2>3. CASE j # Len(q) + 1
    <3>1. j \in DOMAIN q /\ r[j] = q[j]
      BY <1>1, <1>2, <2>3
    <3> QED BY <1>6, <2>1, <3>1 DEF Rising
  <2> QED BY <2>2, <2>3
<1> QED BY <1>1, <1>3, <1>5, <1>6 DEF r, Rising

LEMMA ConcatKeepsOrder ==
  ASSUME NEW q \in Seq(Bytes), NEW r \in Seq(Bytes), Rising(q), Rising(r), Before(q, r)
  PROVE  q \o r \in Seq(Bytes) /\ Rising(q \o r)
<1> DEFINE p == q \o r
<1>1. /\ p \in Seq(Bytes) /\ Len(p) = Len(q) + Len(r)
      /\ \A i \in 1 .. Len(q) + Len(r) : p[i] = IF i <= Len(q) THEN q[i] ELSE r[i - Len(q)]
  BY ConcatProperties
<1> HIDE DEF p
<1>2. /\ DOMAIN q = 1 .. Len(q) /\ DOMAIN r = 1 .. Len(r) /\ DOMAIN p = 1 .. Len(q) + Len(r)
      /\ Len(q) \in Nat /\ Len(r) \in Nat
  BY <1>1
<1>3. ASSUME NEW i \in DOMAIN p, NEW j \in DOMAIN p, i < j
      PROVE  p[i].id < p[j].id
  <2>1. CASE j <= Len(q)
    BY <1>1, <1>2, <1>3, <2>1 DEF Rising
  <2>2. CASE i <= Len(q) /\ j > Len(q)
    <3>1. i \in DOMAIN q /\ j - Len(q) \in DOMAIN r
      BY <1>2, <2>2
    <3> QED BY <1>1, <1>2, <2>2, <3>1 DEF Before
  <2>3. CASE i > Len(q)
    <3>1. i - Len(q) \in DOMAIN r /\ j - Len(q) \in DOMAIN r /\ i - Len(q) < j - Len(q)
      BY <1>2, <1>3, <2>3
    <3>2. p[i] = r[i - Len(q)] /\ p[j] = r[j - Len(q)]
      BY <1>1, <1>2, <1>3, <2>3
    <3> QED BY <3>1, <3>2 DEF Rising
  <2> QED BY <1>2, <2>1, <2>2, <2>3
<1> QED BY <1>1, <1>3 DEF p, Rising

-----------------------------------------------------------------------------
(* The numbers still on stdin are the last ones, and everything handed     *)
(* over is older; an ESC whose meaning is still open counts as on its way. *)
Taken == typed - Len(stdin)
Given == IF reader = "peek" THEN Taken - 1 ELSE Taken

StdinIsLast ==
  /\ Len(stdin) <= typed
  /\ \A i \in DOMAIN stdin : stdin[i].id = Taken + i
  /\ reader = "peek" => Taken >= 1

(* swallowEscape leaves its loop with the last byte it may read. *)
SwallowOpen == reader = "swallow" => swallowed < MaxSwallow

IInv ==
  /\ TypeOK
  /\ StdinIsLast /\ SwallowOpen
  /\ Rising(keyCh) /\ Upto(keyCh, Given)
  /\ Rising(g_rx_buf) /\ Upto(g_rx_buf, Given)
  /\ Before(g_rx_buf, keyCh)

LEMMA QueueTypes ==
  ASSUME TypeOK
  PROVE  stdin \in Seq(Bytes) /\ keyCh \in Seq(Bytes) /\ g_rx_buf \in Seq(Bytes)
BY DEF TypeOK

LEMMA GivenIsInt == ASSUME TypeOK PROVE Taken \in Int /\ Given \in Int
BY DEF TypeOK, Taken, Given

(* The order of all keys follows from the orders of the three queues. *)
LEMMA InvOrders == IInv => KeysInOrder
<1> SUFFICES ASSUME IInv PROVE KeysInOrder
  OBVIOUS
<1>1. /\ stdin \in Seq(Bytes) /\ keyCh \in Seq(Bytes) /\ g_rx_buf \in Seq(Bytes)
      /\ Taken \in Int /\ Given \in Int /\ Given <= Taken
  BY QueueTypes, GivenIsInt DEF IInv, Given
<1>2. Rising(stdin)
  BY <1>1 DEF IInv, StdinIsLast, Rising
<1>3. g_rx_buf \o keyCh \in Seq(Bytes) /\ Rising(g_rx_buf \o keyCh)
  BY <1>1, ConcatKeepsOrder DEF IInv
<1>4. Before(g_rx_buf \o keyCh, stdin)
  <2> DEFINE p == g_rx_buf \o keyCh
  <2>1. \A i \in DOMAIN p : \/ \E k \in DOMAIN g_rx_buf : p[i] = g_rx_buf[k]
                            \/ \E k \in DOMAIN keyCh : p[i] = keyCh[k]
    <3>1. /\ DOMAIN p = 1 .. Len(g_rx_buf) + Len(keyCh)
          /\ \A i \in DOMAIN p :
               p[i] = IF i <= Len(g_rx_buf) THEN g_rx_buf[i] ELSE keyCh[i - Len(g_rx_buf)]
      BY <1>1, ConcatProperties
    <3>2. /\ DOMAIN g_rx_buf = 1 .. Len(g_rx_buf) /\ Len(g_rx_buf) \in Nat
          /\ DOMAIN keyCh = 1 .. Len(keyCh) /\ Len(keyCh) \in Nat
      BY <1>1
    <3> HIDE DEF p
    <3>3. ASSUME NEW i \in DOMAIN p, i > Len(g_rx_buf)
          PROVE  i - Len(g_rx_buf) \in DOMAIN keyCh
      BY <3>1, <3>2, <3>3
    <3>4. ASSUME NEW i \in DOMAIN p, i <= Len(g_rx_buf)
          PROVE  i \in DOMAIN g_rx_buf
      BY <3>1, <3>2, <3>4
    <3> QED BY <3>1, <3>2, <3>3, <3>4
  <2>2. \A i \in DOMAIN p : p[i].id \in Int /\ p[i].id <= Given
    <3>1. \A i \in DOMAIN p : p[i] \in Bytes
      BY <1>3
    <3> HIDE DEF p
    <3> QED BY <2>1, <3>1, NumberOfByte DEF IInv, Upto
  <2>3. \A j \in DOMAIN stdin : stdin[j].id \in Int /\ stdin[j].id > Taken
    BY <1>1 DEF IInv, StdinIsLast
  <2> HIDE DEF p
  <2> QED BY <1>1, <2>2, <2>3 DEF Before, p
<1>5. Rising((g_rx_buf \o keyCh) \o stdin)
  BY <1>1, <1>2, <1>3, <1>4, ConcatKeepsOrder
<1> QED BY <1>5 DEF KeysInOrder, Rising

-----------------------------------------------------------------------------
(* What was handed over stays so. *)
LEMMA UptoGrows ==
  ASSUME NEW q \in Seq(Bytes), NEW m \in Int, NEW n \in Int, m <= n, Upto(q, m)
  PROVE  Upto(q, n)
<1> SUFFICES ASSUME NEW i \in DOMAIN q PROVE q[i].id <= n
  BY DEF Upto
<1>1. q[i] \in Bytes
  OBVIOUS
<1> QED BY <1>1, NumberOfByte DEF Upto

(* Steps that move no byte. *)
LEMMA QuietStep ==
  ASSUME IInv, TypeOK', UNCHANGED <<stdin, typed, keyCh, g_rx_buf>>,
         reader' = "peek" => reader = "peek", SwallowOpen'
  PROVE  IInv'
<1>1. Given \in Int /\ Given' \in Int /\ Given <= Given'
  BY GivenIsInt DEF IInv, TypeOK, Given, Taken
<1>2. StdinIsLast'
  BY DEF IInv, StdinIsLast, Taken
<1>3. Upto(keyCh, Given') /\ Upto(g_rx_buf, Given')
  BY <1>1, UptoGrows, QueueTypes DEF IInv
<1> QED BY <1>2, <1>3 DEF IInv

(* A hang-up, the reader's waiting, and the main loop between two keys. *)
LEMMA QuietType ==
  ASSUME TypeOK, \/ HangUp \/ ReaderTop \/ WaitForStdinInput \/ PeekFindsMore
                 \/ StartLoop \/ RouteDone \/ RunChunk \/ Cancel \/ Leave
  PROVE  TypeOK'
<1>1. CASE HangUp
  BY <1>1 DEF HangUp, TypeOK, readerVars, mainVars
<1>2. CASE ReaderTop
  BY <1>2 DEF ReaderTop, TypeOK, termVars, mainVars
<1>3. CASE WaitForStdinInput
  BY <1>3 DEF WaitForStdinInput, TypeOK, termVars, mainVars
<1>4. CASE PeekFindsMore
  BY <1>4, RunnerAssumption DEF PeekFindsMore, TypeOK, termVars, mainVars
<1>5. CASE StartLoop
  BY <1>5 DEF StartLoop, TypeOK, termVars, readerVars
<1>6. CASE RouteDone
  BY <1>6 DEF RouteDone, TypeOK, termVars, readerVars
<1>7. CASE RunChunk
  <2>1. chunks' \in 0 .. IF MaxChunks > 0 THEN MaxChunks ELSE 1
    BY <1>7, RunnerAssumption DEF RunChunk, TypeOK
  <2>2. halted' \in BOOLEAN /\ main' \in {"cancel", "route"}
    BY <1>7 DEF RunChunk, TypeOK
  <2> QED BY <1>7, <2>1, <2>2 DEF RunChunk, TypeOK, termVars, readerVars
<1>8. CASE Cancel
  BY <1>8 DEF Cancel, TypeOK, termVars, readerVars
<1>9. CASE Leave
  <2>1. main' \in {"exited", "returned", "summary"} /\ alt' \in BOOLEAN
    BY <1>9 DEF Leave, TypeOK
  <2> QED BY <1>9, <2>1 DEF Leave, TypeOK, termVars, readerVars
<1> QED BY <1>1, <1>2, <1>3, <1>4, <1>5, <1>6, <1>7, <1>8, <1>9

LEMMA QuietInv ==
  ASSUME IInv, \/ HangUp \/ ReaderTop \/ WaitForStdinInput \/ PeekFindsMore
               \/ StartLoop \/ RouteDone \/ RunChunk \/ Cancel \/ Leave
  PROVE  IInv'
<1>1. TypeOK'
  BY QuietType DEF IInv
<1>2. UNCHANGED <<stdin, typed, keyCh, g_rx_buf>>
  BY DEF HangUp, ReaderTop, WaitForStdinInput, PeekFindsMore, StartLoop, RouteDone, RunChunk,
         Cancel, Leave, termVars, readerVars, mainVars
<1>3. reader' = "peek" => reader = "peek"
  BY DEF HangUp, ReaderTop, WaitForStdinInput, PeekFindsMore, StartLoop, RouteDone, RunChunk,
         Cancel, Leave, readerVars
<1>4. SwallowOpen'
  BY RunnerAssumption
     DEF IInv, SwallowOpen, HangUp, ReaderTop, WaitForStdinInput, PeekFindsMore, StartLoop,
         RouteDone, RunChunk, Cancel, Leave, readerVars
<1> QED BY <1>1, <1>2, <1>3, <1>4, QuietStep

-----------------------------------------------------------------------------
(* Typing. *)

LEMMA KeyIsByte ==
  ASSUME NEW k \in Keys \cup {Esc} \cup UNION {Range(s) : s \in Sequences},
         NEW f \in BOOLEAN, NEW n \in 1 .. MaxTyped
  PROVE  [key |-> k, part |-> f, id |-> n] \in Bytes
BY DEF Bytes

LEMMA PressInv ==
  ASSUME IInv, NEW k \in Keys, Press(k)
  PROVE  IInv'
<1> DEFINE b == [key |-> k, part |-> FALSE, id |-> typed + 1]
<1>1. TypeOK /\ stdin \in Seq(Bytes) /\ typed \in 0 .. MaxTyped /\ typed + 1 \in 1 .. MaxTyped
  BY RunnerAssumption DEF IInv, TypeOK, Press
<1>2. b \in Bytes /\ b.id = typed + 1
  BY <1>1, KeyIsByte
<1>3. /\ stdin' = Append(stdin, b) /\ typed' = typed + 1
      /\ UNCHANGED <<hangup, readerVars, keyCh, cancelled, mainVars>>
  BY DEF Press
<1> HIDE DEF b
<1>4. /\ stdin' \in Seq(Bytes) /\ Len(stdin') = Len(stdin) + 1 /\ Len(stdin) \in Nat
      /\ \A i \in 1 .. Len(stdin) : stdin'[i] = stdin[i]
      /\ stdin'[Len(stdin) + 1] = b
  BY <1>1, <1>2, <1>3, AppendProperties
<1>5. TypeOK'
  BY <1>1, <1>3, <1>4 DEF TypeOK, readerVars, mainVars
<1>6. Taken' = Taken /\ Given' = Given
  BY <1>1, <1>3, <1>4 DEF Taken, Given, readerVars
<1>7. StdinIsLast'
  <2>1. DOMAIN stdin = 1 .. Len(stdin) /\ DOMAIN stdin' = 1 .. Len(stdin) + 1
    BY <1>1, <1>4
  <2>2. ASSUME NEW i \in DOMAIN stdin'
        PROVE  stdin'[i].id = Taken + i
    <3>1. CASE i = Len(stdin) + 1
      BY <1>1, <1>2, <1>4, <3>1 DEF Taken
    <3>2. CASE i # Len(stdin) + 1
      <4>1. i \in DOMAIN stdin /\ stdin'[i] = stdin[i]
        BY <1>4, <2>1, <3>2
      <4> QED BY <4>1 DEF IInv, StdinIsLast
    <3> QED BY <3>1, <3>2
  <2> QED BY <1>1, <1>3, <1>4, <1>6, <2>2 DEF IInv, StdinIsLast, readerVars
<1> QED BY <1>3, <1>5, <1>6, <1>7 DEF IInv, SwallowOpen, readerVars, mainVars

LEMMA PressSequenceInv ==
  ASSUME IInv, NEW s \in Sequences, PressSequence(s)
  PROVE  IInv'
<1> DEFINE bytes == <<Esc>> \o s
           K == Keys \cup {Esc} \cup UNION {Range(t) : t \in Sequences}
           block == [i \in 1 .. Len(bytes) |-> [key |-> bytes[i], part |-> TRUE, id |-> typed + i]]
<1>1. TypeOK /\ stdin \in Seq(Bytes) /\ typed \in 0 .. MaxTyped
  BY DEF IInv, TypeOK
<1>2. bytes \in Seq(K) /\ Len(bytes) \in Nat /\ \A i \in 1 .. Len(bytes) : bytes[i] \in K
  <2>1. s \in Seq(K)
    <3>1. s \in Seq(Range(s)) /\ Range(s) \subseteq K
      BY RunnerAssumption
    <3> QED BY <3>1, SeqMonotonic
  <2>2. <<Esc>> \in Seq(K)
    OBVIOUS
  <2>3. bytes \in Seq(K)
    BY <2>1, <2>2, ConcatProperties
  <2> HIDE DEF bytes, K
  <2> QED BY <2>3
<1>3. /\ stdin' = stdin \o block /\ typed' = typed + Len(bytes) /\ typed + Len(bytes) <= MaxTyped
      /\ UNCHANGED <<hangup, readerVars, keyCh, cancelled, mainVars>>
  BY DEF PressSequence
<1> HIDE DEF bytes
<1>4. /\ block \in Seq(Bytes) /\ Len(block) = Len(bytes)
      /\ \A i \in 1 .. Len(bytes) : block[i].id = typed + i
  <2>1. ASSUME NEW i \in 1 .. Len(bytes)
        PROVE  [key |-> bytes[i], part |-> TRUE, id |-> typed + i] \in Bytes
    <3>1. typed + i \in 1 .. MaxTyped
      BY <1>1, <1>2, <1>3, RunnerAssumption
    <3> QED BY <1>2, <3>1, KeyIsByte
  <2>2. block \in [1 .. Len(bytes) -> Bytes]
    BY <2>1
  <2> QED BY <1>2, <2>2
<1> HIDE DEF block
<1>5. /\ stdin' \in Seq(Bytes) /\ Len(stdin') = Len(stdin) + Len(bytes) /\ Len(stdin) \in Nat
      /\ \A i \in 1 .. Len(stdin) + Len(bytes) :
           stdin'[i] = IF i <= Len(stdin) THEN stdin[i] ELSE block[i - Len(stdin)]
  <2>1. /\ stdin \o block \in Seq(Bytes) /\ Len(stdin \o block) = Len(stdin) + Len(block)
        /\ \A i \in 1 .. Len(stdin) + Len(block) :
             (stdin \o block)[i] = IF i <= Len(stdin) THEN stdin[i] ELSE block[i - Len(stdin)]
    BY <1>1, <1>4, ConcatProperties
  <2>2. Len(stdin) \in Nat /\ Len(block) = Len(bytes) /\ stdin' = stdin \o block
    BY <1>1, <1>3, <1>4
  <2> QED BY <2>1, <2>2, Zenon
<1>6. typed' \in 0 .. MaxTyped
  BY <1>1, <1>2, <1>3, RunnerAssumption
<1>7. TypeOK'
  BY <1>1, <1>3, <1>5, <1>6 DEF TypeOK, readerVars, mainVars
<1>8. Taken' = Taken /\ Given' = Given
  BY <1>1, <1>2, <1>3, <1>5 DEF Taken, Given, readerVars
<1>9. StdinIsLast'
  <2>1. DOMAIN stdin = 1 .. Len(stdin) /\ DOMAIN stdin' = 1 .. Len(stdin) + Len(bytes)
    BY <1>1, <1>5
  <2>2. ASSUME NEW i \in DOMAIN stdin'
        PROVE  stdin'[i].id = Taken + i
    <3>1. CASE i <= Len(stdin)
      BY <1>5, <2>1, <3>1 DEF IInv, StdinIsLast
    <3>2. CASE i > Len(stdin)
      <4>1. i - Len(stdin) \in 1 .. Len(bytes) /\ stdin'[i] = block[i - Len(stdin)]
        BY <1>2, <1>5, <2>1, <3>2
      <4> QED BY <1>1, <1>4, <1>5, <4>1 DEF Taken
    <3> QED BY <1>5, <2>1, <3>1, <3>2
  <2> QED BY <1>1, <1>2, <1>3, <1>5, <1>8, <2>2 DEF IInv, StdinIsLast, readerVars
<1> QED BY <1>3, <1>7, <1>8, <1>9 DEF IInv, SwallowOpen, readerVars, mainVars

-----------------------------------------------------------------------------
(* The reader. *)

(* A key that is younger than all that was handed over goes to the back,   *)
(* or is dropped.                                                          *)
LEMMA SendInv ==
  ASSUME IInv, NEW b \in Bytes, Given < b.id, Send(b)
  PROVE  /\ keyCh' \in Seq(Bytes) /\ Len(keyCh') <= KeyCap
         /\ Rising(keyCh') /\ Upto(keyCh', b.id) /\ Before(g_rx_buf, keyCh')
<1>1. keyCh \in Seq(Bytes) /\ g_rx_buf \in Seq(Bytes) /\ Len(keyCh) <= KeyCap /\ Given \in Int
  BY QueueTypes, GivenIsInt DEF IInv, TypeOK
<1>2. /\ Rising(keyCh) /\ Upto(keyCh, Given) /\ Upto(g_rx_buf, Given) /\ Before(g_rx_buf, keyCh)
      /\ b.id \in Int
  BY NumberOfByte DEF IInv
<1>3. CASE keyCh' = Append(keyCh, b) /\ Len(keyCh) < KeyCap
  <2>1. /\ keyCh' \in Seq(Bytes) /\ Len(keyCh') = Len(keyCh) + 1
        /\ Rising(keyCh') /\ Upto(keyCh', b.id)
        /\ \A i \in DOMAIN keyCh' : keyCh'[i] = b \/ (i \in DOMAIN keyCh /\ keyCh'[i] = keyCh[i])
    BY <1>1, <1>2, <1>3, AppendKeepsOrder
  <2>2. ASSUME NEW i \in DOMAIN g_rx_buf, NEW j \in DOMAIN keyCh'
        PROVE  g_rx_buf[i].id < keyCh'[j].id
    <3>1. g_rx_buf[i] \in Bytes
      BY <1>1
    <3>2. g_rx_buf[i].id \in Int /\ g_rx_buf[i].id <= Given
      BY <1>2, <3>1, NumberOfByte DEF Upto
    <3>3. CASE keyCh'[j] = b
      BY <1>1, <1>2, <3>2, <3>3
    <3>4. CASE j \in DOMAIN keyCh /\ keyCh'[j] = keyCh[j]
      BY <1>2, <3>4 DEF Before
    <3> QED BY <2>1, <3>3, <3>4
  <2> QED BY <1>1, <1>3, <2>1, <2>2, RunnerAssumption DEF Before
<1>4. CASE keyCh' = keyCh
  <2>1. Upto(keyCh, b.id)
    <3> SUFFICES ASSUME NEW i \in DOMAIN keyCh PROVE keyCh[i].id <= b.id
      BY DEF Upto
    <3>1. keyCh[i] \in Bytes
      BY <1>1
    <3> QED BY <1>1, <1>2, <3>1, NumberOfByte DEF Upto
  <2> QED BY <1>1, <1>2, <1>4, <2>1
<1> QED BY <1>3, <1>4 DEF Send

(* The next byte on stdin is the one after the last taken. *)
LEMMA NextByte ==
  ASSUME IInv, stdin # <<>>
  PROVE  /\ Head(stdin) \in Bytes /\ Head(stdin).id = Taken + 1
         /\ Tail(stdin) \in Seq(Bytes) /\ Len(Tail(stdin)) = Len(stdin) - 1 /\ Len(stdin) \in Nat
         /\ \A i \in DOMAIN Tail(stdin) : Tail(stdin)[i].id = Taken + 1 + i
<1>1. stdin \in Seq(Bytes) /\ Taken \in Int
  BY QueueTypes, GivenIsInt DEF IInv
<1>2. /\ Head(stdin) \in Bytes /\ Head(stdin) = stdin[1] /\ 1 \in DOMAIN stdin
      /\ Tail(stdin) \in Seq(Bytes) /\ Len(Tail(stdin)) = Len(stdin) - 1
      /\ \A i \in DOMAIN Tail(stdin) : i + 1 \in DOMAIN stdin /\ Tail(stdin)[i] = stdin[i + 1]
  BY <1>1, TailKeepsOrder
<1>3. Head(stdin).id = Taken + 1
  BY <1>2 DEF IInv, StdinIsLast
<1>4. ASSUME NEW i \in DOMAIN Tail(stdin) PROVE Tail(stdin)[i].id = Taken + 1 + i
  <2>1. Tail(stdin)[i].id = Taken + (i + 1)
    BY <1>2 DEF IInv, StdinIsLast
  <2>2. i \in Int
    BY <1>2
  <2> QED BY <1>1, <2>1, <2>2
<1> QED BY <1>1, <1>2, <1>3, <1>4

LEMMA StdinAdvances ==
  ASSUME IInv, stdin # <<>>, stdin' = Tail(stdin), typed' = typed
  PROVE  Taken' = Taken + 1 /\ StdinIsLast'
<1>1. typed \in Nat /\ Taken \in Int /\ Len(stdin) <= typed /\ Len(stdin) \in Nat
  BY NextByte, GivenIsInt, RunnerAssumption DEF IInv, TypeOK, StdinIsLast
<1>2. Taken' = Taken + 1
  BY <1>1, NextByte DEF Taken
<1>3. \A i \in DOMAIN stdin' : stdin'[i].id = Taken' + i
  BY <1>2, NextByte
<1>4. Len(stdin') <= typed' /\ Taken' >= 1
  BY <1>1, <1>2, NextByte DEF Taken
<1> QED BY <1>2, <1>3, <1>4 DEF StdinIsLast

(* A read byte is a key, a byte to be dropped, or an ESC still to be       *)
(* understood.                                                             *)
LEMMA ReadKeyInv == IInv /\ ReadKey => IInv'
<1> SUFFICES ASSUME IInv, ReadKey PROVE IInv'
  OBVIOUS
<1>1. TypeOK /\ reader = "read" /\ Given = Taken /\ Taken \in Int
  BY GivenIsInt DEF IInv, ReadKey, Given
<1>2. UNCHANGED <<typed, hangup, swallowed, cancelled, mainVars>>
  BY DEF ReadKey
<1>3. CASE stdin = <<>>
  <2>1. reader' = "done" /\ UNCHANGED <<stdin, keyCh>>
    BY <1>3 DEF ReadKey
  <2>2. TypeOK'
    BY <1>1, <1>2, <2>1 DEF TypeOK, mainVars
  <2> QED BY <1>2, <2>1, <2>2, QuietStep DEF mainVars, SwallowOpen
<1>4. CASE stdin # <<>>
  <2> DEFINE b == Head(stdin)
  <2>1. b \in Bytes /\ b.id = Taken + 1 /\ Tail(stdin) \in Seq(Bytes)
    BY <1>4, NextByte
  <2>2. /\ stdin' = Tail(stdin) /\ reader' = IF b.key = Esc THEN "peek" ELSE "top"
        /\ IF b.key \in {Esc, Dropped} THEN UNCHANGED keyCh ELSE Send(b)
    BY <1>4 DEF ReadKey
  <2>3. Taken' = Taken + 1 /\ StdinIsLast'
    BY <1>2, <1>4, <2>2, StdinAdvances
  <2> HIDE DEF b
  <2>4. UNCHANGED <<typed, hangup, swallowed, cancelled, main, inMenu, choice, chunks, halted,
                    g_rx_buf, raw, alt>>
    BY <1>2 DEF mainVars
  <2>5. reader' \in {"peek", "top"}
    BY <2>2
  <2>6. CASE b.key \in {Esc, Dropped}
    <3>1. UNCHANGED keyCh
      BY <2>2, <2>6
    <3>2. TypeOK'
      BY <1>1, <2>1, <2>2, <2>4, <2>5, <3>1 DEF TypeOK
    <3>3. Given' \in Int /\ Given <= Given'
      BY <1>1, <2>3 DEF Given
    <3>4. Upto(keyCh, Given') /\ Upto(g_rx_buf, Given')
      BY <1>1, <3>3, UptoGrows, QueueTypes DEF IInv
    <3>5. SwallowOpen'
      BY <2>5 DEF SwallowOpen
    <3> QED BY <2>3, <2>4, <3>1, <3>2, <3>4, <3>5 DEF IInv
  <2>7. CASE b.key \notin {Esc, Dropped}
    <3>1. Send(b) /\ reader' = "top"
      BY <2>2, <2>7
    <3>2. /\ keyCh' \in Seq(Bytes) /\ Len(keyCh') <= KeyCap
          /\ Rising(keyCh') /\ Upto(keyCh', Taken + 1) /\ Before(g_rx_buf, keyCh')
      BY <1>1, <2>1, <3>1, SendInv
    <3>3. TypeOK'
      BY <1>1, <2>1, <2>2, <2>4, <2>5, <3>2 DEF TypeOK
    <3>4. Given' = Taken + 1
      BY <2>3, <3>1 DEF Given
    <3>5. Upto(g_rx_buf, Given')
      BY <1>1, <3>4, UptoGrows, QueueTypes DEF IInv
    <3> QED BY <2>3, <2>4, <3>1, <3>2, <3>3, <3>4, <3>5 DEF IInv, SwallowOpen
  <2> QED BY <2>6, <2>7
<1> QED BY <1>3, <1>4

(* A lone ESC is the last byte typed, and handed over as that. *)
LEMMA PeekTimesOutInv == IInv /\ PeekTimesOut => IInv'
<1> SUFFICES ASSUME IInv, PeekTimesOut PROVE IInv'
  OBVIOUS
<1> DEFINE b == [key |-> Esc, part |-> FALSE, id |-> typed]
<1>1. /\ TypeOK /\ stdin = <<>> /\ reader = "peek" /\ reader' = "top" /\ Send(b)
      /\ UNCHANGED <<termVars, swallowed, cancelled, mainVars>>
  BY DEF IInv, PeekTimesOut, Readable
<1>2. typed \in 1 .. MaxTyped /\ Taken = typed /\ Given = typed - 1
  <2>1. Len(stdin) = 0 /\ typed \in 0 .. MaxTyped
    BY <1>1, EmptySeq DEF TypeOK
  <2> QED BY <1>1, <2>1, RunnerAssumption DEF IInv, StdinIsLast, Taken, Given
<1>3. b \in Bytes /\ b.id = typed
  BY <1>2, KeyIsByte
<1> HIDE DEF b
<1>4. /\ keyCh' \in Seq(Bytes) /\ Len(keyCh') <= KeyCap
      /\ Rising(keyCh') /\ Upto(keyCh', typed) /\ Before(g_rx_buf, keyCh')
  BY <1>1, <1>2, <1>3, SendInv, RunnerAssumption
<1>5. TypeOK'
  BY <1>1, <1>4 DEF TypeOK, termVars, mainVars
<1>6. StdinIsLast' /\ Given' = typed
  BY <1>1, <1>2 DEF IInv, StdinIsLast, Taken, Given, termVars
<1>7. Upto(g_rx_buf, Given')
  BY <1>2, <1>6, UptoGrows, QueueTypes, RunnerAssumption DEF IInv
<1> QED BY <1>1, <1>4, <1>5, <1>6, <1>7 DEF IInv, SwallowOpen, mainVars

(* What an escape sequence swallows was never handed over. *)
LEMMA SwallowByteInv == IInv /\ SwallowByte => IInv'
<1> SUFFICES ASSUME IInv, SwallowByte PROVE IInv'
  OBVIOUS
<1>1. TypeOK /\ reader = "swallow" /\ Given = Taken /\ Taken \in Int
  BY GivenIsInt DEF IInv, SwallowByte, Given
<1>2. UNCHANGED <<typed, hangup, keyCh, cancelled, mainVars>>
  BY DEF SwallowByte
<1>3. CASE stdin = <<>>
  <2>1. reader' = "top" /\ UNCHANGED <<stdin, swallowed>>
    BY <1>3 DEF SwallowByte
  <2>2. TypeOK'
    BY <1>1, <1>2, <2>1 DEF TypeOK, mainVars
  <2> QED BY <1>2, <2>1, <2>2, QuietStep DEF mainVars, SwallowOpen
<1>4. CASE stdin # <<>>
  <2>1. stdin' = Tail(stdin) /\ reader' \in {"top", "swallow"} /\ swallowed' = swallowed + 1
    BY <1>4 DEF SwallowByte
  <2>2. Taken' = Taken + 1 /\ StdinIsLast' /\ stdin' \in Seq(Bytes)
    BY <1>2, <1>4, <2>1, StdinAdvances, NextByte
  <2>3. Given' \in Int /\ Given <= Given'
    BY <1>1, <2>1, <2>2 DEF Given
  <2>4. swallowed' \in 0 .. MaxSwallow /\ SwallowOpen'
    <3>1. swallowed \in Nat /\ swallowed < MaxSwallow
      BY <1>1 DEF IInv, SwallowOpen, TypeOK
    <3>2. reader' = "swallow" => swallowed' # MaxSwallow
      BY <1>4 DEF SwallowByte
    <3> QED BY <2>1, <3>1, <3>2, RunnerAssumption DEF SwallowOpen
  <2>5. TypeOK'
    BY <1>1, <1>2, <2>1, <2>2, <2>4 DEF TypeOK, mainVars
  <2>6. Upto(keyCh, Given') /\ Upto(g_rx_buf, Given')
    BY <1>1, <2>3, UptoGrows, QueueTypes DEF IInv
  <2> QED BY <1>2, <2>2, <2>4, <2>5, <2>6 DEF IInv, mainVars
<1> QED BY <1>3, <1>4

-----------------------------------------------------------------------------
(* The main loop. *)

(* The front of the channel, and what stays in it. *)
LEMMA FrontKey ==
  ASSUME IInv, keyCh # <<>>
  PROVE  /\ Head(keyCh) \in Bytes
         /\ Tail(keyCh) \in Seq(Bytes) /\ Len(Tail(keyCh)) <= KeyCap
         /\ Rising(Tail(keyCh)) /\ Upto(Tail(keyCh), Given)
         /\ Before(g_rx_buf, Tail(keyCh))
         /\ \A i \in DOMAIN g_rx_buf : g_rx_buf[i].id < Head(keyCh).id
         /\ \A j \in DOMAIN Tail(keyCh) : Head(keyCh).id < Tail(keyCh)[j].id
         /\ Head(keyCh).id <= Given
<1>1. keyCh \in Seq(Bytes) /\ Len(keyCh) <= KeyCap /\ Len(keyCh) \in Nat
  BY QueueTypes DEF IInv, TypeOK
<1>2. /\ Head(keyCh) \in Bytes /\ Head(keyCh) = keyCh[1] /\ 1 \in DOMAIN keyCh
      /\ Tail(keyCh) \in Seq(Bytes) /\ Len(Tail(keyCh)) = Len(keyCh) - 1
      /\ \A i \in DOMAIN Tail(keyCh) : i + 1 \in DOMAIN keyCh /\ Tail(keyCh)[i] = keyCh[i + 1]
      /\ Rising(Tail(keyCh))
  BY <1>1, TailKeepsOrder DEF IInv
<1>3. Len(Tail(keyCh)) <= KeyCap
  BY <1>1, <1>2, RunnerAssumption
<1>4. Upto(Tail(keyCh), Given) /\ Head(keyCh).id <= Given
  BY <1>2 DEF IInv, Upto
<1>5. Before(g_rx_buf, Tail(keyCh)) /\ \A i \in DOMAIN g_rx_buf : g_rx_buf[i].id < Head(keyCh).id
  BY <1>2 DEF IInv, Before
<1>6. ASSUME NEW j \in DOMAIN Tail(keyCh) PROVE Head(keyCh).id < Tail(keyCh)[j].id
  <2>1. j + 1 \in DOMAIN keyCh /\ 1 < j + 1 /\ Tail(keyCh)[j] = keyCh[j + 1]
    BY <1>2
  <2> QED BY <1>2, <2>1 DEF IInv, Rising
<1> QED BY <1>2, <1>3, <1>4, <1>5, <1>6

(* A key that is thrown away, or answers the pause screen. *)
LEMMA DropKeyInv == IInv /\ (DiscardEarlyKey \/ AnswerPause) => IInv'
<1> SUFFICES ASSUME IInv, DiscardEarlyKey \/ AnswerPause PROVE IInv'
  OBVIOUS
<1>1. /\ keyCh # <<>> /\ keyCh' = Tail(keyCh)
      /\ UNCHANGED <<stdin, typed, hangup, reader, swallowed, cancelled, inMenu, chunks, halted,
                     g_rx_buf, raw, alt>>
  BY DEF DiscardEarlyKey, AnswerPause, termVars, readerVars, mainVars
<1>2. /\ keyCh' \in Seq(Bytes) /\ Len(keyCh') <= KeyCap
      /\ Rising(keyCh') /\ Upto(keyCh', Given) /\ Before(g_rx_buf, keyCh')
  BY <1>1, FrontKey
<1>3. /\ main' \in {"discard", "route", "step", "pause", "cancel", "join", "leave",
                    "summary", "returned", "exited"}
      /\ choice' \in {"natural", "menu", "quit"}
  <2>1. CASE DiscardEarlyKey
    BY <2>1 DEF DiscardEarlyKey, mainVars, IInv, TypeOK
  <2>2. CASE AnswerPause
    BY <2>2 DEF AnswerPause, IInv, TypeOK
  <2> QED BY <2>1, <2>2
<1>4. TypeOK'
  BY <1>1, <1>2, <1>3 DEF IInv, TypeOK
<1>5. StdinIsLast' /\ SwallowOpen' /\ Given' = Given
  BY <1>1 DEF IInv, StdinIsLast, SwallowOpen, Taken, Given
<1> QED BY <1>1, <1>2, <1>4, <1>5 DEF IInv

(* A key goes from the channel to the program. *)
LEMMA RouteKeyInv == IInv /\ RouteKey => IInv'
<1> SUFFICES ASSUME IInv, RouteKey PROVE IInv'
  OBVIOUS
<1> DEFINE k == Head(keyCh)
<1>1. /\ keyCh # <<>> /\ keyCh' = Tail(keyCh) /\ main' \in {"pause", "route"}
      /\ g_rx_buf' = g_rx_buf \/ g_rx_buf' = Append(g_rx_buf, k)
      /\ UNCHANGED <<stdin, typed, hangup, reader, swallowed, cancelled, inMenu, choice, chunks,
                     halted, raw, alt>>
  BY DEF RouteKey, termVars, readerVars
<1>2. /\ k \in Bytes /\ k.id \in Int /\ k.id <= Given
      /\ keyCh' \in Seq(Bytes) /\ Len(keyCh') <= KeyCap
      /\ Rising(keyCh') /\ Upto(keyCh', Given) /\ Before(g_rx_buf, keyCh')
      /\ \A i \in DOMAIN g_rx_buf : g_rx_buf[i].id < k.id
      /\ \A j \in DOMAIN keyCh' : k.id < keyCh'[j].id
      /\ g_rx_buf \in Seq(Bytes) /\ Given \in Int
  BY <1>1, FrontKey, NumberOfByte, QueueTypes, GivenIsInt DEF IInv
<1> HIDE DEF k
<1>3. /\ g_rx_buf' \in Seq(Bytes) /\ Rising(g_rx_buf') /\ Upto(g_rx_buf', Given)
      /\ Before(g_rx_buf', keyCh')
  <2>1. CASE g_rx_buf' = g_rx_buf
    BY <1>2, <2>1 DEF IInv
  <2>2. CASE g_rx_buf' = Append(g_rx_buf, k)
    <3>1. k.id - 1 \in Int /\ k.id - 1 < k.id /\ Upto(g_rx_buf, k.id - 1)
      <4> SUFFICES ASSUME NEW i \in DOMAIN g_rx_buf PROVE g_rx_buf[i].id <= k.id - 1
        BY <1>2 DEF Upto
      <4>1. g_rx_buf[i] \in Bytes
        BY <1>2
      <4> QED BY <1>2, <4>1, NumberOfByte
    <3>2. /\ g_rx_buf' \in Seq(Bytes) /\ Rising(g_rx_buf') /\ Upto(g_rx_buf', k.id)
          /\ \A i \in DOMAIN g_rx_buf' :
               g_rx_buf'[i] = k \/ (i \in DOMAIN g_rx_buf /\ g_rx_buf'[i] = g_rx_buf[i])
      BY <1>2, <2>2, <3>1, AppendKeepsOrder DEF IInv
    <3>3. Upto(g_rx_buf', Given)
      BY <1>2, <3>2, UptoGrows
    <3>4. Before(g_rx_buf', keyCh')
      BY <1>2, <3>2 DEF Before
    <3> QED BY <3>2, <3>3, <3>4
  <2> QED BY <1>1, <2>1, <2>2
<1>4. TypeOK'
  BY <1>1, <1>2, <1>3 DEF IInv, TypeOK
<1>5. StdinIsLast' /\ SwallowOpen' /\ Given' = Given
  BY <1>1 DEF IInv, StdinIsLast, SwallowOpen, Taken, Given
<1> QED BY <1>2, <1>3, <1>4, <1>5 DEF IInv

(* The end of a run empties the channel. *)
LEMMA JoinInv == IInv /\ (JoinReader \/ JoinTimesOut) => IInv'
<1> SUFFICES ASSUME IInv, JoinReader \/ JoinTimesOut PROVE IInv'
  OBVIOUS
<1>1. /\ keyCh' = <<>> /\ main' = "leave"
      /\ UNCHANGED <<stdin, typed, hangup, reader, swallowed, cancelled, inMenu, choice, chunks,
                     halted, g_rx_buf, raw, alt>>
  BY DEF JoinReader, JoinTimesOut, termVars, readerVars
<1>2. /\ <<>> \in Seq(Bytes) /\ Len(<<>>) = 0 /\ DOMAIN <<>> = {}
      /\ Rising(<<>>) /\ Upto(<<>>, Given) /\ Before(g_rx_buf, <<>>)
  BY EmptySeq DEF Rising, Upto, Before
<1>3. TypeOK'
  BY <1>1, <1>2, RunnerAssumption DEF IInv, TypeOK
<1>4. StdinIsLast' /\ SwallowOpen' /\ Given' = Given
  BY <1>1 DEF IInv, StdinIsLast, SwallowOpen, Taken, Given
<1> QED BY <1>1, <1>2, <1>3, <1>4 DEF IInv

-----------------------------------------------------------------------------
LEMMA InitInv == Init => IInv
<1> SUFFICES ASSUME Init PROVE IInv
  OBVIOUS
<1>1. /\ <<>> \in Seq(Bytes) /\ Len(<<>>) = 0 /\ DOMAIN <<>> = {}
      /\ \A n : Upto(<<>>, n) /\ Rising(<<>>) /\ Before(<<>>, <<>>)
  BY EmptySeq DEF Rising, Upto, Before
<1>2. TypeOK
  <2>1. {stdin, keyCh, g_rx_buf} \subseteq Seq(Bytes) /\ Len(keyCh) <= KeyCap
    BY <1>1, RunnerAssumption DEF Init
  <2>2. /\ hangup \in BOOLEAN /\ raw \in BOOLEAN /\ alt \in BOOLEAN
        /\ cancelled \in BOOLEAN /\ inMenu \in BOOLEAN /\ halted \in BOOLEAN
    BY DEF Init
  <2>3. /\ typed \in 0 .. MaxTyped /\ swallowed \in 0 .. MaxSwallow
        /\ chunks \in 0 .. IF MaxChunks > 0 THEN MaxChunks ELSE 1
    BY RunnerAssumption DEF Init
  <2>4. reader = "top" /\ main = "discard" /\ choice = "natural"
    BY DEF Init
  <2> QED BY <2>1, <2>2, <2>3, <2>4 DEF TypeOK
<1> QED BY <1>1, <1>2 DEF Init, IInv, StdinIsLast, SwallowOpen, Taken

LEMMA Invariance == Spec => []IInv
<1>1. IInv /\ [Next]_vars => IInv'
  <2> SUFFICES ASSUME IInv, [Next]_vars PROVE IInv'
    OBVIOUS
  <2>1. ASSUME NEW k \in Keys, Press(k) PROVE IInv'
    BY <2>1, PressInv
  <2>2. ASSUME NEW s \in Sequences, PressSequence(s) PROVE IInv'
    BY <2>2, PressSequenceInv
  <2>3. CASE HangUp
    BY <2>3, QuietInv
  <2>4. CASE Reader
    BY <2>4, QuietInv, ReadKeyInv, PeekTimesOutInv, SwallowByteInv DEF Reader
  <2>5. CASE Main
    BY <2>5, QuietInv, DropKeyInv, RouteKeyInv, JoinInv DEF Main
  <2>6. CASE UNCHANGED vars
    <3>1. UNCHANGED <<stdin, typed, keyCh, g_rx_buf, reader, swallowed>> /\ TypeOK'
      BY <2>6 DEF vars, termVars, readerVars, mainVars, IInv, TypeOK
    <3>2. SwallowOpen'
      BY <3>1 DEF IInv, SwallowOpen
    <3> QED BY <3>1, <3>2, QuietStep
  <2> QED BY <2>1, <2>2, <2>3, <2>4, <2>5, <2>6 DEF Next
<1> QED BY <1>1, InitInv, PTL DEF Spec

(* The channel never holds more than its capacity, swallowEscape never     *)
(* reads more than its limit, and the queues hold keys of the terminal,    *)
(* whatever is typed (keys.go:21-116, runner.go:220-305).                  *)
THEOREM RunnerTypeCorrect == Spec => []TypeOK
<1>1. IInv => TypeOK
  BY DEF IInv
<1> QED BY <1>1, Invariance, PTL

(* For every capacity of the channel and every way of typing: what the     *)
(* program got, what waits in the channel and what is still on stdin is in *)
(* the order of typing, and no key is in it twice (keys.go:21-96,          *)
(* runner.go:176-186, 220-232).                                            *)
THEOREM KeysStayInOrder == Spec => []KeysInOrder
BY Invariance, InvOrders, PTL
=============================================================================
