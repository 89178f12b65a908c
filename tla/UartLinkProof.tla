--------------------------- MODULE UartLinkProof ---------------------------
(***************************************************************************)
(* Theorems about the serial link for every queue capacity, every number   *)
(* of bytes and of resets: what the host types is what the program gets,   *)
(* and latch and queue together are a first-in first-out channel.          *)
(***************************************************************************)
EXTENDS UartLink, SequenceTheorems, TLAPS

-----------------------------------------------------------------------------
(* The UART alone. *)

(* A push adds at the back, and only a full queue loses its front. *)
LEMMA PushType ==
  ASSUME NEW q \in Seq(Byte), NEW c \in Byte, Len(q) <= MaxBuffered
  PROVE  PushBounded(q, c) \in Seq(Byte) /\ Len(PushBounded(q, c)) <= MaxBuffered
<1>1. CASE Len(q) < MaxBuffered
  BY <1>1, AppendProperties, UartAssumption DEF PushBounded
<1>2. CASE Len(q) = MaxBuffered
  <2>1. q # <<>>
    BY <1>2, UartAssumption
  <2>2. Tail(q) \in Seq(Byte) /\ Len(Tail(q)) = MaxBuffered - 1
    BY <1>2, <2>1, HeadTailProperties
  <2> QED BY <1>2, <2>2, AppendProperties, UartAssumption DEF PushBounded
<1> QED BY <1>1, <1>2, UartAssumption

(* A drain leaves the back of the queue. *)
LEMMA DrainType ==
  ASSUME NEW q \in Seq(Byte), NEW n \in 0 .. Len(q)
  PROVE  /\ SubSeq(q, n + 1, Len(q)) \in Seq(Byte)
         /\ Len(SubSeq(q, n + 1, Len(q))) = Len(q) - n
         /\ SubSeq(q, 1, n) \in Seq(Byte)
         /\ SubSeq(q, 1, n) \o SubSeq(q, n + 1, Len(q)) = q
<1>1. Len(q) \in Nat /\ \A i \in 1 .. Len(q) : q[i] \in Byte
  OBVIOUS
<1>2. SubSeq(q, 1, n) \in Seq(Byte)
  BY <1>1, SubSeqProperties
<1>3. /\ SubSeq(q, n + 1, Len(q)) \in Seq(Byte)
      /\ Len(SubSeq(q, n + 1, Len(q))) = Len(q) - n
  BY <1>1, SubSeqProperties
<1>4. SubSeq(q, 1, n) \o SubSeq(q, n + 1, Len(q)) = SubSeq(q, 1, Len(q))
  <2>1. /\ 1 \in 1 .. Len(q) + 1 /\ n \in 1 - 1 .. Len(q)
        /\ Len(q) \in n .. Len(q)
    BY <1>1
  <2> QED BY <2>1, ConcatAdjacentSubSeq
<1> QED BY <1>2, <1>3, <1>4, SubSeqFull

LEMMA Regroup ==
  ASSUME NEW s \in Seq(Byte), NEW t \in Seq(Byte), NEW u \in Seq(Byte)
  PROVE  (s \o t) \o u = s \o (t \o u)
BY ConcatAssociative

(* Adding to the second of two sequences is adding to both together. *)
LEMMA AppendOfConcat ==
  ASSUME NEW s \in Seq(Byte), NEW t \in Seq(Byte), NEW c \in Byte
  PROVE  s \o Append(t, c) = Append(s \o t, c)
<1>1. <<c>> \in Seq(Byte) /\ s \o t \in Seq(Byte)
  BY ConcatProperties
<1>2. Append(t, c) = t \o <<c>> /\ Append(s \o t, c) = (s \o t) \o <<c>>
  BY <1>1, AppendIsConcat
<1> QED BY <1>1, <1>2, ConcatAssociative

(* A clock edge keeps the registers' and the queues' types. *)
LEMMA EdgeType ==
  ASSUME UartTypeOK, NEW rd \in BOOLEAN, NEW tx, tx # <<>> => tx[1] \in Byte,
         UartClock(rd, tx)
  PROVE  UartTypeOK'
<1>1. rx_latch' \in Byte /\ g_rx_buf' \in Seq(Byte) /\ Len(g_rx_buf') <= MaxBuffered
  <2>1. CASE g_rx_buf = <<>>
    BY <2>1 DEF UartClock, Refill, UartTypeOK
  <2>2. CASE g_rx_buf # <<>>
    <3>1. /\ Head(g_rx_buf) \in Byte /\ Tail(g_rx_buf) \in Seq(Byte)
          /\ Len(Tail(g_rx_buf)) = Len(g_rx_buf) - 1
      BY <2>2, HeadTailProperties DEF UartTypeOK
    <3> QED BY <3>1, UartAssumption DEF UartClock, Refill, UartTypeOK
  <2> QED BY <2>1, <2>2
<1>2. rx_valid' \in BOOLEAN
  BY DEF UartClock, Refill, UartTypeOK
<1>3. g_tx_buf' \in Seq(Byte) /\ Len(g_tx_buf') <= MaxBuffered
  BY PushType DEF UartClock, UartTypeOK
<1> QED BY <1>1, <1>2, <1>3 DEF UartTypeOK

LEMMA PendingType ==
  ASSUME UartTypeOK
  PROVE  Latched \in Seq(Byte) /\ Pending \in Seq(Byte)
<1>1. Latched \in Seq(Byte)
  BY DEF UartTypeOK, Latched
<1> QED BY <1>1, ConcatProperties DEF UartTypeOK, Pending

(* A cycle without a data load moves bytes from the queue to the latch and *)
(* loses none.                                                             *)
LEMMA EdgeKeepsPending ==
  ASSUME UartTypeOK, NEW tx, UartClock(FALSE, tx)
  PROVE  Pending' = Pending /\ (rx_valid => rx_valid')
<1>1. CASE Refill
  <2>1. g_rx_buf \in Seq(Byte) /\ g_rx_buf # <<>> /\ rx_valid = FALSE
    BY <1>1 DEF UartTypeOK, Refill
  <2>2. g_rx_buf = <<Head(g_rx_buf)>> \o Tail(g_rx_buf)
    <3> DEFINE t == <<Head(g_rx_buf)>> \o Tail(g_rx_buf)
    <3>1. /\ Head(g_rx_buf) \in Byte /\ Tail(g_rx_buf) \in Seq(Byte)
          /\ Len(Tail(g_rx_buf)) = Len(g_rx_buf) - 1
          /\ \A i \in 1 .. Len(Tail(g_rx_buf)) : Tail(g_rx_buf)[i] = g_rx_buf[i+1]
      BY <2>1, HeadTailProperties
    <3>2. <<Head(g_rx_buf)>> \in Seq(Byte) /\ Len(<<Head(g_rx_buf)>>) = 1
      BY <3>1
    <3>3. t \in Seq(Byte) /\ Len(t) = Len(g_rx_buf)
      BY <3>1, <3>2, ConcatProperties
    <3>4. \A i \in 1 .. Len(g_rx_buf) : t[i] = g_rx_buf[i]
      BY <2>1, <3>1, <3>2, ConcatProperties
    <3> QED BY <2>1, <3>3, <3>4, SeqEqual
  <2>3. Latched' = <<Head(g_rx_buf)>> /\ g_rx_buf' = Tail(g_rx_buf) /\ Latched = <<>>
    BY <1>1, <2>1 DEF UartClock, Latched
  <2>4. Pending = g_rx_buf
    BY <2>1, <2>3, ConcatEmptySeq DEF Pending
  <2> QED BY <2>1, <2>2, <2>3, <2>4 DEF Pending
<1>2. CASE ~Refill
  BY <1>2 DEF UartClock, Pending, Latched, UartTypeOK
<1> QED BY <1>1, <1>2

(* A data load with the latch full takes the first pending byte, and no    *)
(* other.                                                                  *)
LEMMA EdgeTakes ==
  ASSUME UartTypeOK, rx_valid, NEW tx, UartClock(TRUE, tx)
  PROVE  /\ Pending = <<rx_latch>> \o Pending'
         /\ Pending # <<>> /\ Head(Pending) = rx_latch /\ Tail(Pending) = Pending'
<1>1. Latched = <<rx_latch>> /\ Latched' = <<>> /\ g_rx_buf' = g_rx_buf
  BY DEF UartClock, Refill, Latched
<1>2. Pending' = g_rx_buf
  BY <1>1, ConcatEmptySeq DEF Pending, UartTypeOK
<1>3. Pending = <<rx_latch>> \o g_rx_buf
  BY <1>1 DEF Pending
<1>4. rx_latch \in Byte /\ g_rx_buf \in Seq(Byte)
  BY DEF UartTypeOK
<1>5. /\ <<rx_latch>> \o g_rx_buf # <<>>
      /\ Head(<<rx_latch>> \o g_rx_buf) = rx_latch
      /\ Tail(<<rx_latch>> \o g_rx_buf) = g_rx_buf
  BY <1>4
<1> QED BY <1>2, <1>3, <1>5

-----------------------------------------------------------------------------
(* The inductive invariant: beside the type and what the link promises, a  *)
(* driver that has seen the status finds the byte also in the first cycle  *)
(* of a reset, and begins anew after it.                                   *)
DriverKnows == drv = "take" => rx_valid /\ resetting \in {0, 5}

IInv == TypeOK /\ DriverKnows /\ ReceivesWhatWasTyped /\ ShowsWhatWasSent

(* A cycle in which the driver's data load is not on the bus keeps what    *)
(* is on its way, and touches the other direction only at the back.        *)
LEMMA QuietCycle ==
  ASSUME IInv, NEW tx, tx # <<>> => tx[1] \in Byte, UartClock(FALSE, tx),
         UNCHANGED <<sent, got, lost, residue, resetting>>
  PROVE  UartTypeOK' /\ ReceivesWhatWasTyped' /\ (rx_valid => rx_valid')
<1>1. UartTypeOK
  BY DEF IInv, TypeOK
<1>2. UartTypeOK'
  BY <1>1, EdgeType
<1>3. Pending' = Pending /\ (rx_valid => rx_valid')
  BY <1>1, EdgeKeepsPending
<1> QED BY <1>2, <1>3 DEF IInv, ReceivesWhatWasTyped

LEMMA InitInv == Init => IInv
<1> SUFFICES ASSUME Init PROVE IInv
  OBVIOUS
<1>1. Pending = <<>>
  BY DEF Init, UartInit, Pending, Latched
<1>2. TypeOK
  <2>1. UartTypeOK
    <3>1. 0 \in Byte /\ <<>> \in Seq(Byte) /\ Len(<<>>) <= MaxBuffered
      BY UartAssumption, EmptySeq DEF Byte
    <3> QED BY <3>1 DEF Init, UartInit, UartTypeOK
  <2>2. {sent, got, residue, out, shown} \subseteq Seq(Byte)
    BY EmptySeq DEF Init
  <2>3. typed \in 0 .. MaxTyped /\ transmitted \in 0 .. MaxSent /\ resets \in 0 .. MaxResets
    BY LinkAssumption DEF Init
  <2>4. drv \in {"poll", "take"} /\ resetting \in 0 .. 5
    BY DEF Init
  <2>5. {lost, txLost} \subseteq BOOLEAN
    BY Zenon DEF Init
  <2> QED BY <2>1, <2>2, <2>3, <2>4, <2>5 DEF TypeOK
<1> QED BY <1>1, <1>2 DEF Init, UartInit, IInv, DriverKnows, ReceivesWhatWasTyped,
                          ShowsWhatWasSent

(* A typed byte joins the bytes on their way, unless the queue was full.   *)
LEMMA HostWriteInv == IInv /\ HostWrite => IInv'
<1> SUFFICES ASSUME IInv, HostWrite PROVE IInv'
  OBVIOUS
<1>1. TypeOK /\ UartTypeOK
  BY DEF IInv, TypeOK
<1>2. typed + 1 \in Byte /\ typed + 1 \in 0 .. MaxTyped
  BY <1>1, LinkAssumption, UartAssumption DEF HostWrite, TypeOK, Byte
<1>3. g_rx_buf' = PushBounded(g_rx_buf, typed + 1) /\ UNCHANGED <<rx_latch, rx_valid, g_tx_buf>>
  BY DEF HostWrite, UartPush
<1>4. UartTypeOK'
  BY <1>1, <1>2, <1>3, PushType DEF UartTypeOK
<1>5. sent' \in Seq(Byte) /\ sent' = Append(sent, typed + 1)
  BY <1>1, <1>2, AppendProperties DEF HostWrite, TypeOK
<1>6. TypeOK'
  BY <1>1, <1>2, <1>4, <1>5 DEF HostWrite, TypeOK, txHist
<1>7. ReceivesWhatWasTyped'
  <2> SUFFICES ASSUME ~lost' PROVE got' \o Pending' = residue' \o sent'
    BY DEF ReceivesWhatWasTyped
  <2>1. ~lost /\ Len(g_rx_buf) < MaxBuffered /\ resetting = 0
    <3>1. ~lost /\ Len(g_rx_buf) # MaxBuffered /\ resetting = 0
      BY DEF HostWrite
    <3> QED BY <1>1, <3>1, UartAssumption DEF UartTypeOK
  <2>2. Pending' = Append(Pending, typed + 1)
    <3>1. g_rx_buf' = Append(g_rx_buf, typed + 1) /\ Latched' = Latched
      BY <1>3, <2>1 DEF PushBounded, Latched
    <3> QED BY <1>1, <1>2, <3>1, PendingType, AppendOfConcat DEF Pending, UartTypeOK
  <2>3. got \o Pending = residue \o sent
    BY <2>1 DEF IInv, ReceivesWhatWasTyped
  <2>4. /\ got \o Append(Pending, typed + 1) = Append(got \o Pending, typed + 1)
        /\ residue \o Append(sent, typed + 1) = Append(residue \o sent, typed + 1)
    BY <1>1, <1>2, PendingType, AppendOfConcat DEF TypeOK
  <2> QED BY <1>5, <2>2, <2>3, <2>4 DEF HostWrite
<1> QED BY <1>6, <1>7 DEF IInv, HostWrite, UartPush, DriverKnows, ShowsWhatWasSent, txHist

(* What the host drains, it shows. *)
LEMMA HostReadInv == ASSUME IInv, NEW max \in 1 .. MaxBuffered, HostRead(max) PROVE IInv'
<1>1. TypeOK /\ UartTypeOK
  BY DEF IInv, TypeOK
<1> DEFINE n == IF Len(g_tx_buf) < max THEN Len(g_tx_buf) ELSE max
<1>2. n \in 0 .. Len(g_tx_buf)
  BY <1>1, UartAssumption DEF UartTypeOK
<1>3. g_tx_buf' = SubSeq(g_tx_buf, n + 1, Len(g_tx_buf)) /\ UNCHANGED <<rx_latch, rx_valid, g_rx_buf>>
  BY DEF HostRead, UartDrain
<1> HIDE DEF n
<1>4. /\ g_tx_buf' \in Seq(Byte) /\ Len(g_tx_buf') = Len(g_tx_buf) - n
      /\ SubSeq(g_tx_buf, 1, n) \in Seq(Byte)
      /\ SubSeq(g_tx_buf, 1, n) \o g_tx_buf' = g_tx_buf
  BY <1>1, <1>2, <1>3, DrainType DEF UartTypeOK
<1>5. shown' = shown \o SubSeq(g_tx_buf, 1, n)
  <2>1. Len(g_tx_buf) - Len(g_tx_buf') = n
    BY <1>1, <1>2, <1>4 DEF UartTypeOK
  <2> QED BY <2>1 DEF HostRead
<1>6. UartTypeOK'
  <2>1. Len(g_tx_buf') <= MaxBuffered
    BY <1>1, <1>2, <1>4, UartAssumption DEF UartTypeOK
  <2> QED BY <1>1, <1>3, <1>4, <2>1 DEF UartTypeOK
<1>7. shown' \in Seq(Byte)
  BY <1>1, <1>4, <1>5, ConcatProperties DEF TypeOK
<1>8. TypeOK'
  BY <1>1, <1>6, <1>7 DEF HostRead, TypeOK, linkVars, rxHist
<1>9. ReceivesWhatWasTyped' /\ DriverKnows'
  BY <1>3 DEF IInv, HostRead, linkVars, rxHist, ReceivesWhatWasTyped, DriverKnows, Pending, Latched
<1>10. ShowsWhatWasSent'
  <2> SUFFICES ASSUME ~txLost', resetting' = 0 PROVE shown' \o g_tx_buf' = out'
    BY DEF ShowsWhatWasSent
  <2>1. shown \o g_tx_buf = out
    BY DEF HostRead, linkVars, IInv, ShowsWhatWasSent
  <2>2. ASSUME NEW t \in Seq(Byte), NEW u \in Seq(Byte)
        PROVE  (shown \o t) \o u = shown \o (t \o u)
    <3>1. shown \in Seq(Byte)
      BY <1>1 DEF TypeOK
    <3> QED BY <3>1, Regroup
  <2>3. shown' \o g_tx_buf' = shown \o g_tx_buf
    BY <1>4, <1>5, <2>2, Zenon
  <2> QED BY <2>1, <2>3 DEF HostRead
<1> QED BY <1>8, <1>9, <1>10 DEF IInv

(* The status load and a cycle without a UART access. *)
LEMMA PollInv == IInv /\ (Poll \/ Other) => IInv'
<1> SUFFICES ASSUME IInv, Poll \/ Other PROVE IInv'
  OBVIOUS
<1>1. TypeOK
  BY DEF IInv
<1>2. UartClock(FALSE, <<>>) /\ UNCHANGED <<resetting, resets, typed, transmitted, rxHist, txHist>>
  BY DEF Poll, Other, linkVars
<1>3. UartTypeOK' /\ ReceivesWhatWasTyped' /\ (rx_valid => rx_valid')
  BY <1>2, QuietCycle DEF rxHist
<1>4. drv' \in {"poll", "take"} /\ (drv' = "take" => rx_valid' /\ resetting' \in {0, 5})
  BY <1>1, <1>2, <1>3 DEF Poll, Other, linkVars, IInv, TypeOK, DriverKnows
<1>5. TypeOK'
  BY <1>1, <1>2, <1>3, <1>4 DEF TypeOK, rxHist, txHist
<1>6. ShowsWhatWasSent'
  BY <1>2 DEF IInv, ShowsWhatWasSent, UartClock, txHist
<1> QED BY <1>3, <1>4, <1>5, <1>6 DEF IInv, DriverKnows

(* The data load moves the first pending byte to the program. *)
LEMMA TakeInv == IInv /\ Take => IInv'
<1> SUFFICES ASSUME IInv, Take PROVE IInv'
  OBVIOUS
<1>1. TypeOK /\ UartTypeOK /\ rx_valid
  BY DEF IInv, TypeOK, DriverKnows, Take
<1>2. UartClock(TRUE, <<>>) /\ UNCHANGED <<resetting, resets, typed, transmitted, sent, lost, residue, txHist>>
  BY DEF Take
<1>3. UartTypeOK'
  BY <1>1, <1>2, EdgeType
<1>4. Pending = <<rx_latch>> \o Pending'
  BY <1>1, <1>2, EdgeTakes
<1>5. rx_latch \in Byte /\ got \in Seq(Byte) /\ got' = Append(got, rx_latch)
  BY <1>1 DEF Take, TypeOK, UartTypeOK
<1>6. got' \in Seq(Byte) /\ got' = got \o <<rx_latch>>
  BY <1>5, AppendProperties, AppendIsConcat
<1>7. TypeOK'
  BY <1>1, <1>2, <1>3, <1>6 DEF Take, TypeOK, txHist
<1>8. got' \o Pending' = got \o Pending
  <2>1. Pending' \in Seq(Byte)
    <3>1. Latched' \in Seq(Byte)
      BY <1>2, EmptySeq DEF UartClock, Refill, Latched
    <3> QED BY <1>3, <3>1, ConcatProperties DEF Pending, UartTypeOK
  <2> QED BY <1>4, <1>5, <1>6, <2>1, Regroup, <<rx_latch>> \in Seq(Byte)
<1>9. ReceivesWhatWasTyped'
  BY <1>2, <1>8 DEF IInv, ReceivesWhatWasTyped
<1>10. ShowsWhatWasSent'
  BY <1>2 DEF IInv, ShowsWhatWasSent, UartClock, txHist
<1> QED BY <1>7, <1>9, <1>10 DEF IInv, DriverKnows, Take

(* What the program stores goes to the back of the host's queue. *)
LEMMA TransmitInv == IInv /\ Transmit => IInv'
<1> SUFFICES ASSUME IInv, Transmit PROVE IInv'
  OBVIOUS
<1>1. TypeOK /\ UartTypeOK
  BY DEF IInv, TypeOK
<1> DEFINE c == transmitted + 1
<1>2. c \in Byte /\ c \in 0 .. MaxSent
  BY <1>1, LinkAssumption, UartAssumption DEF Transmit, TypeOK, Byte
<1>3. /\ UartClock(FALSE, <<c>>) /\ transmitted' = c
      /\ UNCHANGED <<drv, resetting, resets, typed, rxHist, shown>>
  BY DEF Transmit
<1>4. <<c>>[1] = c
  OBVIOUS
<1> HIDE DEF c
<1>5. UartTypeOK' /\ ReceivesWhatWasTyped' /\ (rx_valid => rx_valid')
  BY <1>2, <1>3, <1>4, QuietCycle DEF rxHist
<1>6. out \in Seq(Byte) /\ out' = Append(out, c) /\ out' \in Seq(Byte)
  BY <1>1, <1>2, AppendProperties DEF Transmit, TypeOK, c
<1>7. TypeOK'
  BY <1>1, <1>2, <1>3, <1>5, <1>6 DEF Transmit, TypeOK, rxHist
<1>8. ShowsWhatWasSent'
  <2> SUFFICES ASSUME ~txLost', resetting' = 0 PROVE shown' \o g_tx_buf' = out'
    BY DEF ShowsWhatWasSent
  <2>1. ~txLost /\ Len(g_tx_buf) # MaxBuffered
    BY DEF Transmit
  <2>2. g_tx_buf' = Append(g_tx_buf, c)
    BY <1>1, <1>3, <1>4, <2>1, UartAssumption DEF UartClock, PushBounded, UartTypeOK
  <2>3. shown \o g_tx_buf = out
    BY <1>3, <2>1 DEF IInv, ShowsWhatWasSent
  <2>4. shown \o Append(g_tx_buf, c) = Append(shown \o g_tx_buf, c)
    BY <1>1, <1>2, AppendOfConcat DEF TypeOK, UartTypeOK
  <2> QED BY <1>3, <1>6, <2>2, <2>3, <2>4
<1>9. DriverKnows'
  BY <1>3, <1>5 DEF IInv, DriverKnows
<1> QED BY <1>5, <1>7, <1>8, <1>9 DEF IInv

(* A reset: the first cycle may hold the driver's data load, the flush     *)
(* leaves at most the latch, and the promise starts anew with it.          *)
LEMMA ResetInv == IInv /\ (BeginReset \/ ResetTick \/ FinishReset) => IInv'
<1> SUFFICES ASSUME IInv, BeginReset \/ ResetTick \/ FinishReset PROVE IInv'
  OBVIOUS
<1>1. TypeOK /\ UartTypeOK
  BY DEF IInv, TypeOK
<1>2. CASE BeginReset
  <2>1. resets' \in 0 .. MaxResets
    BY <1>1, <1>2, LinkAssumption DEF BeginReset, TypeOK
  <2>2. UartTypeOK'
    BY <1>1, <1>2 DEF BeginReset, uartVars, UartTypeOK
  <2>3. TypeOK'
    BY <1>1, <1>2, <2>1, <2>2 DEF BeginReset, TypeOK, rxHist, txHist
  <2> QED BY <1>2, <2>3 DEF BeginReset, IInv, DriverKnows, ReceivesWhatWasTyped,
                            ShowsWhatWasSent, uartVars
<1>3. CASE ResetTick
  <2>1. UartTypeOK'
    <3>1. 0 \in Byte
      BY UartAssumption DEF Byte
    <3>2. PICK rd \in BOOLEAN, tx \in {<<>>, <<0>>} : UartClock(rd, tx)
      BY <1>3 DEF ResetTick
    <3> QED BY <1>1, <3>1, <3>2, EdgeType
  <2>2. resetting' \in 0 .. 5 /\ resetting' # 0 /\ drv' = "poll"
    BY <1>1, <1>3 DEF ResetTick, TypeOK
  <2>3. TypeOK'
    BY <1>1, <1>3, <2>1, <2>2 DEF ResetTick, TypeOK, rxHist, txHist
  <2> QED BY <2>2, <2>3 DEF IInv, DriverKnows, ReceivesWhatWasTyped, ShowsWhatWasSent
<1>4. CASE FinishReset
  <2>1. drv' = "poll"
    BY <1>1, <1>4 DEF FinishReset, IInv, DriverKnows, TypeOK
  <2>2. residue' \in Seq(Byte)
    BY <1>1, <1>4 DEF FinishReset, UartTypeOK
  <2>3. UartTypeOK'
    BY <1>1, <1>4, UartAssumption DEF FinishReset, UartFlush, UartTypeOK
  <2>4. TypeOK'
    <3>1. {lost', txLost'} \subseteq BOOLEAN
      BY <1>4, Zenon DEF FinishReset
    <3>2. {sent', got', residue', out', shown'} \subseteq Seq(Byte)
      BY <1>4, <2>2, EmptySeq DEF FinishReset
    <3>3. resetting' \in 0 .. 5 /\ UNCHANGED <<resets, typed, transmitted>>
      BY <1>4 DEF FinishReset
    <3> QED BY <1>1, <2>1, <2>3, <3>1, <3>2, <3>3 DEF TypeOK
  <2>5. ReceivesWhatWasTyped'
    <3>1. Latched' = residue' /\ g_rx_buf' = <<>> /\ got' = <<>> /\ sent' = <<>>
      BY <1>4 DEF FinishReset, UartFlush, Latched
    <3>2. Pending' = residue'
      BY <2>2, <3>1, ConcatEmptySeq DEF Pending
    <3> QED BY <2>2, <3>1, <3>2, ConcatEmptySeq DEF ReceivesWhatWasTyped
  <2>6. ShowsWhatWasSent'
    BY <1>4, ConcatEmptySeq DEF FinishReset, UartFlush, ShowsWhatWasSent
  <2> QED BY <2>1, <2>4, <2>5, <2>6 DEF IInv, DriverKnows
<1> QED BY <1>2, <1>3, <1>4

LEMMA Invariance == Spec => []IInv
<1>1. IInv /\ [Next]_vars => IInv'
  <2> SUFFICES ASSUME IInv, [Next]_vars PROVE IInv'
    OBVIOUS
  <2>1. CASE Next
    BY <2>1, HostWriteInv, HostReadInv, PollInv, TakeInv, TransmitInv, ResetInv DEF Next
  <2>2. CASE UNCHANGED vars
    BY <2>2 DEF vars, uartVars, linkVars, rxHist, txHist, IInv, TypeOK, UartTypeOK, DriverKnows,
                ReceivesWhatWasTyped, ShowsWhatWasSent, Pending, Latched
  <2> QED BY <2>1, <2>2
<1> QED BY <1>1, InitInv, PTL DEF Spec

(* Latch, queues and histories keep their types, and no queue exceeds its  *)
(* capacity, whatever host and program do (uart_sim.v:54-83,               *)
(* dpi_hooks.cpp:28-71).                                                   *)
THEOREM LinkTypeCorrect == Spec => []TypeOK
<1>1. IInv => TypeOK
  BY DEF IInv
<1> QED BY <1>1, Invariance, PTL

(* In each run between two resets the program receives exactly what the    *)
(* host typed, and the host shows exactly what the program sent, each byte *)
(* once and in order, as long as no queue overflows; and the driver never  *)
(* takes a byte that is not there (uart_sim.v:54-64, util.h:36-39).        *)
THEOREM LinkDelivers == Spec => []LinkKeepsBytes
<1>1. IInv => LinkKeepsBytes
  BY DEF IInv, DriverKnows, LinkKeepsBytes, TakeFindsByte
<1> QED BY <1>1, Invariance, PTL

-----------------------------------------------------------------------------
(* The channel that latch and queue implement. *)

(* The bytes behind the latch, when there is room and when there is not. *)
LEMMA HostWriteSends ==
  ASSUME IInv, HostWrite
  PROVE  Channel!Send \/ Channel!SendFull
<1>1. TypeOK /\ UartTypeOK
  BY DEF IInv, TypeOK
<1> DEFINE c == typed + 1
           rest == Tail(g_rx_buf)
<1>2. c \in Byte
  BY <1>1, LinkAssumption, UartAssumption DEF HostWrite, TypeOK, Byte
<1>3. g_rx_buf' = PushBounded(g_rx_buf, c) /\ Latched' = Latched /\ got' = got
  BY DEF HostWrite, UartPush, Latched
<1>4. Latched \in Seq(Byte) /\ Pending \in Seq(Byte) /\ g_rx_buf \in Seq(Byte)
  BY <1>1, PendingType DEF UartTypeOK
<1>5. CASE Len(g_rx_buf) < MaxBuffered
  <2>1. Pending' = Append(Pending, c)
    BY <1>2, <1>3, <1>4, <1>5, AppendOfConcat DEF PushBounded, Pending
  <2> QED BY <1>2, <1>3, <2>1 DEF Channel!Send
<1>6. CASE Len(g_rx_buf) = MaxBuffered
  <2>1. g_rx_buf # <<>> /\ rest \in Seq(Byte) /\ Len(rest) = Len(g_rx_buf) - 1
    BY <1>4, <1>6, HeadTailProperties, UartAssumption
  <2>2. Pending' = Latched \o Append(rest, c)
    BY <1>3, <1>6, UartAssumption DEF PushBounded, Pending
  <2>3. Pending' = Append(Latched \o rest, c)
    BY <1>2, <1>4, <2>1, <2>2, AppendOfConcat
  <2> DEFINE k == Len(Latched) + 1
  <2>4. k \in {1, 2} /\ k <= Len(Pending) /\ Len(Pending) >= MaxBuffered
    <3>1. Len(Latched) \in {0, 1}
      BY DEF Latched
    <3>2. Len(Pending) = Len(Latched) + Len(g_rx_buf)
      BY <1>4, ConcatProperties DEF Pending
    <3>3. Len(Pending) \in Nat /\ Len(Pending) = Len(Latched) + MaxBuffered
      BY <1>4, <1>6, <3>2
    <3>4. MaxBuffered \in Nat /\ MaxBuffered >= 1
      BY UartAssumption
    <3>5. ASSUME NEW a \in {0, 1}, NEW n \in Nat, n = a + MaxBuffered
          PROVE  a + 1 \in {1, 2} /\ a + 1 <= n /\ n >= MaxBuffered
      BY <3>4, <3>5
    <3> QED BY <3>1, <3>3, <3>5
  <2>5. Latched \o rest = SubSeq(Pending, 1, k - 1) \o SubSeq(Pending, k + 1, Len(Pending))
    <3>1. SubSeq(Pending, 1, k - 1) = Latched
      <4>1. CASE Latched = <<>>
        BY <4>1, SubSeqEmpty
      <4>2. CASE Latched # <<>>
        <5>1. 1 \in 1 .. Len(Latched) /\ Len(Latched) \in 1 .. Len(Latched)
          BY <1>4, <4>2
        <5>2. SubSeq(Pending, 1, Len(Latched)) = SubSeq(Latched, 1, Len(Latched))
          BY <1>4, <5>1, SubSeqOfConcat1 DEF Pending
        <5> QED BY <1>4, <5>2, SubSeqFull
      <4> QED BY <4>1, <4>2
    <3>2. SubSeq(Pending, k + 1, Len(Pending)) = rest
      <4>1. rest = SubSeq(g_rx_buf, 2, Len(g_rx_buf))
        BY <1>4, <2>1, TailIsSubSeq
      <4>2. Len(Pending) = Len(Latched) + Len(g_rx_buf)
        BY <1>4, ConcatProperties DEF Pending
      <4>3. CASE Len(g_rx_buf) = 1
        BY <1>4, <4>1, <4>2, <4>3, SubSeqEmpty
      <4>4. CASE Len(g_rx_buf) > 1
        <5>1. /\ k + 1 \in Len(Latched) + 1 .. Len(Latched) + Len(g_rx_buf)
              /\ Len(Pending) \in Len(Latched) + 1 .. Len(Latched) + Len(g_rx_buf)
          BY <1>4, <4>2, <4>4
        <5>2. /\ SubSeq(Pending, k + 1, Len(Pending))
                   = SubSeq(g_rx_buf, k + 1 - Len(Latched), Len(Pending) - Len(Latched))
          BY <1>4, <5>1, SubSeqOfConcat2 DEF Pending
        <5>3. k + 1 - Len(Latched) = 2 /\ Len(Pending) - Len(Latched) = Len(g_rx_buf)
          BY <1>4, <4>2
        <5> QED BY <4>1, <5>2, <5>3
      <4>5. Len(g_rx_buf) = 1 \/ Len(g_rx_buf) > 1
        BY <1>4, <2>1
      <4> QED BY <4>3, <4>4, <4>5, Zenon
    <3> QED BY <3>1, <3>2
  <2>6. Pending' = Append(Channel!RemoveAt(Pending, k), c)
    BY <2>3, <2>5 DEF Channel!RemoveAt
  <2> HIDE DEF k, c
  <2> QED BY <1>2, <1>3, <2>4, <2>6 DEF Channel!SendFull
<1> QED BY <1>1, <1>5, <1>6, UartAssumption DEF UartTypeOK

(* A cycle without a data load, and everything on the transmit side, is    *)
(* invisible to the channel.                                               *)
LEMMA OthersStutter ==
  ASSUME IInv, Poll \/ Other \/ Transmit \/ BeginReset
               \/ (\E max \in 1 .. MaxBuffered : HostRead(max))
  PROVE  UNCHANGED <<Pending, got>>
<1>1. UartTypeOK
  BY DEF IInv, TypeOK
<1>2. CASE Poll \/ Other \/ Transmit
  <2>1. \E tx : UartClock(FALSE, tx)
    BY <1>2 DEF Poll, Other, Transmit
  <2>2. Pending' = Pending
    BY <1>1, <2>1, EdgeKeepsPending
  <2> QED BY <1>2, <2>2 DEF Poll, Other, Transmit, rxHist
<1>3. CASE BeginReset
  BY <1>3 DEF BeginReset, uartVars, rxHist, Pending, Latched
<1>4. ASSUME NEW max \in 1 .. MaxBuffered, HostRead(max)
      PROVE  UNCHANGED <<Pending, got>>
  <2>1. UNCHANGED <<rx_latch, rx_valid, g_rx_buf, got>>
    BY <1>4 DEF HostRead, UartDrain, rxHist
  <2> QED BY <2>1 DEF Pending, Latched
<1> QED BY <1>2, <1>3, <1>4

(* The first cycle of a reset may take the latched byte from a load that   *)
(* never completes.                                                        *)
LEMMA ResetTickDiscards ==
  ASSUME IInv, ResetTick
  PROVE  Channel!Discard \/ UNCHANGED <<Pending, got>>
<1>1. UartTypeOK /\ got' = got
  BY DEF IInv, TypeOK, ResetTick, rxHist
<1>2. PICK rd \in BOOLEAN, tx \in {<<>>, <<0>>} :
        /\ rd => drv = "take"
        /\ tx # <<>> => ~rd
        /\ UartClock(rd, tx)
  BY DEF ResetTick
<1>3. CASE rd
  <2>1. rx_valid /\ UartClock(TRUE, <<>>)
    BY <1>2, <1>3 DEF IInv, DriverKnows
  <2>2. Pending # <<>> /\ Pending' = Tail(Pending)
    BY <1>1, <2>1, EdgeTakes
  <2> QED BY <1>1, <2>2 DEF Channel!Discard
<1>4. CASE ~rd
  <2>1. UartClock(FALSE, tx)
    BY <1>2, <1>4
  <2> QED BY <1>1, <2>1, EdgeKeepsPending
<1> QED BY <1>3, <1>4

(* The flush leaves of the pending bytes the latched one. *)
LEMMA FlushRestarts ==
  ASSUME IInv, FinishReset
  PROVE  Channel!Restart
<1>1. UartTypeOK
  BY DEF IInv, TypeOK
<1>2. Latched' = Latched /\ g_rx_buf' = <<>> /\ got' = <<>>
  BY DEF FinishReset, UartFlush, Latched
<1>3. Latched \in Seq(Byte) /\ g_rx_buf \in Seq(Byte)
  BY <1>1, PendingType DEF UartTypeOK
<1>4. Pending' = Latched
  BY <1>2, <1>3, ConcatEmptySeq DEF Pending
<1>5. Len(Latched) \in {0, 1}
  BY DEF Latched
<1>6. Len(Latched) <= Len(Pending)
  <2>1. Len(Pending) = Len(Latched) + Len(g_rx_buf)
    BY <1>3, ConcatProperties DEF Pending
  <2> QED BY <1>3, <2>1
<1>7. SubSeq(Latched, 1, Len(Latched)) = SubSeq(Pending, 1, Len(Latched))
  <2>1. CASE Latched = <<>>
    BY <2>1, SubSeqEmpty
  <2>2. CASE Latched # <<>>
    <3>1. 1 \in 1 .. Len(Latched) /\ Len(Latched) \in 1 .. Len(Latched)
      BY <1>3, <2>2
    <3> QED BY <1>3, <3>1, SubSeqOfConcat1 DEF Pending
  <2> QED BY <2>1, <2>2
<1>8. Len(Pending') <= 1
  <2>1. Len(Latched) <= 1
    BY <1>5
  <2> QED BY <1>4, <2>1, Zenon
<1>9. Channel!IsPrefix(Pending', Pending)
  BY <1>4, <1>6, <1>7 DEF Channel!IsPrefix
<1> QED BY <1>2, <1>8, <1>9 DEF Channel!Restart

(* The receive side is a first-in first-out channel that delivers each     *)
(* byte once, a full one making room by losing one byte and a reset        *)
(* discarding what it holds but for at most one byte (uart_sim.v:54-64,    *)
(* dpi_hooks.cpp:47-71, raijin_api.cpp:114-121).                           *)
THEOREM LinkIsChannel == Spec => ImplementsChannel
<1>1. Init => Channel!Init
  <2> SUFFICES ASSUME Init PROVE Pending = <<>> /\ got = <<>>
    BY DEF Channel!Init
  <2> QED BY DEF Init, UartInit, Pending, Latched
<1>2. IInv /\ [Next]_vars => [Channel!Next]_<<Pending, got>>
  <2> SUFFICES ASSUME IInv, [Next]_vars PROVE [Channel!Next]_<<Pending, got>>
    OBVIOUS
  <2>1. CASE HostWrite
    BY <2>1, HostWriteSends DEF Channel!Next
  <2>2. CASE Poll \/ Other \/ Transmit \/ BeginReset
             \/ (\E max \in 1 .. MaxBuffered : HostRead(max))
    BY <2>2, OthersStutter
  <2>3. CASE Take
    <3>1. UartTypeOK /\ rx_valid /\ UartClock(TRUE, <<>>)
      BY <2>3 DEF Take, IInv, TypeOK, DriverKnows
    <3>2. Pending # <<>> /\ Head(Pending) = rx_latch /\ Pending' = Tail(Pending)
      BY <3>1, EdgeTakes
    <3>3. got' = Append(got, rx_latch)
      BY <2>3 DEF Take
    <3> QED BY <3>2, <3>3 DEF Channel!Receive, Channel!Next
  <2>4. CASE ResetTick
    BY <2>4, ResetTickDiscards DEF Channel!Next
  <2>5. CASE FinishReset
    BY <2>5, FlushRestarts DEF Channel!Next
  <2>6. CASE UNCHANGED vars
    BY <2>6 DEF vars, uartVars, rxHist, Pending, Latched
  <2> QED BY <2>1, <2>2, <2>3, <2>4, <2>5, <2>6 DEF Next
<1> QED BY <1>1, <1>2, Invariance, PTL DEF Spec, ImplementsChannel, Channel!Spec
=============================================================================
