-------------------------------- MODULE Uart --------------------------------
(***************************************************************************)
(* uart_sim.v and the host side of it in dpi_hooks.cpp: a one-byte receive *)
(* latch in the RTL in front of a host queue, and a host ring for what the *)
(* program transmits.  Both queues drop their oldest byte when full.       *)
(***************************************************************************)
EXTENDS Naturals, Sequences

CONSTANTS
  ByteBase,      \* number of values of a byte
  MaxBuffered    \* capacity of each host queue (1 MiB in dpi_hooks.cpp)

ASSUME UartAssumption == ByteBase \in Nat \ {0} /\ MaxBuffered \in Nat \ {0}

Byte == 0 .. ByteBase - 1

VARIABLES
  rx_latch, rx_valid,   \* the RTL's receive latch; it has no reset
  g_rx_buf,             \* host to program
  g_tx_buf              \* program to host

uartVars == <<rx_latch, rx_valid, g_rx_buf, g_tx_buf>>

UartTypeOK ==
  /\ rx_latch \in Byte
  /\ rx_valid \in BOOLEAN
  /\ g_rx_buf \in Seq(Byte) /\ Len(g_rx_buf) <= MaxBuffered
  /\ g_tx_buf \in Seq(Byte) /\ Len(g_tx_buf) <= MaxBuffered

(* Mutants of PushBounded: no cap; a stack. *)
PushBounded_NoCap(q, c) == Append(q, c)
PushBounded_Stack(q, c) ==
  IF Len(q) < MaxBuffered THEN <<c>> \o q ELSE <<c>> \o Tail(q)

(* push_back, then pop_front while the queue is over its cap. *)
PushBounded(q, c) ==
  IF Len(q) < MaxBuffered THEN Append(q, c) ELSE Append(Tail(q), c)

(* Mutants of Refill: whatever the latch holds; never into an empty one.   *)
Refill_Always == g_rx_buf # <<>>
Refill_Full == rx_valid /\ g_rx_buf # <<>>

(* An empty latch pre-fetches from the host queue. *)
Refill == ~rx_valid /\ g_rx_buf # <<>>

(* One rising edge.  rd: the core is loading RX_DATA; tx: <<b>> when the   *)
(* core stores b to TX_DATA, else <<>>.  The clearing of rx_valid on a     *)
(* read is the later assignment, so it wins over a pre-fetch in the same   *)
(* cycle, and the byte fetched is lost.                                    *)
UartClock(rd, tx) ==
  /\ rx_latch' = IF Refill THEN Head(g_rx_buf) ELSE rx_latch
  /\ g_rx_buf' = IF Refill THEN Tail(g_rx_buf) ELSE g_rx_buf
  /\ rx_valid' = (~rd /\ (rx_valid \/ Refill))
  /\ g_tx_buf' = IF tx = <<>> THEN g_tx_buf ELSE PushBounded(g_tx_buf, tx[1])

(* The read port, by register. *)
UartRead(reg) ==
  CASE reg = "TX_READY"  -> 1
    [] reg = "RX_DATA"   -> rx_latch
    [] reg = "RX_STATUS" -> IF rx_valid THEN 1 ELSE 0
    [] OTHER             -> 0

(* Host calls. *)
UartPush(c) ==
  /\ g_rx_buf' = PushBounded(g_rx_buf, c)
  /\ UNCHANGED <<rx_latch, rx_valid, g_tx_buf>>

UartDrain(max) ==
  LET n == IF Len(g_tx_buf) < max THEN Len(g_tx_buf) ELSE max
  IN /\ g_tx_buf' = SubSeq(g_tx_buf, n + 1, Len(g_tx_buf))
     /\ UNCHANGED <<rx_latch, rx_valid, g_rx_buf>>

UartFlush ==
  /\ g_tx_buf' = <<>>
  /\ g_rx_buf' = <<>>
  /\ UNCHANGED <<rx_latch, rx_valid>>

UartInit ==
  /\ rx_latch = 0     \* the simulator zero-fills what nothing resets
  /\ rx_valid = FALSE
  /\ g_rx_buf = <<>>
  /\ g_tx_buf = <<>>
=============================================================================
