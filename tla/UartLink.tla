------------------------------ MODULE UartLink ------------------------------
(***************************************************************************)
(* A host that types and drains, the UART, and a program that receives the *)
(* way the repository's C runtime does: read RX_STATUS until it is set,    *)
(* then read RX_DATA (tools/c-runtime/shims/util.h).  Interrupts are off;  *)
(* RaijinCore shows what they do to this loop.  raijin_reset may come      *)
(* between any two cycles.                                                 *)
(*                                                                         *)
(* A byte is its serial number, so that duplicates and swaps show.         *)
(***************************************************************************)
EXTENDS Uart

CONSTANTS
  MaxTyped,      \* bytes the host types in all
  MaxSent,       \* bytes the program transmits in all
  MaxResets

ASSUME LinkAssumption ==
  /\ MaxTyped \in Nat /\ MaxSent \in Nat /\ MaxResets \in Nat
  /\ MaxTyped < ByteBase /\ MaxSent < ByteBase

VARIABLES
  drv,          \* "poll": about to read RX_STATUS; "take": about to read RX_DATA
  resetting,    \* 0: running; 5..2: reset ticks left plus one; 1: flush
  resets,       \* resets so far
  \* history, since the last reset
  typed, transmitted,   \* serial numbers used
  sent, got, lost,      \* receive side: typed, received, overflowed
  out, shown, txLost,   \* transmit side: sent by the program, drained
  residue               \* what the last flush left in the latch

linkVars == <<drv, resetting, resets, typed, transmitted>>
rxHist == <<sent, got, lost, residue>>
txHist == <<out, shown, txLost>>
vars == <<uartVars, linkVars, rxHist, txHist>>

Init ==
  /\ UartInit
  /\ drv = "poll" /\ resetting = 0 /\ resets = 0
  /\ typed = 0 /\ transmitted = 0
  /\ sent = <<>> /\ got = <<>> /\ lost = FALSE /\ residue = <<>>
  /\ out = <<>> /\ shown = <<>> /\ txLost = FALSE

-----------------------------------------------------------------------------
(* raijin_uart_write and raijin_uart_read. *)
HostWrite ==
  /\ resetting = 0 /\ typed < MaxTyped
  /\ UartPush(typed + 1)
  /\ typed' = typed + 1
  /\ sent' = Append(sent, typed + 1)
  /\ lost' = (lost \/ Len(g_rx_buf) = MaxBuffered)
  /\ UNCHANGED <<drv, resetting, resets, transmitted, got, residue, txHist>>

HostRead(max) ==
  /\ resetting = 0 /\ g_tx_buf # <<>>
  /\ UartDrain(max)
  /\ shown' = shown \o SubSeq(g_tx_buf, 1, Len(g_tx_buf) - Len(g_tx_buf'))
  /\ UNCHANGED <<linkVars, rxHist, out, txLost>>

(* Mutant of Poll: the status load acknowledges the byte. *)
Poll_ClearsOnStatus ==
  /\ resetting = 0 /\ drv = "poll"
  /\ UartClock(TRUE, <<>>)
  /\ drv' = IF rx_valid THEN "take" ELSE "poll"
  /\ UNCHANGED <<resetting, resets, typed, transmitted, rxHist, txHist>>

(* One cycle of the program: status load, data load, TX store, or other. *)
Poll ==
  /\ resetting = 0 /\ drv = "poll"
  /\ UartClock(FALSE, <<>>)
  /\ drv' = IF rx_valid THEN "take" ELSE "poll"
  /\ UNCHANGED <<resetting, resets, typed, transmitted, rxHist, txHist>>

Take ==
  /\ resetting = 0 /\ drv = "take"
  /\ UartClock(TRUE, <<>>)
  /\ got' = Append(got, rx_latch)
  /\ drv' = "poll"
  /\ UNCHANGED <<resetting, resets, typed, transmitted, sent, lost, residue, txHist>>

Transmit ==
  /\ resetting = 0 /\ transmitted < MaxSent
  /\ UartClock(FALSE, <<transmitted + 1>>)
  /\ transmitted' = transmitted + 1
  /\ out' = Append(out, transmitted + 1)
  /\ txLost' = (txLost \/ Len(g_tx_buf) = MaxBuffered)
  /\ UNCHANGED <<drv, resetting, resets, typed, rxHist, shown>>

Other ==
  /\ resetting = 0
  /\ UartClock(FALSE, <<>>)
  /\ UNCHANGED <<linkVars, rxHist, txHist>>

-----------------------------------------------------------------------------
(* hard_reset: four ticks with the reset line up, then both host queues    *)
(* are flushed.  The UART sees no reset, and the instruction at pc is on   *)
(* its bus in the first tick: it may be the data load, or a store of some  *)
(* byte.  In the others the registers are zero and no address reaches it.  *)
BeginReset ==
  /\ resetting = 0 /\ resets < MaxResets
  /\ resetting' = 5
  /\ resets' = resets + 1
  /\ UNCHANGED <<uartVars, drv, typed, transmitted, rxHist, txHist>>

ResetTick ==
  /\ resetting > 1
  /\ \E rd \in BOOLEAN, tx \in {<<>>, <<0>>} :
       /\ rd => resetting = 5 /\ drv = "take"
       /\ tx # <<>> => resetting = 5 /\ ~rd
       /\ UartClock(rd, tx)
  /\ drv' = "poll"
  /\ resetting' = resetting - 1
  /\ UNCHANGED <<resets, typed, transmitted, rxHist, txHist>>

FinishReset ==
  /\ resetting = 1
  /\ UartFlush
  /\ resetting' = 0
  /\ residue' = IF rx_valid THEN <<rx_latch>> ELSE <<>>
  /\ sent' = <<>> /\ got' = <<>> /\ lost' = FALSE
  /\ out' = <<>> /\ shown' = <<>> /\ txLost' = FALSE
  /\ UNCHANGED <<drv, resets, typed, transmitted>>

Next ==
  \/ HostWrite
  \/ \E max \in 1 .. MaxBuffered : HostRead(max)
  \/ Poll \/ Take \/ Transmit \/ Other
  \/ BeginReset \/ ResetTick \/ FinishReset

Spec == Init /\ [][Next]_vars

(* The simulator clocks the program for as long as it runs, and the        *)
(* program keeps polling; a reset that has begun completes.                *)
FairSpec == Spec /\ WF_vars(Poll \/ Take) /\ WF_vars(ResetTick \/ FinishReset)

-----------------------------------------------------------------------------
TypeOK ==
  /\ UartTypeOK
  /\ drv \in {"poll", "take"}
  /\ resetting \in 0 .. 5
  /\ resets \in 0 .. MaxResets
  /\ typed \in 0 .. MaxTyped /\ transmitted \in 0 .. MaxSent
  /\ {sent, got, residue, out, shown} \subseteq Seq(Byte)
  /\ {lost, txLost} \subseteq BOOLEAN

(* Bytes on their way to the program, the latched one first. *)
Latched == IF rx_valid THEN <<rx_latch>> ELSE <<>>
Pending == Latched \o g_rx_buf

(* As long as the host queue has not overflowed, the program has received, *)
(* in order and once each, exactly what was typed but for what is still on *)
(* its way; a run may start with a residue of the run before it.           *)
(* (uart_sim.v:54-64 against the status-then-data protocol)                *)
ReceivesWhatWasTyped ==
  resetting = 0 /\ ~lost => got \o Pending = residue \o sent

(* The transmit side, between the program's store and the host's drain in  *)
(* chunks of any size (dpi_hooks.cpp:28-43).                               *)
ShowsWhatWasSent ==
  resetting = 0 /\ ~txLost => shown \o g_tx_buf = out

(* The driver's data load always finds the byte its status load saw. *)
TakeFindsByte == resetting = 0 /\ drv = "take" => rx_valid

(* What the link owes both ends between two resets, whatever the host, the *)
(* program and a flush do in between: no byte is lost, made up, repeated   *)
(* or moved, and none is taken that is not there.                          *)
LinkKeepsBytes == ReceivesWhatWasTyped /\ ShowsWhatWasSent /\ TakeFindsByte

(* The latch and the host queue together implement the channel. *)
Channel == INSTANCE ByteChannel WITH
  Bytes <- Byte, Capacity <- MaxBuffered, chan <- Pending
ImplementsChannel == Channel!Spec

(* Every typed byte reaches a polling program: the channel empties.        *)
EventuallyReceived == []<>(Pending = <<>>)

(* dpi_hooks.cpp:66-67: the flush is there "so a fresh run never sees      *)
(* residual bytes from the previous one".                                  *)
FreshRunSeesNoResidue == residue = <<>>
=============================================================================
