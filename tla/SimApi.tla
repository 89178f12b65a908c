------------------------------- MODULE SimApi -------------------------------
(***************************************************************************)
(* raijin_api.cpp: the C API around the verilated core.  A call is a       *)
(* sequence of clock ticks of RaijinCore: raijin_step with its halt check, *)
(* hard_reset with its four ticks and the UART flush, and load_hex, which  *)
(* writes the memories behind the design's back and then resets; the low   *)
(* half of the next tick settles the nets on what it wrote.                *)
(*                                                                         *)
(* A hex file is the program and the data image its words amount to; the   *)
(* encoding of instructions is left out.                                   *)
(***************************************************************************)
EXTENDS RaijinCore

CONSTANTS
  HexFiles,      \* [code : the instructions, data : the DMEM image]
  TohostIndex,   \* TOHOST_WORD_INDEX
  Window,        \* HALT_CHECK_MASK + 1
  Budgets,       \* the max_cycles the host passes to raijin_step
  MaxCycleCount  \* bound: no step begins beyond it

ASSUME SimAssumption ==
  /\ TohostIndex \in DmemIndex /\ Window \in Nat \ {0}
  /\ Budgets \subseteq Nat \ {0} /\ MaxCycleCount \in Nat

VARIABLES
  call,         \* the call in progress: "none", "step", "reset" or "flush"
  left,         \* cycles the step may still run, or ticks the reset has left
  ran,          \* cycles the step has run
  cycle_count,  \* as the API reports it
  resident      \* history: cycles of this step since tohost was last zero

apiVars == <<call, left, ran, cycle_count, resident>>
simVars == <<vars, apiVars>>

halted == dmem[TohostIndex] # 0

(* raijin_create: the constructor has reset a design with empty memories. *)
SimInit ==
  /\ Init
  /\ call = "none" /\ left = 0 /\ ran = 0 /\ cycle_count = 0 /\ resident = 0

-----------------------------------------------------------------------------
(* raijin_step *)

BeginStep(max) ==
  /\ call = "none" /\ cycle_count <= MaxCycleCount
  /\ call' = "step" /\ left' = max /\ ran' = 0 /\ resident' = 0
  /\ UNCHANGED <<vars, cycle_count>>

(* Mutant: the halt check is done once, after the first window. *)
StepEnds_FirstWindow(n, rest) == rest = 0 \/ (n = Window /\ halted')

(* The loop is left when the budget is used up, or when the check that     *)
(* every Window-th cycle ends with finds tohost set.                       *)
StepEnds(n, rest) == rest = 0 \/ (n % Window = 0 /\ halted')

(* One cycle; the total is added when the loop is left. *)
StepCycle ==
  /\ call = "step"
  /\ Tick
  /\ ran' = ran + 1 /\ left' = left - 1
  /\ IF StepEnds(ran + 1, left - 1)
     THEN call' = "none" /\ cycle_count' = cycle_count + ran'
     ELSE UNCHANGED <<call, cycle_count>>
  /\ resident' = IF halted' THEN resident + 1 ELSE 0

-----------------------------------------------------------------------------
(* hard_reset: four ticks with reset up, then the UART flush. *)

BeginReset ==
  /\ call = "none"
  /\ call' = "reset" /\ left' = 4
  /\ UNCHANGED <<vars, ran, cycle_count, resident>>

ResetCycle ==
  /\ call = "reset"
  /\ ResetTick
  /\ left' = left - 1
  /\ call' = IF left' = 0 THEN "flush" ELSE "reset"
  /\ UNCHANGED <<ran, cycle_count, resident>>

(* Mutants: the count is left alone; the queues are. *)
FinishReset_KeepsCount ==
  /\ call = "flush"
  /\ call' = "none"
  /\ UartFlush
  /\ UNCHANGED <<coreVars, clintVars, csrVars, left, ran, resident, cycle_count>>
FinishReset_NoFlush ==
  /\ call = "flush"
  /\ call' = "none" /\ cycle_count' = 0
  /\ UNCHANGED <<vars, left, ran, resident>>

FinishReset ==
  /\ call = "flush"
  /\ call' = "none" /\ cycle_count' = 0
  /\ UartFlush
  /\ UNCHANGED <<coreVars, clintVars, csrVars, left, ran, resident>>

-----------------------------------------------------------------------------
(* load_hex: both memories are overwritten, then hard_reset.  A file that  *)
(* does not fit leaves what was written so far and no reset; one that      *)
(* cannot be opened changes nothing.                                       *)

Overwrite(f) ==
  /\ call = "none"
  /\ imem' = f.code /\ dmem' = f.data
  /\ UNCHANGED <<pc, regs, cnt, clintVars, csrVars, uartVars>>
  /\ UNCHANGED <<ran, cycle_count, resident>>

LoadHex(f) == Overwrite(f) /\ call' = "reset" /\ left' = 4
LoadOverflows(f) == Overwrite(f) /\ UNCHANGED <<call, left>>

(* raijin_uart_write and raijin_uart_read, between two calls. *)
HostWrites(b) == call = "none" /\ HostWrite(b) /\ UNCHANGED apiVars
HostReads == call = "none" /\ HostRead /\ UNCHANGED apiVars

SimNext ==
  \/ \E max \in Budgets : BeginStep(max)
  \/ StepCycle
  \/ BeginReset \/ ResetCycle \/ FinishReset
  \/ \E f \in HexFiles : LoadHex(f) \/ LoadOverflows(f)
  \/ \E b \in Byte : HostWrites(b)
  \/ HostReads

SimSpec == SimInit /\ [][SimNext]_simVars

-----------------------------------------------------------------------------
(* A halted program runs on, but never for a whole window: the step that   *)
(* sees tohost non-zero returns within Window - 1 further cycles, also     *)
(* when the program stores to tohost just behind a check (api:213-221).    *)
OvershootBounded == call = "step" => resident < Window

(* What a program can still read of what was typed.                        *)
Unread == (IF rx_valid THEN <<rx_latch>> ELSE <<>>) \o g_rx_buf

(* The core, the counters and the timer as they are out of a reset, with   *)
(* no interrupt armed, pending or enabled.                                 *)
FreshCore ==
  /\ pc = 0 /\ cnt = NoCounts
  /\ mtime = Zero /\ mtimecmp = AllOnes /\ ~msip_bit
  /\ ~mstatus_mie /\ ~mie_mtie /\ ~mie_msie

(* Whatever the program was doing, a reset leaves no output of the run     *)
(* before, though the instruction at pc still transmits in a reset tick,   *)
(* and the core and the counts fresh.  Of what was typed to the old run    *)
(* one byte at most is left to the next: the one in the receive latch,     *)
(* which has no reset and goes on fetching in the reset ticks              *)
(* (raijin_api.cpp:114-121, uart_sim.v:54-64).                             *)
ResetLeavesOnlyLatch ==
  [][FinishReset =>
       /\ FreshCore' /\ cycle_count' = 0
       /\ g_tx_buf' = <<>> /\ Len(Unread') <= 1]_simVars

(* The API's cycle count, the hardware's timer and its cycle counter,      *)
(* which are counted by different means and zeroed at different points of  *)
(* a reset, agree between two calls as long as the program writes neither. *)
TimerTracksCycles ==
  call = "none" =>
    /\ WideValue(mtime) = cycle_count % (Base * Base)
    /\ WideValue(mcycle_ctr) = cycle_count % (Base * Base)

=============================================================================
