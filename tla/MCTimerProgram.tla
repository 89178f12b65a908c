--------------------------- MODULE MCTimerProgram ---------------------------
(***************************************************************************)
(* The core running the repository's own interrupt demo,                   *)
(* raijin/programs/timer_int_test.py, with its addresses scaled to the     *)
(* model's memory map: the handler is at byte 64, the data at 0, 4 and 8,  *)
(* the UART at 32 and the CLINT at 64.  Main owns registers 1..5, the      *)
(* handler 6..10.                                                          *)
(***************************************************************************)
EXTENDS RaijinCore

CONSTANTS
  Deltas, TargetTicks,   \* the tick periods to try, and when to halt
  MaxCycles              \* the test bench gives up after as many cycles

Handler == 64
DATA_TOHOST == 0
DATA_INTR_COUNT == 4
DATA_LOOP_COUNT == 8
CLINT == 64

LI(r, v) == [op |-> "addi", rd |-> r, rs1 |-> 0, imm |-> v]
ADDI(r, s, v) == [op |-> "addi", rd |-> r, rs1 |-> s, imm |-> v]
LW(r, base, off) ==
  [op |-> "load", rd |-> r, rs1 |-> base, imm |-> off, size |-> "word", signed |-> TRUE]
SW(r, base, off) == [op |-> "store", rs2 |-> r, rs1 |-> base, imm |-> off, size |-> "word"]
CSRRW(c, s) == [op |-> "csr", f |-> "write", csr |-> c, src |-> "reg", rd |-> 0, rs1 |-> s]
CSRRS(c, s) == [CSRRW(c, s) EXCEPT !.f = "set"]
JAL(off) == [op |-> "jal", rd |-> 0, imm |-> off]
BNE(a, b, off) == [op |-> "bne", rs1 |-> a, rs2 |-> b, imm |-> off]
BGE(a, b, off) == [op |-> "bge", rs1 |-> a, rs2 |-> b, imm |-> off]
MRET == [op |-> "mret"]
NOP == [op |-> "nop"]

Main(delta) ==
  << LI(1, Handler), CSRRW("mtvec", 1),
     LI(2, delta), LI(3, CLINT), SW(2, 3, 4), SW(0, 3, 8),
     LI(1, 2), CSRRW("mie", 1),                   \* MTIE
     LI(1, 1), CSRRS("mstatus", 1),               \* MIE
     ADDI(4, 4, 1), SW(4, 0, DATA_LOOP_COUNT),    \* loop_start
     LW(5, 0, DATA_TOHOST), BNE(5, 0, 8), JAL(WordBase - 16),
     JAL(0) >>                                    \* halt_target

TrapHandler(delta) ==
  << LW(6, 0, DATA_INTR_COUNT), ADDI(6, 6, 1), SW(6, 0, DATA_INTR_COUNT),
     LW(7, 0, CLINT + 4), ADDI(7, 7, delta), SW(7, 0, CLINT + 4),
     LI(8, TargetTicks), BGE(6, 8, 8),
     MRET,
     LI(9, 1), SW(9, 0, DATA_TOHOST),             \* handler_done
     LI(10, 255), SW(10, 0, CLINT + 4), SW(10, 0, CLINT + 8),
     MRET >>

TimerProgram(delta) ==
  LET code == Main(delta) \o TrapHandler(delta)
  IN [k \in 0 .. Len(code) - 1 |-> code[k + 1]]

TimerPrograms == {TimerProgram(d) : d \in Deltas}

ASSUME TimerProgramAssumption ==
  /\ Programs = TimerPrograms /\ Deltas \subseteq Word /\ TargetTicks \in Word
  /\ WordBase >= 256 /\ RegCount > 10 /\ UartPage = 1 /\ ClintPage = 2

(* timer_int_tb clocks the core until the program has halted, or for       *)
(* MaxCycles: here, until tohost is written and main has reached its       *)
(* parking loop.                                                           *)
Halted == dmem[DATA_TOHOST \div 4] # 0 /\ pc = 60
StepUntilHalted == ~Halted /\ WideValue(mtime) < MaxCycles /\ Tick
Running == Init /\ [][StepUntilHalted]_vars /\ WF_vars(StepUntilHalted)

-----------------------------------------------------------------------------
InHandler == pc >= Handler

(* Interrupts are transparent: seen through its own registers and memory,  *)
(* with the handler's steps as stuttering, the main program runs as on a   *)
(* machine that has no interrupts.  No instruction is skipped, executed    *)
(* twice or half executed, wherever the timer cuts in (raijin_core.v:166-  *)
(* 210 and 430-441, csr_file.v:197-207).                                   *)
Unpreempted ==
  INSTANCE Isa WITH
    Owned <- {DATA_LOOP_COUNT \div 4}, OwnedRegs <- 1 .. 5, DeviceBase <- 8,
    prog <- imem,
    pc <- IF InHandler THEN mepc ELSE pc,
    regs <- [r \in 1 .. 5 |-> regs[r]],
    mem <- [a \in {DATA_LOOP_COUNT \div 4} |-> dmem[a]]
InterruptsTransparent == Unpreempted!Spec

(* The n-th deadline main and the handler arm is n periods from the start. *)
delta == imem[2].imm
Deadline(n) == n * delta

(* The line is not up before the first deadline, and while it is, no more  *)
(* interrupts have been taken than deadlines have passed: not between the  *)
(* two stores that arm the timer or the two that disarm it, either, where  *)
(* mtimecmp is half old and half new (clint.v:84-89).                      *)
NoTickEarly == mtip => \A n \in {1, cnt["trap"]} : WideValue(mtime) >= Deadline(n)

(* Every armed deadline is served, and none before its time: within        *)
(* MaxCycles, TargetTicks interrupts are taken, no more and no fewer, the  *)
(* handler's store to tohost ends the run, and main sees it                *)
(* (timer_int_tb.v:89-102).                                                *)
DeadlinesServed ==
  /\ []NoTickEarly
  /\ <>(/\ Halted /\ dmem[DATA_TOHOST \div 4] = 1
        /\ dmem[DATA_INTR_COUNT \div 4] = TargetTicks
        /\ cnt["trap"] = TargetTicks)
=============================================================================
