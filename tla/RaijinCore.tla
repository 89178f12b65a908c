----------------------------- MODULE RaijinCore -----------------------------
(***************************************************************************)
(* raijin_core.v: the single-cycle CPU, composed of its datapath, the CSR  *)
(* file, the CLINT and the UART.  Every instruction is fetched, executed   *)
(* and committed in one clock: one action, Clock(reset), is the core.      *)
(*                                                                         *)
(* A word has WordBase values and the memory map is scaled to it: a page   *)
(* is 32 bytes; one page each for the UART and the CLINT, the rest DMEM.   *)
(***************************************************************************)
EXTENDS Clint, CsrFile, Uart, Datapath

CONSTANTS
  RegCount,     \* number of registers, x0 included
  Programs,     \* the programs imem may be loaded with
  UartPage, ClintPage,
  CountBase     \* number of values of a performance counter (2^64)

ASSUME CoreAssumption ==
  /\ RegCount \in Nat \ {0, 1}
  /\ Base <= WordBase /\ ByteBase <= WordBase
  /\ UartPage \in Nat /\ ClintPage \in Nat /\ UartPage # ClintPage
  /\ CountBase \in Nat \ {0}

VARIABLES
  imem,   \* the program: instructions at byte addresses 0, 4, 8, ...
  pc,     \* byte address
  regs,
  dmem,   \* word index to word
  cnt     \* hardware event counters

coreVars == <<imem, pc, regs, dmem, cnt>>
vars == <<coreVars, clintVars, csrVars, uartVars>>

Reg == 0 .. RegCount - 1
(* The memory map's RAM is all there: addresses beyond DEPTH_WORDS, which   *)
(* dmem.v leaves to the simulator, do not exist at this scale.             *)
DmemIndex == 0 .. (WordBase \div 4) - 1

-----------------------------------------------------------------------------
(* Instructions, one record set per format the control unit tells apart.   *)

ImmOps == {"addi", "slti", "sltiu"}
UpperOps == {"lui", "auipc"}

AluImm == [op : ImmOps, rd : Reg, rs1 : Reg, imm : Word]
AluReg == [op : AluOps \cup MulOps, rd : Reg, rs1 : Reg, rs2 : Reg]
Upper  == [op : UpperOps, rd : Reg, imm : Word]
Load   == [op : {"load"}, rd : Reg, rs1 : Reg, imm : Word, size : Sizes, signed : BOOLEAN]
Store  == [op : {"store"}, rs2 : Reg, rs1 : Reg, imm : Word, size : Sizes]
Branch == [op : BranchOps, rs1 : Reg, rs2 : Reg, imm : Word]
Jal    == [op : {"jal"}, rd : Reg, imm : Word]
Jalr   == [op : {"jalr"}, rd : Reg, rs1 : Reg, imm : Word]
CsrReg == [op : {"csr"}, f : CsrOps, csr : CsrNames, src : {"reg"}, rd : Reg, rs1 : Reg]
CsrImm == [op : {"csr"}, f : CsrOps, csr : CsrNames, src : {"imm"}, rd : Reg, imm : Word]
Priv   == [op : {"ecall", "ebreak", "mret", "wfi", "illegal"}]
Nop    == [op : {"nop"}]

Instruction == AluImm \cup AluReg \cup Upper \cup Load \cup Store \cup Branch \cup Jal
               \cup Jalr \cup CsrReg \cup CsrImm \cup Priv \cup Nop

(* CSRRS and CSRRC are modelled on the flag registers; on a word register  *)
(* a program may only read with them, the source being zero.               *)
FlagOnly(i) ==
  i.op = "csr" /\ i.f # "write" /\ i.csr \notin {"mstatus", "mie"}
    => (i.src = "reg" /\ i.rs1 = 0) \/ (i.src = "imm" /\ i.imm = 0)

ASSUME ProgramsAssumption ==
  \A p \in Programs : \A k \in DOMAIN p : p[k] \in Instruction /\ FlagOnly(p[k])

Plus(a, b) == Wrap(a + b)

(* The instruction at pc; memory past the program reads as zero, a no-op.  *)
inst == IF pc \div 4 \in DOMAIN imem THEN imem[pc \div 4] ELSE [op |-> "nop"]

(* The register file's read port: x0 reads as zero. *)
ReadReg(r) == IF r = 0 THEN 0 ELSE regs[r]

-----------------------------------------------------------------------------
(* Decode and bus. *)

mem_read_en == inst.op = "load"
mem_write_en_raw == inst.op = "store"
branch == inst.op \in BranchOps
jump == inst.op \in {"jal", "jalr"}
csr_access_en == inst.op = "csr"
is_m_op == inst.op \in MulOps
is_mret == inst.op = "mret"

effective_addr == Plus(ReadReg(inst.rs1), inst.imm)   \* loads and stores

IsUartAddr(a) == a \div 32 = UartPage
IsClintAddr(a) == a \div 32 = ClintPage
IsDmemAddr(a) == ~IsUartAddr(a) /\ ~IsClintAddr(a)

(* UART registers by the low four address bits, CLINT registers by their   *)
(* offset in the page.                                                     *)
UartReg(a) == CASE a % 16 = 0  -> "TX_DATA"
                [] a % 16 = 4  -> "TX_READY"
                [] a % 16 = 8  -> "RX_DATA"
                [] a % 16 = 12 -> "RX_STATUS"
                [] OTHER       -> "none"

ClintReg(a) == CASE a % 32 = 0  -> "msip"
                 [] a % 32 = 4  -> "mtimecmp_lo"
                 [] a % 32 = 8  -> "mtimecmp_hi"
                 [] a % 32 = 12 -> "mtime_lo"
                 [] a % 32 = 16 -> "mtime_hi"
                 [] OTHER       -> "none"

misaligned ==
  (mem_read_en \/ mem_write_en_raw) /\ effective_addr % Bytes(inst.size) # 0

-----------------------------------------------------------------------------
(* Traps. *)

(* Mutant of take_timer_interrupt: the global enable bit is not looked at. *)
take_timer_interrupt_NoMie == mie_mtie /\ mtip

take_soft_interrupt == mstatus_mie /\ mie_msie /\ msip
take_timer_interrupt == mstatus_mie /\ mie_mtie /\ mtip
take_interrupt == take_soft_interrupt \/ take_timer_interrupt

sync_exception ==
  inst.op \in {"ecall", "ebreak", "illegal"} \/ misaligned

trap_en == take_interrupt \/ sync_exception

InterruptBit == WordBase \div 2   \* the top bit of mcause

trap_cause ==
  IF take_soft_interrupt THEN InterruptBit + 3
  ELSE IF take_timer_interrupt THEN InterruptBit + 7
  ELSE IF misaligned /\ mem_read_en THEN 4
  ELSE IF misaligned THEN 6
  ELSE IF inst.op = "ecall" THEN 11
  ELSE IF inst.op = "ebreak" THEN 3
  ELSE 2

trap_tval == IF ~take_interrupt /\ misaligned THEN effective_addr ELSE 0

(* Mutant: the handler returns behind the preempted instruction. *)
trap_NextPc == [en |-> trap_en, cause |-> trap_cause, pc |-> Plus(pc, 4),
                tval |-> trap_tval]

trap == [en |-> trap_en, cause |-> trap_cause, pc |-> pc, tval |-> trap_tval]

-----------------------------------------------------------------------------
(* What the instruction reads, and where it would commit. *)

mem_read_data ==
  LET a == effective_addr
  IN CASE IsUartAddr(a) -> UartRead(UartReg(a))
       [] IsClintAddr(a) -> ClintRead(ClintReg(a))
       [] OTHER -> read_data(dmem[a \div 4], a % 4, inst.size, inst.signed)

(* A CSR instruction and its source; CSRRS and CSRRC from x0 (or a zero    *)
(* immediate) do not write.                                                *)
csr_wdata == IF inst.src = "imm" THEN inst.imm ELSE ReadReg(inst.rs1)
csr_src_zero == IF inst.src = "imm" THEN inst.imm = 0 ELSE inst.rs1 = 0
csr_write == IF csr_access_en /\ (inst.f = "write" \/ ~csr_src_zero)
             THEN [csr |-> inst.csr, op |-> inst.f, data |-> csr_wdata]
             ELSE NoCsrWrite

branch_taken == branch /\ BranchTaken(inst.op, ReadReg(inst.rs1), ReadReg(inst.rs2))

reg_write_en_raw ==
  inst.op \in ImmOps \cup AluOps \cup MulOps \cup UpperOps \cup {"load", "jal", "jalr", "csr"}

alu_op == CASE inst.op = "addi" -> "add" [] inst.op = "slti" -> "slt" [] inst.op = "sltiu" -> "sltu"
            [] OTHER -> inst.op

wb_data ==
  CASE inst.op \in ImmOps -> Alu(alu_op, ReadReg(inst.rs1), inst.imm)
    [] inst.op \in AluOps -> Alu(alu_op, ReadReg(inst.rs1), ReadReg(inst.rs2))
    [] is_m_op             -> MUnit(inst.op, ReadReg(inst.rs1), ReadReg(inst.rs2))
    [] inst.op = "lui"     -> inst.imm
    [] inst.op = "auipc"   -> Plus(pc, inst.imm)
    [] inst.op = "load"    -> mem_read_data
    [] jump                -> Plus(pc, 4)
    [] inst.op = "csr"     -> CsrRead(inst.csr, mtip, msip)

next_pc ==
  IF trap_en THEN mtvec_out
  ELSE IF is_mret THEN mepc_out
  ELSE IF inst.op = "jalr"
       THEN LET t == Plus(ReadReg(inst.rs1), inst.imm) IN t - (t % 2)
  ELSE IF inst.op = "jal" \/ branch_taken THEN Plus(pc, inst.imm)
  ELSE Plus(pc, 4)

(* Mutant of mem_write_en: a store that traps is carried out all the same. *)
mem_write_en_Ungated == mem_write_en_raw

(* Stores and register writes are gated by ~trap_en; the read strobes of   *)
(* the peripherals are not.                                                *)
reg_write_en == reg_write_en_raw /\ ~trap_en
mem_write_en == mem_write_en_raw /\ ~trap_en

clint_store ==
  IF mem_write_en /\ IsClintAddr(effective_addr)
  THEN [reg |-> ClintReg(effective_addr), data |-> ReadReg(inst.rs2) % Base]
  ELSE NoStore

uart_rx_strobe ==
  mem_read_en /\ IsUartAddr(effective_addr) /\ UartReg(effective_addr) = "RX_DATA"

uart_tx ==
  IF mem_write_en /\ IsUartAddr(effective_addr) /\ UartReg(effective_addr) = "TX_DATA"
  THEN <<ReadReg(inst.rs2) % ByteBase>> ELSE <<>>

-----------------------------------------------------------------------------
(* Performance counters. *)

CounterNames == {"mul", "branch_total", "branch_taken", "jump", "load",
                 "store", "trap", "exception", "interrupt", "wfi", "csr_access"}

(* Mutant of exception_taken: interrupts that win are not subtracted. *)
exception_taken_Sync == sync_exception

exception_taken == trap_en /\ ~take_interrupt
interrupt_taken == trap_en /\ take_interrupt

(* The counters that an edge increments: a class counts only when the      *)
(* instruction commits, a trap only as a trap.                             *)
Counted(c) ==
  CASE c = "mul"          -> is_m_op /\ ~trap_en
    [] c = "branch_total" -> branch /\ ~trap_en
    [] c = "branch_taken" -> branch /\ branch_taken /\ ~trap_en
    [] c = "jump"         -> jump /\ ~trap_en
    [] c = "load"         -> mem_read_en /\ ~trap_en
    [] c = "store"        -> mem_write_en_raw /\ ~trap_en
    [] c = "wfi"          -> inst.op = "wfi" /\ ~trap_en
    [] c = "csr_access"   -> csr_access_en /\ ~trap_en
    [] c = "trap"         -> trap_en
    [] c = "interrupt"    -> interrupt_taken
    [] c = "exception"    -> exception_taken

NoCounts == [c \in CounterNames |-> 0]

-----------------------------------------------------------------------------
(* The rising edge.  Data memory and the UART do not see the reset line:   *)
(* the instruction at pc stores, transmits and reads in a reset cycle too. *)
Clock(reset) ==
  /\ pc' = IF reset THEN 0 ELSE next_pc
  /\ regs' = IF reset THEN [r \in Reg |-> 0]
             ELSE IF reg_write_en /\ inst.rd # 0
             THEN [regs EXCEPT ![inst.rd] = wb_data]
             ELSE regs
  /\ dmem' = IF mem_write_en /\ IsDmemAddr(effective_addr)
             THEN [dmem EXCEPT ![effective_addr \div 4] =
                     new_word(@, effective_addr % 4, inst.size, ReadReg(inst.rs2))]
             ELSE dmem
  /\ cnt' = IF reset THEN NoCounts
            ELSE [c \in CounterNames |->
                    IF Counted(c) THEN (cnt[c] + 1) % CountBase ELSE cnt[c]]
  /\ CsrClock(reset, trap, is_mret, csr_write)
  /\ ClintClock(reset, clint_store)
  /\ UartClock(uart_rx_strobe, uart_tx)
  /\ UNCHANGED imem

(* One cycle of raijin_step, and one of the four of a reset. *)
Tick == Clock(FALSE)
ResetTick == Clock(TRUE)

HostWrite(b) ==
  /\ UartPush(b)
  /\ UNCHANGED <<coreVars, clintVars, csrVars>>

HostRead ==
  /\ g_tx_buf # <<>>
  /\ UartDrain(MaxBuffered)
  /\ UNCHANGED <<coreVars, clintVars, csrVars>>

(* The state the simulator's constructor leaves: loaded, and out of reset. *)
Init ==
  /\ imem \in Programs
  /\ pc = 0
  /\ regs = [r \in Reg |-> 0]
  /\ dmem = [a \in DmemIndex |-> 0]
  /\ cnt = NoCounts
  /\ CsrInit
  /\ ClintInit
  /\ UartInit

Next ==
  \/ Tick
  \/ ResetTick
  \/ HostRead
  \/ \E b \in Byte : HostWrite(b)

Spec == Init /\ [][Next]_vars

(* A running program that nobody resets, and a host that types and drains  *)
(* between two cycles.                                                     *)
RunningWithHost ==
  Init /\ [][Tick \/ HostRead \/ \E b \in Byte : HostWrite(b)]_vars

-----------------------------------------------------------------------------
CoreTypeOK ==
  /\ pc \in Word
  /\ regs \in [Reg -> Word]
  /\ dmem \in [DmemIndex -> Word]
  /\ cnt \in [CounterNames -> 0 .. CountBase - 1]

TypeOK == CoreTypeOK /\ ClintTypeOK /\ CsrTypeOK /\ UartTypeOK

(* The comment at raijin_core.v:361: cnt_trap "always equals cnt_exception *)
(* + cnt_interrupt".  Three independently gated registers have to agree    *)
(* through every mix of interrupts, exceptions and resets, also when they  *)
(* wrap around.                                                            *)
TrapCountersAgree == cnt["trap"] = (cnt["exception"] + cnt["interrupt"]) % CountBase

(* Precise traps (raijin_core.v:21-22): the instruction that a trap        *)
(* preempts or that faults leaves no trace in the registers, the data      *)
(* memory, the timer's compare register, the software interrupt or the     *)
(* transmit queue, and the saved pc is its own address, so that it can be  *)
(* executed again.                                                         *)
TrapCommitsNothing ==
  [][trap_en /\ Tick =>
       /\ UNCHANGED <<regs, dmem, mtimecmp, msip_bit, g_tx_buf>>
       /\ UNCHANGED <<mie_mtie, mie_msie, mtvec, mscratch>>
       /\ mepc' = pc]_vars

(* A handler is entered with interrupts off, and no second interrupt can   *)
(* overwrite its return address behind its back: with the enable bit off,  *)
(* mepc changes only by an exception of the handler's own or by its own    *)
(* CSR write, whatever lines are pending (raijin_core.v:161-168 against    *)
(* the trap port of csr_file.v:197-203).                                   *)
InterruptsStayOff ==
  [][~mstatus_mie /\ mepc' # mepc /\ Tick =>
       sync_exception \/ (csr_access_en /\ inst.csr = "mepc")]_vars

(* dmem.v's lanes make the data memory an array of bytes: a store of n     *)
(* bytes changes the n bytes from its address to the low ones of the       *)
(* source, and no other, and a load returns the n bytes from its address,  *)
(* below copies of their sign, or of 0.                                    *)
MemByte(a) == Lanes(dmem[a \div 4])[a % 4]
Accesses(op) == inst.op = op /\ IsDmemAddr(effective_addr) /\ ~trap_en

MemoryIsBytes ==
  [][Tick =>
       /\ Accesses("store") =>
            LET a == effective_addr
                at == a \div 4
            IN /\ dmem' = [dmem EXCEPT ![at] = dmem'[at]]
               /\ \A k \in 4 * at .. 4 * at + 3 :
                    MemByte(k)' = IF k \in a .. a + Bytes(inst.size) - 1
                                  THEN Lanes(ReadReg(inst.rs2))[k - a] ELSE MemByte(k)
       /\ Accesses("load") /\ inst.rd # 0 =>
            LET a == effective_addr
                top == MemByte(a + Bytes(inst.size) - 1)
                fill == IF inst.signed /\ top >= LaneBase \div 2 THEN LaneBase - 1 ELSE 0
            IN \A k \in 0 .. 3 :
                 Lanes(regs'[inst.rd])[k] = IF k < Bytes(inst.size) THEN MemByte(a + k) ELSE fill
       /\ ~Accesses("store") => UNCHANGED dmem]_vars

(* raijin_core.v:21-22 again, of the receive side: a byte leaves the       *)
(* UART's latch only when the load that reads it commits.                  *)
ByteTakenOnlyByCommit == [][rx_valid /\ ~rx_valid' => ~trap_en]_vars
=============================================================================
