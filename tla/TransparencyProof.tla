------------------------- MODULE TransparencyProof -------------------------
(***************************************************************************)
(* The interrupt demo never notices its interrupts: for every tick period, *)
(* every target and every word size, the core running timer_int_test.py    *)
(* implements a machine without interrupts.                                *)
(***************************************************************************)
EXTENDS MCTimerProgram, RaijinCoreProof

-----------------------------------------------------------------------------
(* The program in instruction memory, word by word.                        *)

LEMMA CodeLengths ==
  ASSUME NEW d
  PROVE  /\ Len(Main(d)) = 16 /\ DOMAIN Main(d) = 1 .. 16
         /\ Len(TrapHandler(d)) = 15 /\ DOMAIN TrapHandler(d) = 1 .. 15
BY DEF Main, TrapHandler

LEMMA Joined ==
  ASSUME NEW S, NEW s \in Seq(S), NEW t \in Seq(S)
  PROVE  /\ Len(s \o t) = Len(s) + Len(t)
         /\ \A k \in 1 .. Len(s) : (s \o t)[k] = s[k]
         /\ \A k \in 1 .. Len(t) : (s \o t)[Len(s) + k] = t[k]
OBVIOUS

LEMMA CodeIsSeq ==
  ASSUME NEW d
  PROVE  \E S : Main(d) \in Seq(S) /\ TrapHandler(d) \in Seq(S)
<1> DEFINE S == {Main(d)[k] : k \in 1 .. 16} \cup {TrapHandler(d)[k] : k \in 1 .. 15}
<1>1. Main(d) = [k \in 1 .. 16 |-> Main(d)[k]]
  BY DEF Main
<1>2. TrapHandler(d) = [k \in 1 .. 15 |-> TrapHandler(d)[k]]
  BY DEF TrapHandler
<1>3. Main(d) \in [1 .. 16 -> S]
  BY <1>1
<1>4. TrapHandler(d) \in [1 .. 15 -> S]
  BY <1>2
<1> HIDE DEF S
<1>5. \A f, n : n \in Nat /\ f \in [1 .. n -> S] => f \in Seq(S)
  OBVIOUS
<1>6. Main(d) \in Seq(S) /\ TrapHandler(d) \in Seq(S)
  BY <1>3, <1>4, <1>5
<1> QED BY <1>6

(* What the core fetches while it runs the demo. *)
LEMMA Code ==
  ASSUME NEW d, imem = TimerProgram(d)
  PROVE  /\ DOMAIN imem = 0 .. 30
         /\ \A k \in 0 .. 15 : imem[k] = Main(d)[k + 1]
         /\ \A k \in 16 .. 30 : imem[k] = TrapHandler(d)[k - 15]
<1> DEFINE s == Main(d)
           t == TrapHandler(d)
<1>1. PICK S : s \in Seq(S) /\ t \in Seq(S)
  BY CodeIsSeq
<1>2. Len(s) = 16 /\ Len(t) = 15
  BY CodeLengths
<1>3. imem = [k \in 0 .. Len(s \o t) - 1 |-> (s \o t)[k + 1]]
  BY DEF TimerProgram
<1> HIDE DEF s, t
<1>4. /\ Len(s \o t) = 16 + Len(t)
      /\ \A k \in 1 .. 16 : (s \o t)[k] = s[k]
      /\ \A k \in 1 .. Len(t) : (s \o t)[16 + k] = t[k]
  <2>1. /\ Len(s \o t) = Len(s) + Len(t)
        /\ \A k \in 1 .. Len(s) : (s \o t)[k] = s[k]
        /\ \A k \in 1 .. Len(t) : (s \o t)[Len(s) + k] = t[k]
    BY <1>1, Joined
  <2> QED BY <1>2, <2>1
<1>5. Len(s \o t) - 1 = 30
  BY <1>2, <1>4
<1>6. DOMAIN imem = 0 .. 30 /\ \A k \in 0 .. 30 : imem[k] = (s \o t)[k + 1]
  BY <1>3, <1>5
<1>7. ASSUME NEW k \in 0 .. 15 PROVE imem[k] = s[k + 1]
  <2>1. k + 1 \in 1 .. 16 /\ k \in 0 .. 30
    OBVIOUS
  <2> QED BY <1>4, <1>6, <2>1
<1>8. ASSUME NEW k \in 16 .. 30 PROVE imem[k] = t[k - 15]
  <2>1. k - 15 \in 1 .. 15 /\ 16 + (k - 15) = k + 1 /\ k \in 0 .. 30
    OBVIOUS
  <2> QED BY <1>2, <1>4, <1>6, <2>1
<1> QED BY <1>6, <1>7, <1>8 DEF s, t

LEMMA MainCode ==
  ASSUME NEW d
  PROVE  /\ Main(d)[1] = LI(1, Handler)      /\ Main(d)[2] = CSRRW("mtvec", 1)
         /\ Main(d)[3] = LI(2, d)            /\ Main(d)[4] = LI(3, CLINT)
         /\ Main(d)[5] = SW(2, 3, 4)         /\ Main(d)[6] = SW(0, 3, 8)
         /\ Main(d)[7] = LI(1, 2)            /\ Main(d)[8] = CSRRW("mie", 1)
         /\ Main(d)[9] = LI(1, 1)            /\ Main(d)[10] = CSRRS("mstatus", 1)
         /\ Main(d)[11] = ADDI(4, 4, 1)      /\ Main(d)[12] = SW(4, 0, DATA_LOOP_COUNT)
         /\ Main(d)[13] = LW(5, 0, DATA_TOHOST) /\ Main(d)[14] = BNE(5, 0, 8)
         /\ Main(d)[15] = JAL(WordBase - 16) /\ Main(d)[16] = JAL(0)
BY DEF Main

LEMMA HandlerCode ==
  ASSUME NEW d
  PROVE  /\ TrapHandler(d)[1] = LW(6, 0, DATA_INTR_COUNT)
         /\ TrapHandler(d)[2] = ADDI(6, 6, 1)
         /\ TrapHandler(d)[3] = SW(6, 0, DATA_INTR_COUNT)
         /\ TrapHandler(d)[4] = LW(7, 0, CLINT + 4)
         /\ TrapHandler(d)[5] = ADDI(7, 7, d)
         /\ TrapHandler(d)[6] = SW(7, 0, CLINT + 4)
         /\ TrapHandler(d)[7] = LI(8, TargetTicks)
         /\ TrapHandler(d)[8] = BGE(6, 8, 8)
         /\ TrapHandler(d)[9] = MRET
         /\ TrapHandler(d)[10] = LI(9, 1)
         /\ TrapHandler(d)[11] = SW(9, 0, DATA_TOHOST)
         /\ TrapHandler(d)[12] = LI(10, 255)
         /\ TrapHandler(d)[13] = SW(10, 0, CLINT + 4)
         /\ TrapHandler(d)[14] = SW(10, 0, CLINT + 8)
         /\ TrapHandler(d)[15] = MRET
BY DEF TrapHandler

-----------------------------------------------------------------------------
(* What one cycle does, by the instruction it commits.                     *)

controlVars == <<mstatus_mie, mtvec, mepc>>

LEMMA CommitStep ==
  ASSUME Tick, ~trap_en
  PROVE  /\ imem' = imem
         /\ pc' = next_pc
         /\ regs' = IF reg_write_en_raw /\ inst.rd # 0
                    THEN [regs EXCEPT ![inst.rd] = wb_data] ELSE regs
         /\ ~mem_write_en_raw => dmem' = dmem
         /\ ~is_mret => CsrSoftware(csr_write)
         /\ is_mret => CsrMret
<1>1. Clock(FALSE)
  BY DEF Tick
<1>2. reg_write_en = reg_write_en_raw /\ mem_write_en = mem_write_en_raw
  BY DEF reg_write_en, mem_write_en, reg_write_en_raw, mem_write_en_raw
<1>3. imem' = imem /\ pc' = next_pc
  BY <1>1 DEF Clock
<1>4. regs' = IF reg_write_en_raw /\ inst.rd # 0
              THEN [regs EXCEPT ![inst.rd] = wb_data] ELSE regs
  BY <1>1, <1>2 DEF Clock
<1>5. ~mem_write_en_raw => dmem' = dmem
  BY <1>1, <1>2 DEF Clock
<1>6. CsrClock(FALSE, trap, is_mret, csr_write) /\ ~trap.en
  BY <1>1 DEF Clock, trap
<1>7. (~is_mret => CsrSoftware(csr_write)) /\ (is_mret => CsrMret)
  BY <1>6 DEF CsrClock
<1> QED BY <1>3, <1>4, <1>5, <1>7

LEMMA NoCsrStep ==
  ASSUME Tick, ~trap_en, ~is_mret, ~csr_access_en
  PROVE  UNCHANGED controlVars
<1>1. CsrSoftware(NoCsrWrite)
  BY CommitStep DEF csr_write
<1> QED BY <1>1 DEF CsrSoftware, NoCsrWrite, controlVars

LEMMA AddiStep ==
  ASSUME Tick, ~trap_en, inst.op = "addi"
  PROVE  /\ imem' = imem
         /\ pc' = Plus(pc, 4)
         /\ regs' = IF inst.rd # 0
                    THEN [regs EXCEPT ![inst.rd] = Plus(ReadReg(inst.rs1), inst.imm)]
                    ELSE regs
         /\ UNCHANGED <<dmem, controlVars>>
<1>1. ~is_mret /\ ~csr_access_en /\ ~mem_write_en_raw /\ reg_write_en_raw
  BY DEF is_mret, csr_access_en, mem_write_en_raw, reg_write_en_raw, ImmOps
<1>2. next_pc = Plus(pc, 4)
  BY DEF next_pc, is_mret, branch_taken, branch, BranchOps
<1>3. wb_data = Plus(ReadReg(inst.rs1), inst.imm)
  <2>1. alu_op = "add"
    BY DEF alu_op
  <2>2. wb_data = Alu(alu_op, ReadReg(inst.rs1), inst.imm)
    BY DEF wb_data, ImmOps, AluOps, MulOps, is_m_op, jump
  <2> QED BY <2>1, <2>2 DEF Alu, Plus
<1> QED BY <1>1, <1>2, <1>3, CommitStep, NoCsrStep

LEMMA LoadStep ==
  ASSUME Tick, ~trap_en, inst.op = "load"
  PROVE  /\ imem' = imem
         /\ pc' = Plus(pc, 4)
         /\ regs' = IF inst.rd # 0 THEN [regs EXCEPT ![inst.rd] = mem_read_data]
                    ELSE regs
         /\ UNCHANGED <<dmem, controlVars>>
<1>1. ~is_mret /\ ~csr_access_en /\ ~mem_write_en_raw /\ reg_write_en_raw
  BY DEF is_mret, csr_access_en, mem_write_en_raw, reg_write_en_raw
<1>2. next_pc = Plus(pc, 4)
  BY DEF next_pc, is_mret, branch_taken, branch, BranchOps
<1>3. wb_data = mem_read_data
  BY DEF wb_data, ImmOps, AluOps, MulOps, is_m_op, jump
<1> QED BY <1>1, <1>2, <1>3, CommitStep, NoCsrStep

LEMMA StoreStep ==
  ASSUME Tick, ~trap_en, inst.op = "store", inst.size = "word"
  PROVE  /\ imem' = imem
         /\ pc' = Plus(pc, 4)
         /\ dmem' = IF IsDmemAddr(effective_addr)
                    THEN [dmem EXCEPT ![effective_addr \div 4] = ReadReg(inst.rs2)]
                    ELSE dmem
         /\ UNCHANGED <<regs, controlVars>>
<1>1. ~is_mret /\ ~csr_access_en /\ mem_write_en /\ ~reg_write_en_raw
  BY DEF is_mret, csr_access_en, mem_write_en, mem_write_en_raw, reg_write_en_raw,
         ImmOps, AluOps, MulOps, UpperOps
<1>2. next_pc = Plus(pc, 4)
  BY DEF next_pc, is_mret, branch_taken, branch, BranchOps
<1>3. dmem' = IF IsDmemAddr(effective_addr)
              THEN [dmem EXCEPT ![effective_addr \div 4] = ReadReg(inst.rs2)]
              ELSE dmem
  <2>1. new_word(dmem[effective_addr \div 4], effective_addr % 4, inst.size,
                 ReadReg(inst.rs2)) = ReadReg(inst.rs2)
    BY DEF new_word
  <2>2. dmem' = IF mem_write_en /\ IsDmemAddr(effective_addr)
                THEN [dmem EXCEPT ![effective_addr \div 4] =
                        new_word(dmem[effective_addr \div 4], effective_addr % 4,
                                 inst.size, ReadReg(inst.rs2))]
                ELSE dmem
    BY DEF Tick, Clock
  <2> QED BY <1>1, <2>1, <2>2
<1> QED BY <1>1, <1>2, <1>3, CommitStep, NoCsrStep

LEMMA BranchStep ==
  ASSUME Tick, ~trap_en, inst.op \in BranchOps
  PROVE  /\ imem' = imem
         /\ pc' = IF BranchTaken(inst.op, ReadReg(inst.rs1), ReadReg(inst.rs2))
                  THEN Plus(pc, inst.imm) ELSE Plus(pc, 4)
         /\ UNCHANGED <<regs, dmem, controlVars>>
<1>1. ~is_mret /\ ~csr_access_en /\ ~mem_write_en_raw /\ ~reg_write_en_raw
  BY DEF is_mret, csr_access_en, mem_write_en_raw, reg_write_en_raw, BranchOps,
         ImmOps, AluOps, MulOps, UpperOps
<1>2. next_pc = IF BranchTaken(inst.op, ReadReg(inst.rs1), ReadReg(inst.rs2))
                THEN Plus(pc, inst.imm) ELSE Plus(pc, 4)
  BY <1>1 DEF next_pc, branch_taken, branch, BranchOps
<1> QED BY <1>1, <1>2, CommitStep, NoCsrStep

LEMMA JumpStep ==
  ASSUME Tick, ~trap_en, inst.op = "jal", inst.rd = 0
  PROVE  /\ imem' = imem
         /\ pc' = Plus(pc, inst.imm)
         /\ UNCHANGED <<regs, dmem, controlVars>>
<1>1. ~is_mret /\ ~csr_access_en /\ ~mem_write_en_raw
  BY DEF is_mret, csr_access_en, mem_write_en_raw
<1>2. next_pc = Plus(pc, inst.imm)
  BY <1>1 DEF next_pc
<1> QED BY <1>1, <1>2, CommitStep, NoCsrStep

(* A CSR instruction that reads nothing, and does not write mepc.          *)
LEMMA CsrStep ==
  ASSUME Tick, ~trap_en, inst.op = "csr", inst.rd = 0, inst.csr \in CsrNames \ {"mepc"}
  PROVE  /\ imem' = imem
         /\ pc' = Plus(pc, 4)
         /\ inst.csr # "mstatus" => UNCHANGED mstatus_mie
         /\ inst.csr # "mtvec" => UNCHANGED mtvec
         /\ inst.csr = "mtvec" /\ inst.f = "write" => mtvec' = csr_wdata
         /\ UNCHANGED <<regs, dmem, mepc>>
<1>1. ~is_mret /\ ~mem_write_en_raw
  BY DEF is_mret, mem_write_en_raw
<1>2. next_pc = Plus(pc, 4)
  BY DEF next_pc, is_mret, branch_taken, branch, BranchOps
<1>3. CsrSoftware(csr_write)
  BY <1>1, CommitStep
<1>4. CASE csr_write = NoCsrWrite
  <2>1. UNCHANGED controlVars
    BY <1>3, <1>4 DEF CsrSoftware, NoCsrWrite, controlVars
  <2>2. inst.f # "write"
    BY <1>4 DEF csr_write, NoCsrWrite, csr_access_en, CsrNames
  <2> QED BY <1>1, <1>2, <2>1, <2>2, CommitStep DEF controlVars
<1>5. CASE csr_write = [csr |-> inst.csr, op |-> inst.f, data |-> csr_wdata]
  <2>1. /\ inst.csr # "mstatus" => UNCHANGED mstatus_mie
        /\ inst.csr # "mtvec" => UNCHANGED mtvec
        /\ inst.csr = "mtvec" => mtvec' = csr_wdata
        /\ UNCHANGED mepc
    BY <1>3, <1>5 DEF CsrSoftware
  <2> QED BY <1>1, <1>2, <2>1, CommitStep
<1> QED BY <1>4, <1>5 DEF csr_write

LEMMA MretStep ==
  ASSUME Tick, ~trap_en, inst.op = "mret"
  PROVE  /\ imem' = imem
         /\ pc' = mepc - (mepc % 2)
         /\ UNCHANGED <<regs, dmem, mtvec, mepc>>
<1>1. is_mret /\ ~mem_write_en_raw /\ ~reg_write_en_raw
  BY DEF is_mret, mem_write_en_raw, reg_write_en_raw, ImmOps, AluOps, MulOps, UpperOps
<1>2. next_pc = mepc - (mepc % 2)
  BY <1>1 DEF next_pc, mepc_out
<1> QED BY <1>1, <1>2, CommitStep DEF CsrMret

LEMMA TrapStep ==
  ASSUME Tick, trap_en
  PROVE  /\ imem' = imem
         /\ pc' = mtvec - (mtvec % 4)
         /\ mepc' = pc /\ ~mstatus_mie'
         /\ UNCHANGED <<regs, dmem, mtvec>>
<1>1. ~reg_write_en /\ ~mem_write_en
  BY DEF reg_write_en, mem_write_en
<1>2. regs' = regs /\ dmem' = dmem /\ imem' = imem
  BY <1>1 DEF Tick, Clock
<1>3. pc' = mtvec - (mtvec % 4)
  BY DEF Tick, Clock, next_pc, mtvec_out
<1>4. CsrTrap(trap)
  BY DEF Tick, Clock, CsrClock, trap
<1> QED BY <1>2, <1>3, <1>4 DEF CsrTrap, trap

-----------------------------------------------------------------------------
(* Where main and the handler are, and what they are about to execute.     *)

MainPlaces == {0, 4, 8, 12, 16, 20, 24, 28, 32, 36, 40, 44, 48, 52, 56, 60}
HandlerPlaces == {64, 68, 72, 76, 80, 84, 88, 92, 96, 100, 104, 108, 112, 116, 120}
LoopPlaces == {40, 44, 48, 52, 56, 60}   \* main, with interrupts on

LEMMA MainFetch ==
  ASSUME imem \in Programs
  PROVE  /\ pc = 0  => inst = LI(1, Handler)
         /\ pc = 4  => inst = CSRRW("mtvec", 1)
         /\ pc = 8  => \E d \in Word : inst = LI(2, d)
         /\ pc = 12 => inst = LI(3, CLINT)
         /\ pc = 16 => inst = SW(2, 3, 4)
         /\ pc = 20 => inst = SW(0, 3, 8)
         /\ pc = 24 => inst = LI(1, 2)
         /\ pc = 28 => inst = CSRRW("mie", 1)
         /\ pc = 32 => inst = LI(1, 1)
         /\ pc = 36 => inst = CSRRS("mstatus", 1)
         /\ pc = 40 => inst = ADDI(4, 4, 1)
         /\ pc = 44 => inst = SW(4, 0, DATA_LOOP_COUNT)
         /\ pc = 48 => inst = LW(5, 0, DATA_TOHOST)
         /\ pc = 52 => inst = BNE(5, 0, 8)
         /\ pc = 56 => inst = JAL(WordBase - 16)
         /\ pc = 60 => inst = JAL(0)
         /\ pc \in MainPlaces => pc \div 4 \in DOMAIN imem
<1>1. PICK d \in Deltas : imem = TimerProgram(d)
  BY TimerProgramAssumption DEF TimerPrograms
<1>2. d \in Word
  BY TimerProgramAssumption
<1>3. DOMAIN imem = 0 .. 30 /\ \A k \in 0 .. 15 : imem[k] = Main(d)[k + 1]
  BY <1>1, Code
<1>4. ASSUME NEW k \in 0 .. 15, pc = 4 * k
      PROVE  inst = Main(d)[k + 1] /\ pc \div 4 \in DOMAIN imem
  <2>1. pc \div 4 = k
    BY <1>4
  <2> QED BY <1>3, <2>1 DEF inst
<1> QED BY <1>2, <1>4, MainCode DEF MainPlaces

LEMMA HandlerFetch ==
  ASSUME imem \in Programs
  PROVE  /\ pc = 64 => inst = LW(6, 0, DATA_INTR_COUNT)
         /\ pc = 68 => inst = ADDI(6, 6, 1)
         /\ pc = 72 => inst = SW(6, 0, DATA_INTR_COUNT)
         /\ pc = 76 => inst = LW(7, 0, CLINT + 4)
         /\ pc = 80 => \E d \in Word : inst = ADDI(7, 7, d)
         /\ pc = 84 => inst = SW(7, 0, CLINT + 4)
         /\ pc = 88 => inst = LI(8, TargetTicks)
         /\ pc = 92 => inst = BGE(6, 8, 8)
         /\ pc = 96 => inst = MRET
         /\ pc = 100 => inst = LI(9, 1)
         /\ pc = 104 => inst = SW(9, 0, DATA_TOHOST)
         /\ pc = 108 => inst = LI(10, 255)
         /\ pc = 112 => inst = SW(10, 0, CLINT + 4)
         /\ pc = 116 => inst = SW(10, 0, CLINT + 8)
         /\ pc = 120 => inst = MRET
<1>1. PICK d \in Deltas : imem = TimerProgram(d)
  BY TimerProgramAssumption DEF TimerPrograms
<1>2. d \in Word
  BY TimerProgramAssumption
<1>3. DOMAIN imem = 0 .. 30 /\ \A k \in 16 .. 30 : imem[k] = TrapHandler(d)[k - 15]
  BY <1>1, Code
<1>4. ASSUME NEW k \in 16 .. 30, pc = 4 * k
      PROVE  inst = TrapHandler(d)[k - 15]
  <2>1. pc \div 4 = k
    BY <1>4
  <2> QED BY <1>3, <2>1 DEF inst
<1> QED BY <1>2, <1>4, HandlerCode

-----------------------------------------------------------------------------
(* The inductive invariant: interrupts are off until main has pointed      *)
(* mtvec at the handler, main knows the timer's address when it stores to  *)
(* it, and the handler runs with interrupts off and returns into the loop. *)

Placed == pc \in MainPlaces \cup HandlerPlaces
OffUntilReady == pc \in MainPlaces \ LoopPlaces => ~mstatus_mie
VectorSet == (pc = 4 => regs[1] = Handler) /\ (pc \notin {0, 4} => mtvec = Handler)
TimerKnown == pc \in {16, 20} => regs[3] = CLINT
HandlerReturns == pc \in HandlerPlaces => ~mstatus_mie /\ mepc \in LoopPlaces

HandlerReady == Placed /\ OffUntilReady /\ VectorSet /\ TimerKnown /\ HandlerReturns
DemoInv == IInv /\ HandlerReady

LEMMA SmallSum ==
  ASSUME NEW a \in Nat, NEW b \in Nat, a + b < 256
  PROVE  Plus(a, b) = a + b
<1>1. a + b \in 0 .. WordBase - 1 /\ WordBase \in Nat \ {0}
  BY TimerProgramAssumption, WordBaseAssumption
<1> DEFINE m == a + b
<1> HIDE DEF m
<1>2. m \in 0 .. WordBase - 1 => m % WordBase = m
  BY <1>1, RemainderSmall
<1> QED BY <1>1, <1>2 DEF m, Plus, Wrap

LEMMA Addresses ==
  ASSUME DemoInv
  PROVE  /\ pc \in {48, 104} => effective_addr = 0
         /\ pc \in {64, 72} => effective_addr = 4
         /\ pc = 44 => effective_addr = 8
         /\ pc \in {16, 76, 84, 112} => effective_addr = 68
         /\ pc \in {20, 116} => effective_addr = 72
<1>1. imem \in Programs /\ (pc \in {16, 20} => regs[3] = 64)
  BY DEF DemoInv, IInv, HandlerReady, TimerKnown, CLINT
<1>2. \A a \in {0, 4, 8, 64, 68, 72}, b \in {0, 4, 8} :
        /\ a + b < 256 => Plus(a, b) = a + b
        /\ Plus(0, a) = a
  BY SmallSum
<1> QED BY <1>1, <1>2, MainFetch, HandlerFetch
    DEF effective_addr, LW, SW, ReadReg, CLINT, DATA_TOHOST, DATA_INTR_COUNT, DATA_LOOP_COUNT

LEMMA AddressMap ==
  /\ \A a \in {0, 4, 8} : IsDmemAddr(a)
  /\ \A a \in {68, 72} : ~IsDmemAddr(a)
BY TimerProgramAssumption DEF IsDmemAddr, IsUartAddr, IsClintAddr

(* The demo makes no exceptions: its only traps are interrupts.            *)
LEMMA NoFault ==
  ASSUME DemoInv
  PROVE  ~sync_exception
<1>1. imem \in Programs /\ pc \in MainPlaces \cup HandlerPlaces
  BY DEF DemoInv, IInv, HandlerReady, Placed
<1>2. inst.op \in {"addi", "csr", "store", "load", "bne", "bge", "jal", "mret"}
  BY <1>1, MainFetch, HandlerFetch
     DEF MainPlaces, HandlerPlaces, LI, ADDI, CSRRW, CSRRS, SW, LW, BNE, BGE, JAL, MRET
<1>3. ASSUME mem_read_en \/ mem_write_en_raw PROVE ~misaligned
  <2>1. pc \in {16, 20, 44, 48, 64, 72, 76, 84, 104, 112, 116} /\ inst.size = "word"
    BY <1>1, <1>3, MainFetch, HandlerFetch
       DEF MainPlaces, HandlerPlaces, LI, ADDI, CSRRW, CSRRS, SW, LW, BNE, BGE, JAL, MRET,
           mem_read_en, mem_write_en_raw
  <2>2. effective_addr \in {0, 4, 8, 68, 72}
    BY <2>1, Addresses
  <2> QED BY <2>1, <2>2 DEF misaligned, Bytes
<1> QED BY <1>2, <1>3 DEF sync_exception, misaligned

-----------------------------------------------------------------------------
(* What the main program sees of the machine.                              *)

OwnPc == IF InHandler THEN mepc ELSE pc
OwnRegs == [r \in 1 .. 5 |-> regs[r]]
OwnMem == [a \in {DATA_LOOP_COUNT \div 4} |-> dmem[a]]
ownVars == <<imem, OwnPc, OwnRegs, OwnMem>>

LEMMA Regions ==
  /\ \A p \in MainPlaces : p \in Nat /\ p < Handler /\ p \notin HandlerPlaces
  /\ \A p \in HandlerPlaces : p \in Nat /\ p >= Handler /\ p \notin MainPlaces
  /\ LoopPlaces \subseteq MainPlaces
  /\ DATA_LOOP_COUNT \div 4 = 2 /\ Handler = 64
BY DEF MainPlaces, HandlerPlaces, LoopPlaces, Handler, DATA_LOOP_COUNT

(* An interrupt only ever cuts into the loop, and hides nothing of it.     *)
LEMMA InterruptIsHidden ==
  ASSUME DemoInv, Tick, trap_en
  PROVE  HandlerReady' /\ UNCHANGED ownVars
<1>1. mstatus_mie
  BY NoFault DEF trap_en, take_interrupt, take_soft_interrupt, take_timer_interrupt
<1>2. pc \in LoopPlaces /\ mtvec = 64
  BY <1>1, Regions DEF DemoInv, HandlerReady, Placed, OffUntilReady, HandlerReturns, VectorSet, LoopPlaces
<1>3. pc' = 64 /\ mepc' = pc /\ ~mstatus_mie' /\ UNCHANGED <<imem, regs, dmem, mtvec>>
  BY <1>2, TrapStep
<1>4. HandlerReady'
  BY <1>2, <1>3, Regions DEF HandlerReady, Placed, OffUntilReady, VectorSet, TimerKnown,
     HandlerReturns, MainPlaces, HandlerPlaces
<1>5. OwnPc' = OwnPc
  BY <1>2, <1>3, Regions DEF OwnPc, InHandler
<1> QED BY <1>3, <1>4, <1>5 DEF ownVars, OwnRegs, OwnMem

(* The handler's own instructions touch nothing of main's, and its last    *)
(* one takes main up where it was.                                         *)
HandlerOps(i) ==
  \/ i.op = "addi" /\ i.rd \in 6 .. 10
  \/ i.op = "load" /\ i.rd \in 6 .. 10
  \/ i.op = "store" /\ i.size = "word"
  \/ i.op = "bge" /\ i.imm = 8

LEMMA HandlerInsts ==
  ASSUME DemoInv, pc \in HandlerPlaces
  PROVE  IF pc \in {96, 120} THEN inst.op = "mret"
         ELSE /\ HandlerOps(inst)
              /\ inst.op = "bge" => pc = 92
              /\ inst.op = "store" => effective_addr \div 4 # 2
<1>1. imem \in Programs
  BY DEF DemoInv, IInv
<1>2. IF pc \in {96, 120} THEN inst.op = "mret"
      ELSE /\ HandlerOps(inst)
           /\ inst.op = "bge" => pc = 92
           /\ inst.op = "store" => pc \in {72, 84, 104, 112, 116}
  BY <1>1, HandlerFetch
     DEF HandlerPlaces, HandlerOps, LI, ADDI, SW, LW, BGE, MRET
<1>3. pc \in {72, 84, 104, 112, 116} => effective_addr \in {0, 4, 68, 72}
  BY Addresses
<1>4. \A a \in {0, 4, 68, 72} : a \div 4 # 2
  OBVIOUS
<1> QED BY <1>2, <1>3, <1>4

LEMMA HandlerIsHidden ==
  ASSUME DemoInv, Tick, ~trap_en, pc \in HandlerPlaces
  PROVE  HandlerReady' /\ UNCHANGED ownVars
<1>1. ~mstatus_mie /\ mepc \in LoopPlaces /\ mtvec = Handler
  BY Regions DEF DemoInv, HandlerReady, HandlerReturns, VectorSet, HandlerPlaces
<1>2. regs \in [Reg -> Word] /\ 1 .. 10 \subseteq Reg
  BY TimerProgramAssumption, CoreAssumption DEF DemoInv, IInv, TypeOK, CoreTypeOK, Reg
<1>3. CASE pc \in {96, 120}
  <2>1. UNCHANGED <<imem, regs, dmem, mtvec, mepc>> /\ pc' = mepc - (mepc % 2)
    BY <1>3, HandlerInsts, MretStep
  <2>2. pc' = mepc
    BY <1>1, <2>1 DEF LoopPlaces
  <2>3. HandlerReady'
    BY <1>1, <2>1, <2>2, Regions DEF HandlerReady, Placed, OffUntilReady, VectorSet, TimerKnown,
       HandlerReturns, LoopPlaces
  <2>4. OwnPc' = OwnPc
    BY <1>1, <2>2, Regions DEF OwnPc, InHandler
  <2> QED BY <2>1, <2>3, <2>4 DEF ownVars, OwnRegs, OwnMem
<1>4. CASE pc \notin {96, 120}
  <2> DEFINE Quiet == /\ imem' = imem /\ UNCHANGED controlVars
                      /\ \A r \in 1 .. 5 : regs'[r] = regs[r]
                      /\ dmem'[2] = dmem[2]
  <2>1. HandlerOps(inst) /\ (inst.op = "bge" => pc = 92)
    BY <1>4, HandlerInsts
  <2>2. pc' = Plus(pc, 4) \/ (pc = 92 /\ pc' = Plus(pc, 8))
    BY <2>1, AddiStep, LoadStep, StoreStep, BranchStep DEF HandlerOps, BranchOps
  <2>3. Plus(pc, 4) = pc + 4 /\ Plus(92, 8) = 100
    BY SmallSum DEF HandlerPlaces
  <2>4. pc' \in HandlerPlaces
    BY <1>4, <2>2, <2>3 DEF HandlerPlaces
  <2>5. ASSUME inst.op \in {"addi", "load"} PROVE Quiet
    <3>1. inst.rd \in 6 .. 10
      BY <2>1, <2>5 DEF HandlerOps
    <3> QED BY <1>2, <2>5, <3>1, AddiStep, LoadStep DEF controlVars
  <2>6. ASSUME inst.op = "store" PROVE Quiet
    <3>1. inst.size = "word" /\ effective_addr \div 4 # 2
      BY <1>4, <2>1, <2>6, HandlerInsts DEF HandlerOps
    <3>2. dmem \in [DmemIndex -> Word] /\ 2 \in DmemIndex
      BY TimerProgramAssumption, WordBaseAssumption
         DEF DemoInv, IInv, TypeOK, CoreTypeOK, DmemIndex
    <3> QED BY <2>6, <3>1, <3>2, StoreStep DEF controlVars
  <2>7. ASSUME inst.op = "bge" PROVE Quiet
    BY <2>7, BranchStep DEF BranchOps
  <2>8. Quiet
    BY <2>1, <2>5, <2>6, <2>7 DEF HandlerOps
  <2>9. HandlerReady'
    BY <1>1, <2>4, <2>8, Regions DEF HandlerReady, Placed, OffUntilReady, VectorSet, TimerKnown,
       HandlerReturns, controlVars, HandlerPlaces
  <2>10. OwnPc' = OwnPc
    BY <2>4, <2>8, Regions DEF OwnPc, InHandler, controlVars
  <2> QED BY <2>8, <2>9, <2>10, Regions DEF ownVars, OwnRegs, OwnMem
<1> QED BY <1>3, <1>4

(* In main, the machine without interrupts is about to execute the same    *)
(* instruction on the same operands.                                       *)
LEMMA SameInstruction ==
  ASSUME DemoInv, pc \in MainPlaces
  PROVE  /\ Unpreempted!i = inst /\ OwnPc = pc
         /\ \A r \in 0 .. 5 : Unpreempted!Get(r) = ReadReg(r)
         /\ \A a, b : Unpreempted!Plus(a, b) = Plus(a, b)
<1>1. OwnPc = pc
  BY Regions DEF OwnPc, InHandler
<1>2. pc \div 4 \in DOMAIN imem
  BY MainFetch DEF DemoInv, IInv
<1>3. Unpreempted!i = inst
  BY <1>1, <1>2 DEF Unpreempted!i, OwnPc, inst
<1>4. \A r \in 0 .. 5 : Unpreempted!Get(r) = ReadReg(r)
  BY DEF Unpreempted!Get, ReadReg
<1>5. \A a, b : Unpreempted!Plus(a, b) = Plus(a, b)
  BY DEF Unpreempted!Plus, Plus, Wrap
<1> QED BY <1>1, <1>3, <1>4, <1>5

(* A write to one of main's registers is a write to its own view of them.  *)
LEMMA OwnRegWrite ==
  ASSUME DemoInv, NEW r \in 1 .. 5, NEW v,
         regs' = [regs EXCEPT ![r] = v]
  PROVE  OwnRegs' = [OwnRegs EXCEPT ![r] = v]
<1>1. regs \in [Reg -> Word] /\ 1 .. 5 \subseteq Reg
  BY TimerProgramAssumption, CoreAssumption DEF DemoInv, IInv, TypeOK, CoreTypeOK, Reg
<1>2. \A q \in 1 .. 5 : regs'[q] = IF q = r THEN v ELSE regs[q]
  BY <1>1
<1> QED BY <1>2 DEF OwnRegs

(* Where main goes next, seen by itself.                                   *)
LEMMA MainMoves ==
  ASSUME DemoInv, pc' \in MainPlaces
  PROVE  OwnPc' = pc'
BY Regions DEF OwnPc, InHandler

LEMMA MainAddi ==
  ASSUME DemoInv, Tick, ~trap_en, pc \in {0, 8, 12, 24, 32, 40}
  PROVE  HandlerReady' /\ imem' = imem /\ Unpreempted!Arith
<1>1. imem \in Programs /\ pc \in MainPlaces
  BY DEF DemoInv, IInv, MainPlaces
<1>2. inst.op = "addi" /\ inst.rd \in 1 .. 5 /\ inst.rs1 \in 0 .. 5
  BY <1>1, MainFetch DEF LI, ADDI
<1>3. /\ imem' = imem /\ pc' = Plus(pc, 4) /\ UNCHANGED <<dmem, controlVars>>
      /\ regs' = [regs EXCEPT ![inst.rd] = Plus(ReadReg(inst.rs1), inst.imm)]
  BY <1>2, AddiStep
<1>4. pc' = pc + 4
  BY <1>3, SmallSum
<1>5. pc' \in MainPlaces
  BY <1>4 DEF MainPlaces
<1>6. regs \in [Reg -> Word] /\ 1 .. 5 \subseteq Reg
  BY TimerProgramAssumption, CoreAssumption DEF DemoInv, IInv, TypeOK, CoreTypeOK, Reg
<1>7. pc = 0 => regs'[1] = Handler
  BY <1>1, <1>3, <1>6, MainFetch, SmallSum DEF LI, ReadReg, Handler
<1>8. pc = 12 => regs'[3] = CLINT
  BY <1>1, <1>3, <1>6, MainFetch, SmallSum DEF LI, ReadReg, CLINT
<1>9. HandlerReady'
  BY <1>3, <1>4, <1>5, <1>7, <1>8, Regions
     DEF DemoInv, HandlerReady, Placed, OffUntilReady, VectorSet, TimerKnown, HandlerReturns,
         controlVars, MainPlaces, LoopPlaces
<1>10. Unpreempted!Arith
  <2>1. OwnRegs' = [OwnRegs EXCEPT ![inst.rd] = Plus(ReadReg(inst.rs1), inst.imm)]
    BY <1>2, <1>3, OwnRegWrite
  <2>2. OwnPc' = Plus(OwnPc, 4) /\ OwnMem' = OwnMem
    BY <1>1, <1>3, <1>5, MainMoves, SameInstruction DEF OwnMem
  <2>3. /\ Unpreempted!i = inst /\ inst.rd # 0
        /\ Unpreempted!Plus(Unpreempted!Get(inst.rs1), inst.imm)
             = Plus(ReadReg(inst.rs1), inst.imm)
        /\ Unpreempted!Plus(OwnPc, 4) = Plus(OwnPc, 4)
    BY <1>1, <1>2, SameInstruction
  <2>4. /\ Unpreempted!Set(Unpreempted!i.rd,
              Unpreempted!Plus(Unpreempted!Get(Unpreempted!i.rs1), Unpreempted!i.imm))
        /\ Unpreempted!Advance
    BY <2>1, <2>2, <2>3 DEF Unpreempted!Set, Unpreempted!Advance, Unpreempted!Goto, OwnPc, OwnRegs
  <2> QED BY <1>2, <2>2, <2>3, <2>4 DEF Unpreempted!Arith, OwnMem
<1> QED BY <1>3, <1>9, <1>10

LEMMA MainCsr ==
  ASSUME DemoInv, Tick, ~trap_en, pc \in {4, 28, 36}
  PROVE  HandlerReady' /\ imem' = imem /\ Unpreempted!Effectless
<1>1. imem \in Programs /\ pc \in MainPlaces
  BY DEF DemoInv, IInv, MainPlaces
<1>2. /\ inst.op = "csr" /\ inst.rd = 0 /\ inst.csr \in CsrNames \ {"mepc"}
      /\ pc # 4 => inst.csr # "mtvec"
      /\ pc # 36 => inst.csr # "mstatus"
      /\ pc = 4 => /\ inst.csr = "mtvec" /\ inst.f = "write"
                   /\ inst.src = "reg" /\ inst.rs1 = 1
  BY <1>1, MainFetch DEF CSRRW, CSRRS, CsrNames
<1>3. /\ imem' = imem /\ pc' = Plus(pc, 4) /\ UNCHANGED <<regs, dmem, mepc>>
      /\ pc # 36 => mstatus_mie' = mstatus_mie
      /\ pc # 4 => mtvec' = mtvec
      /\ pc = 4 => mtvec' = csr_wdata
  BY <1>2, CsrStep
<1>4. pc = 4 => mtvec' = Handler
  BY <1>2, <1>3 DEF csr_wdata, ReadReg, DemoInv, HandlerReady, VectorSet
<1>5. pc' = pc + 4
  BY <1>3, SmallSum
<1>6. pc' \in MainPlaces
  BY <1>5 DEF MainPlaces
<1>7. HandlerReady'
  BY <1>3, <1>4, <1>5, <1>6, Regions
     DEF DemoInv, HandlerReady, Placed, OffUntilReady, VectorSet, TimerKnown, HandlerReturns,
         MainPlaces, LoopPlaces
<1>8. Unpreempted!Effectless
  <2>1. OwnRegs' = OwnRegs /\ OwnMem' = OwnMem /\ OwnPc' = Plus(OwnPc, 4)
    BY <1>1, <1>3, <1>6, MainMoves, SameInstruction DEF OwnMem, OwnRegs
  <2>2. Unpreempted!i = inst /\ Unpreempted!Plus(OwnPc, 4) = Plus(OwnPc, 4)
    BY <1>1, SameInstruction
  <2>3. Unpreempted!Advance
    BY <2>1, <2>2 DEF Unpreempted!Advance, Unpreempted!Goto, OwnPc
  <2> QED BY <1>2, <2>1, <2>2, <2>3 DEF Unpreempted!Effectless, OwnRegs, OwnMem
<1> QED BY <1>3, <1>7, <1>8

(* Main's stores: twice to the timer, which it does not own, and once      *)
(* to its counter, which it does.                                          *)
LEMMA MainStore ==
  ASSUME DemoInv, Tick, ~trap_en, pc \in {16, 20, 44}
  PROVE  HandlerReady' /\ imem' = imem /\ (Unpreempted!Effectless \/ Unpreempted!StoreOwned)
<1>1. imem \in Programs /\ pc \in MainPlaces
  BY DEF DemoInv, IInv, MainPlaces
<1>2. /\ inst.op = "store" /\ inst.size = "word"
      /\ inst.rs1 \in 0 .. 5 /\ inst.rs2 \in 0 .. 5
  BY <1>1, MainFetch DEF SW
<1>3. /\ imem' = imem /\ pc' = Plus(pc, 4) /\ UNCHANGED <<regs, controlVars>>
      /\ dmem' = IF IsDmemAddr(effective_addr)
                 THEN [dmem EXCEPT ![effective_addr \div 4] = ReadReg(inst.rs2)]
                 ELSE dmem
  BY <1>2, StoreStep
<1>4. pc' = pc + 4
  BY <1>3, SmallSum
<1>5. pc' \in MainPlaces
  BY <1>4 DEF MainPlaces
<1>6. HandlerReady'
  BY <1>3, <1>4, <1>5, Regions
     DEF DemoInv, HandlerReady, Placed, OffUntilReady, VectorSet, TimerKnown, HandlerReturns,
         controlVars, MainPlaces, LoopPlaces
<1>7. /\ OwnRegs' = OwnRegs /\ OwnPc' = Plus(OwnPc, 4)
      /\ Unpreempted!i = inst /\ Unpreempted!Plus(OwnPc, 4) = Plus(OwnPc, 4)
  BY <1>1, <1>3, <1>5, MainMoves, SameInstruction DEF OwnRegs
<1>8. Unpreempted!Advance
  BY <1>7 DEF Unpreempted!Advance, Unpreempted!Goto, OwnPc
<1>9. Unpreempted!Addr = effective_addr \div 4 /\ Unpreempted!Get(inst.rs2) = ReadReg(inst.rs2)
  BY <1>1, <1>2, SameInstruction DEF Unpreempted!Addr, effective_addr
<1>10. CASE pc \in {16, 20}
  <2>1. effective_addr \in {68, 72}
    BY <1>10, Addresses
  <2>2. dmem' = dmem /\ Unpreempted!Addr >= 8
    BY <1>3, <1>9, <2>1, AddressMap
  <2> QED BY <1>2, <1>3, <1>6, <1>7, <1>8, <2>2 DEF Unpreempted!Effectless, OwnRegs
<1>11. CASE pc = 44
  <2>1. effective_addr = 8 /\ effective_addr \div 4 = 2
    BY <1>11, Addresses
  <2>2. dmem' = [dmem EXCEPT ![2] = ReadReg(inst.rs2)]
    BY <1>3, <2>1, AddressMap
  <2>3. dmem \in [DmemIndex -> Word] /\ 2 \in DmemIndex
    BY TimerProgramAssumption, WordBaseAssumption
       DEF DemoInv, IInv, TypeOK, CoreTypeOK, DmemIndex
  <2>4. OwnMem' = [OwnMem EXCEPT ![2] = ReadReg(inst.rs2)]
    BY <2>2, <2>3, Regions DEF OwnMem
  <2>5. Unpreempted!StoreOwned
    BY <1>2, <1>7, <1>8, <1>9, <2>1, <2>4, Regions DEF Unpreempted!StoreOwned, OwnRegs, OwnMem
  <2> QED BY <1>3, <1>6, <2>5
<1> QED BY <1>10, <1>11

LEMMA MainLoad ==
  ASSUME DemoInv, Tick, ~trap_en, pc = 48
  PROVE  HandlerReady' /\ imem' = imem /\ Unpreempted!LoadShared
<1>1. imem \in Programs /\ pc \in MainPlaces
  BY DEF DemoInv, IInv, MainPlaces
<1>2. inst.op = "load" /\ inst.rd = 5 /\ inst.rs1 = 0
  BY <1>1, MainFetch DEF LW
<1>3. mem_read_data \in Word
  BY <1>2, LoadType DEF DemoInv, IInv, trap_en, sync_exception, mem_read_en
<1>4. /\ imem' = imem /\ pc' = Plus(pc, 4) /\ UNCHANGED <<dmem, controlVars>>
      /\ regs' = [regs EXCEPT ![5] = mem_read_data]
  BY <1>2, LoadStep
<1>5. pc' = 52
  BY <1>4, SmallSum
<1>6. pc' \in MainPlaces
  BY <1>5 DEF MainPlaces
<1>7. HandlerReady'
  BY <1>4, <1>5, <1>6, Regions
     DEF DemoInv, HandlerReady, Placed, OffUntilReady, VectorSet, TimerKnown, HandlerReturns,
         controlVars, MainPlaces, LoopPlaces
<1>8. PICK v \in Word : OwnRegs' = [OwnRegs EXCEPT ![5] = v]
  BY <1>3, <1>4, OwnRegWrite, 5 \in 1 .. 5
<1>9. /\ OwnMem' = OwnMem /\ OwnPc' = Plus(OwnPc, 4)
      /\ Unpreempted!i = inst /\ Unpreempted!Plus(OwnPc, 4) = Plus(OwnPc, 4)
  BY <1>1, <1>4, <1>6, MainMoves, SameInstruction DEF OwnMem
<1>10. Unpreempted!Advance
  BY <1>9 DEF Unpreempted!Advance, Unpreempted!Goto, OwnPc
<1>11. Unpreempted!Addr = 0
  <2>1. effective_addr = 0
    BY Addresses
  <2> QED BY <1>1, <1>2, <2>1, SameInstruction DEF Unpreempted!Addr, effective_addr
<1>12. v \in Unpreempted!Word /\ Unpreempted!Set(Unpreempted!i.rd, v)
  <2>1. v \in Unpreempted!Word
    BY DEF Unpreempted!Word, Word
  <2>2. Unpreempted!i.rd = 5
    BY <1>2, <1>9
  <2>3. [r \in 1 .. 5 |-> regs[r]]' = [[r \in 1 .. 5 |-> regs[r]] EXCEPT ![5] = v]
    BY <1>8 DEF OwnRegs
  <2> HIDE DEF Unpreempted!i
  <2>4. Unpreempted!Set(Unpreempted!i.rd, v)
    BY <2>2, <2>3 DEF Unpreempted!Set
  <2> QED BY <2>1, <2>4
<1>13. Unpreempted!LoadShared
  BY <1>2, <1>9, <1>10, <1>11, <1>12, Regions DEF Unpreempted!LoadShared, OwnMem
<1> QED BY <1>4, <1>7, <1>13

LEMMA MainBranch ==
  ASSUME DemoInv, Tick, ~trap_en, pc = 52
  PROVE  HandlerReady' /\ imem' = imem /\ Unpreempted!BranchNotEqual
<1>1. imem \in Programs /\ pc \in MainPlaces
  BY DEF DemoInv, IInv, MainPlaces
<1>2. inst.op = "bne" /\ inst.rs1 = 5 /\ inst.rs2 = 0 /\ inst.imm = 8
  BY <1>1, MainFetch DEF BNE
<1>3. /\ imem' = imem /\ UNCHANGED <<regs, dmem, controlVars>>
      /\ pc' = IF ReadReg(inst.rs1) # ReadReg(inst.rs2) THEN Plus(pc, inst.imm) ELSE Plus(pc, 4)
  BY <1>2, BranchStep DEF BranchOps, BranchTaken
<1>4. pc' \in {56, 60}
  BY <1>2, <1>3, SmallSum
<1>5. pc' \in MainPlaces
  BY <1>4 DEF MainPlaces
<1>6. HandlerReady'
  BY <1>3, <1>4, <1>5, Regions
     DEF DemoInv, HandlerReady, Placed, OffUntilReady, VectorSet, TimerKnown, HandlerReturns,
         controlVars, MainPlaces, LoopPlaces
<1>7. /\ OwnRegs' = OwnRegs /\ OwnMem' = OwnMem /\ OwnPc' = pc' /\ OwnPc = pc
      /\ Unpreempted!i = inst
      /\ Unpreempted!Plus(OwnPc, 4) = Plus(pc, 4)
      /\ Unpreempted!Plus(OwnPc, inst.imm) = Plus(pc, inst.imm)
      /\ Unpreempted!Get(inst.rs1) = ReadReg(inst.rs1)
      /\ Unpreempted!Get(inst.rs2) = ReadReg(inst.rs2)
  BY <1>1, <1>2, <1>3, <1>5, MainMoves, SameInstruction DEF OwnRegs, OwnMem
<1>8. IF Unpreempted!Get(Unpreempted!i.rs1) # Unpreempted!Get(Unpreempted!i.rs2)
      THEN Unpreempted!Goto(Unpreempted!Plus(OwnPc, Unpreempted!i.imm))
      ELSE Unpreempted!Advance
  BY <1>3, <1>7 DEF Unpreempted!Goto, Unpreempted!Advance, OwnPc
<1>9. Unpreempted!BranchNotEqual
  BY <1>2, <1>7, <1>8 DEF Unpreempted!BranchNotEqual, OwnRegs, OwnMem, OwnPc
<1> QED BY <1>3, <1>6, <1>9

LEMMA MainJump ==
  ASSUME DemoInv, Tick, ~trap_en, pc \in {56, 60}
  PROVE  HandlerReady' /\ imem' = imem /\ Unpreempted!JumpAndLink
<1>1. imem \in Programs /\ pc \in MainPlaces
  BY DEF DemoInv, IInv, MainPlaces
<1>2. inst.op = "jal" /\ inst.rd = 0 /\ inst.imm = IF pc = 56 THEN WordBase - 16 ELSE 0
  BY <1>1, MainFetch DEF JAL
<1>3. /\ imem' = imem /\ UNCHANGED <<regs, dmem, controlVars>>
      /\ pc' = Plus(pc, inst.imm)
  BY <1>2, JumpStep
<1>4. pc' \in {40, 60}
  <2>1. CASE pc = 56
    <3>1. WordBase \in Nat /\ WordBase >= 256
      BY TimerProgramAssumption, WordBaseAssumption
    <3> DEFINE m == 56 + (WordBase - 16)
    <3>2. m \in WordBase .. 2 * WordBase - 1 /\ m - WordBase = 40
      BY <3>1
    <3> HIDE DEF m
    <3>3. m % WordBase = 40
      BY <3>1, <3>2, RemainderOver
    <3> QED BY <1>2, <1>3, <2>1, <3>3 DEF m, Plus, Wrap
  <2>2. CASE pc = 60
    BY <1>2, <1>3, <2>2, SmallSum
  <2> QED BY <2>1, <2>2
<1>5. pc' \in MainPlaces
  BY <1>4 DEF MainPlaces
<1>6. HandlerReady'
  BY <1>3, <1>4, <1>5, Regions
     DEF DemoInv, HandlerReady, Placed, OffUntilReady, VectorSet, TimerKnown, HandlerReturns,
         controlVars, MainPlaces, LoopPlaces
<1>7. /\ OwnRegs' = OwnRegs /\ OwnMem' = OwnMem /\ OwnPc' = pc' /\ OwnPc = pc
      /\ Unpreempted!i = inst
      /\ Unpreempted!Plus(OwnPc, inst.imm) = Plus(pc, inst.imm)
  BY <1>1, <1>3, <1>5, MainMoves, SameInstruction DEF OwnRegs, OwnMem
<1>8. /\ Unpreempted!Goto(Unpreempted!Plus(OwnPc, Unpreempted!i.imm))
      /\ Unpreempted!Set(Unpreempted!i.rd, Unpreempted!Plus(OwnPc, 4))
  BY <1>2, <1>3, <1>7 DEF Unpreempted!Goto, Unpreempted!Set, OwnPc, OwnRegs
<1>9. Unpreempted!JumpAndLink
  BY <1>2, <1>7, <1>8 DEF Unpreempted!JumpAndLink, OwnMem, OwnPc
<1> QED BY <1>3, <1>6, <1>9

-----------------------------------------------------------------------------
LEMMA MainSteps ==
  ASSUME DemoInv, Tick, ~trap_en, pc \in MainPlaces
  PROVE  HandlerReady' /\ Unpreempted!Next
<1>1. CASE pc \in {0, 8, 12, 24, 32, 40}
  BY <1>1, MainAddi DEF Unpreempted!Next
<1>2. CASE pc \in {4, 28, 36}
  BY <1>2, MainCsr DEF Unpreempted!Next
<1>3. CASE pc \in {16, 20, 44}
  BY <1>3, MainStore DEF Unpreempted!Next
<1>4. CASE pc = 48
  BY <1>4, MainLoad DEF Unpreempted!Next
<1>5. CASE pc = 52
  BY <1>5, MainBranch DEF Unpreempted!Next
<1>6. CASE pc \in {56, 60}
  BY <1>6, MainJump DEF Unpreempted!Next
<1> QED BY <1>1, <1>2, <1>3, <1>4, <1>5, <1>6 DEF MainPlaces

(* Every cycle of the demo keeps the invariant, and is a step of the       *)
(* machine without interrupts or hidden from it.                           *)
LEMMA DemoStep ==
  ASSUME DemoInv, [StepUntilHalted]_vars
  PROVE  DemoInv' /\ [Unpreempted!Next]_ownVars
<1>1. CASE StepUntilHalted
  <2>1. Tick
    BY <1>1 DEF StepUntilHalted
  <2>2. IInv'
    BY <2>1, ClockType DEF DemoInv, Tick
  <2>3. HandlerReady' /\ [Unpreempted!Next]_ownVars
    <3>1. CASE trap_en
      BY <2>1, <3>1, InterruptIsHidden
    <3>2. CASE ~trap_en /\ pc \in HandlerPlaces
      BY <2>1, <3>2, HandlerIsHidden
    <3>3. CASE ~trap_en /\ pc \in MainPlaces
      BY <2>1, <3>3, MainSteps
    <3> QED BY <3>1, <3>2, <3>3 DEF DemoInv, HandlerReady, Placed
  <2> QED BY <2>2, <2>3 DEF DemoInv
<1>2. CASE UNCHANGED vars
  <2>1. IInv'
    BY <1>2 DEF DemoInv, IInv, TypeOK, CoreTypeOK, ClintTypeOK, CsrTypeOK, UartTypeOK,
                vars, coreVars, clintVars, csrVars, uartVars
  <2>2. HandlerReady'
    BY <1>2 DEF DemoInv, HandlerReady, Placed, OffUntilReady, VectorSet, TimerKnown,
                HandlerReturns, vars, coreVars, csrVars
  <2>3. UNCHANGED ownVars
    BY <1>2 DEF ownVars, OwnPc, OwnRegs, OwnMem, InHandler, vars, coreVars, csrVars
  <2> QED BY <2>1, <2>2, <2>3 DEF DemoInv
<1> QED BY <1>1, <1>2

LEMMA DemoInit ==
  ASSUME Init
  PROVE  DemoInv /\ Unpreempted!Init
<1>1. IInv /\ pc = 0 /\ ~mstatus_mie
  BY InitType DEF IInv, Init, CsrInit
<1>2. HandlerReady
  BY <1>1 DEF HandlerReady, Placed, OffUntilReady, VectorSet, TimerKnown, HandlerReturns,
              MainPlaces, HandlerPlaces
<1>3. OwnPc = 0
  BY <1>1 DEF OwnPc, InHandler, Handler
<1>4. OwnRegs = [r \in 1 .. 5 |-> 0]
  <2>1. 1 .. 5 \subseteq Reg
    BY TimerProgramAssumption, CoreAssumption DEF Reg
  <2> QED BY <2>1 DEF Init, OwnRegs
<1>5. OwnMem = [a \in {DATA_LOOP_COUNT \div 4} |-> 0]
  <2>1. 2 \in DmemIndex
    BY TimerProgramAssumption, WordBaseAssumption DEF DmemIndex
  <2> QED BY <2>1, Regions DEF Init, OwnMem
<1> QED BY <1>1, <1>2, <1>3, <1>4, <1>5 DEF DemoInv, Unpreempted!Init, OwnPc, OwnRegs, OwnMem

(* Wherever the timer cuts into the demo's main program, no instruction of *)
(* it is skipped, executed twice or half executed, and it returns to the   *)
(* very next one: with the handler's cycles hidden it runs as on a machine *)
(* that has no interrupts (raijin_core.v:166-210 and 430-441,              *)
(* csr_file.v:197-207, timer_int_test.py).                                 *)
THEOREM InterruptsAreTransparent == Running => InterruptsTransparent
<1>1. Init => DemoInv /\ Unpreempted!Init
  BY DemoInit
<1>2. DemoInv /\ [StepUntilHalted]_vars => DemoInv' /\ [Unpreempted!Next]_ownVars
  BY DemoStep
<1>3. DemoInv /\ [StepUntilHalted]_vars => [Unpreempted!Next]_<<imem, IF InHandler THEN mepc ELSE pc,
        [r \in 1 .. 5 |-> regs[r]], [a \in {DATA_LOOP_COUNT \div 4} |-> dmem[a]]>>
  BY <1>2 DEF ownVars, OwnPc, OwnRegs, OwnMem
<1> QED BY <1>1, <1>2, <1>3, PTL DEF Running, InterruptsTransparent, Unpreempted!Spec

(* While the handler runs, interrupts are off and the way back lies in the *)
(* loop; main is never interrupted before the handler is in place          *)
(* (timer_int_test.py, csr_file.v:197-207).                                *)
THEOREM HandlerIsSafe == Running => []HandlerReady
<1>1. Init => DemoInv
  BY DemoInit
<1>2. DemoInv /\ [StepUntilHalted]_vars => DemoInv'
  BY DemoStep
<1>3. DemoInv => HandlerReady
  BY DEF DemoInv
<1> QED BY <1>1, <1>2, <1>3, PTL DEF Running
=============================================================================
