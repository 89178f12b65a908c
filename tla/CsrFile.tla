------------------------------ MODULE CsrFile ------------------------------
(***************************************************************************)
(* csr_file.v: the machine-mode control and status registers with trap     *)
(* entry, MRET and software access on one write port, and the cycle        *)
(* counter beside it.  A word is a number below WordBase.  In mstatus, mie *)
(* and mip only bits 3 and 7 exist; they are numbered 0 and 1 here.  The   *)
(* identification registers and the views of the event counters, which no  *)
(* instruction can write, are left out.                                    *)
(***************************************************************************)
EXTENDS WideCounter, Words

VARIABLES
  mstatus_mie, mstatus_mpie,         \* interrupt enable and its saved copy
  mie_mtie, mie_msie,                \* timer and software line enables
  mtvec, mepc, mcause, mscratch, mtval,
  mcycle_ctr                         \* 64 bits; minstret is an alias of it

csrVars == <<mstatus_mie, mstatus_mpie, mie_mtie, mie_msie,
             mtvec, mepc, mcause, mscratch, mtval, mcycle_ctr>>

CsrTypeOK ==
  /\ {mstatus_mie, mstatus_mpie, mie_mtie, mie_msie} \subseteq BOOLEAN
  /\ {mtvec, mepc, mcause, mscratch, mtval} \subseteq Word
  /\ mcycle_ctr \in Wide

(* Two-bit views of the flag registers. *)
FlagWord(high, low) == (IF high THEN 2 ELSE 0) + (IF low THEN 1 ELSE 0)
LowBit(w) == w % 2 = 1
HighBit(w) == (w \div 2) % 2 = 1

(* The read mux; a CSR that is not implemented reads as zero. *)
CsrRead(csr, mtip_in, msip_in) ==
  CASE csr = "mstatus"  -> FlagWord(mstatus_mpie, mstatus_mie)
    [] csr = "mie"      -> FlagWord(mie_mtie, mie_msie)
    [] csr = "mip"      -> FlagWord(mtip_in, msip_in)
    [] csr = "mtvec"    -> mtvec
    [] csr = "mepc"     -> mepc
    [] csr = "mcause"   -> mcause
    [] csr = "mscratch" -> mscratch
    [] csr = "mtval"    -> mtval
    [] csr = "mcycle"   -> mcycle_ctr.lo
    [] csr = "mcycleh"  -> mcycle_ctr.hi
    [] OTHER            -> 0

(* A CSR instruction that commits a write: op is CSRRW, CSRRS or CSRRC.    *)
CsrNames == {"mstatus", "mie", "mip", "mtvec", "mepc", "mcause",
             "mscratch", "mtval", "mcycle", "mcycleh", "unimplemented"}
CsrOps == {"write", "set", "clear"}
CsrWrites == [csr : CsrNames \cup {"none"}, op : CsrOps, data : Word]
NoCsrWrite == [csr |-> "none", op |-> "write", data |-> 0]

(* sw_next_value on one flag bit. *)
NextFlag(op, old, bit) ==
  CASE op = "write" -> bit
    [] op = "set"   -> old \/ bit
    [] op = "clear" -> old /\ ~bit

CsrReset ==
  /\ mstatus_mie' = FALSE /\ mstatus_mpie' = FALSE
  /\ mie_mtie' = FALSE /\ mie_msie' = FALSE
  /\ mtvec' = 0 /\ mepc' = 0 /\ mcause' = 0 /\ mscratch' = 0 /\ mtval' = 0

(* Trap entry: the return address and cause are saved, and the enable bit  *)
(* moves into MPIE so that the handler starts with interrupts off.         *)
CsrTrap(trap) ==
  /\ mepc' = trap.pc
  /\ mcause' = trap.cause
  /\ mtval' = trap.tval
  /\ mstatus_mpie' = mstatus_mie
  /\ mstatus_mie' = FALSE
  /\ UNCHANGED <<mie_mtie, mie_msie, mtvec, mscratch>>

(* Mutant of CsrMret: the enable bit is not restored. *)
CsrMret_LeavesOff ==
  /\ mstatus_mpie' = TRUE
  /\ UNCHANGED <<mstatus_mie, mie_mtie, mie_msie, mtvec, mepc, mcause, mscratch, mtval>>

CsrMret ==
  /\ mstatus_mie' = mstatus_mpie
  /\ mstatus_mpie' = TRUE
  /\ UNCHANGED <<mie_mtie, mie_msie, mtvec, mepc, mcause, mscratch, mtval>>

(* A word register takes the data of a CSRRW.  CSRRS and CSRRC with a      *)
(* source other than x0 are modelled on the flag registers only.           *)
CsrSoftware(w) ==
  LET New(csr, old) == IF w.csr = csr THEN w.data ELSE old
      Flag(csr, old, bit) == IF w.csr = csr THEN NextFlag(w.op, old, bit) ELSE old
  IN /\ mstatus_mie' = Flag("mstatus", mstatus_mie, LowBit(w.data))
     /\ mstatus_mpie' = Flag("mstatus", mstatus_mpie, HighBit(w.data))
     /\ mie_msie' = Flag("mie", mie_msie, LowBit(w.data))
     /\ mie_mtie' = Flag("mie", mie_mtie, HighBit(w.data))
     /\ mtvec' = New("mtvec", mtvec)
     /\ mepc' = New("mepc", mepc)
     /\ mcause' = New("mcause", mcause)
     /\ mscratch' = New("mscratch", mscratch)
     /\ mtval' = New("mtval", mtval)

(* The half of the cycle counter that a committed CSR write addresses. *)
CycleWrite(w) ==
  [half |-> CASE w.csr = "mcycle"  -> "lo"
              [] w.csr = "mcycleh" -> "hi"
              [] OTHER -> "none",
   data |-> w.data % Base]

(* The write port's priority: reset, trap entry, MRET, software.  The      *)
(* cycle counter counts in every cycle.                                    *)
CsrClock(reset, trap, mret, w) ==
  /\ IF reset THEN CsrReset
     ELSE IF trap.en THEN CsrTrap(trap)
     ELSE IF mret THEN CsrMret
     ELSE CsrSoftware(w)
  /\ mcycle_ctr' = IF reset THEN Zero
                   ELSE CounterTick(mcycle_ctr,
                                    IF trap.en THEN NoWrite ELSE CycleWrite(w))

(* What the PC mux sees: direct mode only, and halfword-aligned returns. *)
mtvec_out == mtvec - (mtvec % 4)
mepc_out == mepc - (mepc % 2)

CsrInit ==
  /\ mstatus_mie = FALSE /\ mstatus_mpie = FALSE
  /\ mie_mtie = FALSE /\ mie_msie = FALSE
  /\ mtvec = 0 /\ mepc = 0 /\ mcause = 0 /\ mscratch = 0 /\ mtval = 0
  /\ mcycle_ctr = Zero
=============================================================================
