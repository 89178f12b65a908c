-------------------------------- MODULE Isa --------------------------------
(***************************************************************************)
(* What a program is promised by the core: its instructions take effect    *)
(* one after the other, each exactly once, as if nothing ever interrupted  *)
(* it.  There are no traps, no timer and no handler here; words that a     *)
(* handler may also write (Shared) can read as anything.                   *)
(***************************************************************************)
EXTENDS Naturals

CONSTANTS WordBase, Owned, OwnedRegs, DeviceBase

VARIABLES prog, pc, regs, mem   \* regs, mem: the program's own

Word == 0 .. WordBase - 1
Plus(a, b) == (a + b) % WordBase

i == prog[pc \div 4]
Get(r) == IF r = 0 THEN 0 ELSE regs[r]
Addr == Plus(Get(i.rs1), i.imm) \div 4

Goto(target) == pc' = target
Advance == Goto(Plus(pc, 4))
Set(r, v) == regs' = IF r = 0 THEN regs ELSE [regs EXCEPT ![r] = v]

Arith ==
  /\ i.op = "addi"
  /\ Set(i.rd, Plus(Get(i.rs1), i.imm))
  /\ Advance /\ UNCHANGED mem

LoadOwned ==
  /\ i.op = "load" /\ Addr \in Owned
  /\ Set(i.rd, mem[Addr])
  /\ Advance /\ UNCHANGED mem

LoadShared ==
  /\ i.op = "load" /\ Addr \notin Owned
  /\ \E v \in Word : Set(i.rd, v)
  /\ Advance /\ UNCHANGED mem

StoreOwned ==
  /\ i.op = "store" /\ Addr \in Owned
  /\ mem' = [mem EXCEPT ![Addr] = Get(i.rs2)]
  /\ Advance /\ UNCHANGED regs

(* A store to a device, or a CSR instruction that reads nothing. *)
Effectless ==
  /\ \/ i.op = "store" /\ Addr >= DeviceBase
     \/ i.op = "csr" /\ i.rd = 0
     \/ i.op = "wfi"
  /\ Advance /\ UNCHANGED <<regs, mem>>

BranchNotEqual ==
  /\ i.op = "bne"
  /\ IF Get(i.rs1) # Get(i.rs2) THEN Goto(Plus(pc, i.imm)) ELSE Advance
  /\ UNCHANGED <<regs, mem>>

JumpAndLink ==
  /\ i.op = "jal"
  /\ Set(i.rd, Plus(pc, 4))
  /\ Goto(Plus(pc, i.imm)) /\ UNCHANGED mem

Init ==
  /\ pc = 0
  /\ regs = [r \in OwnedRegs |-> 0]
  /\ mem = [a \in Owned |-> 0]

Next ==
  /\ \/ Arith \/ LoadOwned \/ LoadShared \/ StoreOwned
     \/ Effectless \/ BranchNotEqual \/ JumpAndLink
  /\ UNCHANGED prog

Spec == Init /\ [][Next]_<<prog, pc, regs, mem>>
=============================================================================
