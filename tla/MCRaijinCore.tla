---------------------------- MODULE MCRaijinCore ----------------------------
(* Programs for checking RaijinCore: every short program over a menu of    *)
(* instructions.  The UART is at 32..63 and the CLINT at 64..95.           *)
EXTENDS RaijinCore

CsrWI(c, w) == [op |-> "csr", f |-> "write", csr |-> c, src |-> "imm", rd |-> 0, imm |-> w]
CsrSI(c, w) == [op |-> "csr", f |-> "set", csr |-> c, src |-> "imm", rd |-> 1, imm |-> w]
LoadAt(size, r, a) ==
  [op |-> "load", rd |-> 1, rs1 |-> r, imm |-> a, size |-> size, signed |-> TRUE]
StoreAt(source, size, r, a) ==
  [op |-> "store", rs2 |-> source, rs1 |-> r, imm |-> a, size |-> size]
Op(o) == [op |-> o]

Menu ==
  { CsrWI("mie", 3),
    CsrSI("mstatus", 1),
    CsrWI("mepc", 5),
    CsrWI("mcycle", 1),
    [op |-> "csr", f |-> "clear", csr |-> "mstatus", src |-> "reg", rd |-> 1, rs1 |-> 1],
    [op |-> "addi", rd |-> 1, rs1 |-> 1, imm |-> 33],
    [op |-> "div", rd |-> 1, rs1 |-> 1, rs2 |-> 0],
    LoadAt("word", 0, 40), LoadAt("half", 1, 2), LoadAt("byte", 0, 2),
    StoreAt(1, "word", 0, 64), StoreAt(0, "word", 0, 72), StoreAt(1, "word", 0, 76),
    StoreAt(1, "word", 0, 32),
    StoreAt(1, "half", 1, 31), StoreAt(1, "byte", 0, 1),
    [op |-> "bge", rs1 |-> 1, rs2 |-> 0, imm |-> 252],
    [op |-> "bne", rs1 |-> 1, rs2 |-> 0, imm |-> 252],
    [op |-> "jal", rd |-> 1, imm |-> 248],
    [op |-> "jalr", rd |-> 0, rs1 |-> 1, imm |-> 96],
    Op("ecall"), Op("ebreak"), Op("illegal"), Op("mret"), Op("wfi") }

(* All programs of two instructions of the menu in a loop that enables     *)
(* interrupts before them and stores half a word behind them.              *)
AnyPrograms ==
  { [k \in 0 .. 5 |-> CASE k = 0 -> CsrWI("mie", 3)
                        [] k = 1 -> CsrSI("mstatus", 3)
                        [] k = 2 -> a
                        [] k = 3 -> b
                        [] k = 4 -> StoreAt(1, "half", 0, 2)
                        [] k = 5 -> [op |-> "jal", rd |-> 0, imm |-> 244]] :
      a \in Menu, b \in Menu }
=============================================================================
