--------------------------- MODULE MCEchoProgram ---------------------------
(* The core running the polling receive loop of tools/c-runtime/shims/     *)
(* util.h (uart_rx_get, then putchar_) with the timer interrupt enabled    *)
(* and a handler that returns at once.  UART at 32, CLINT at 64.           *)
EXTENDS RaijinCore

LI(r, v) == [op |-> "addi", rd |-> r, rs1 |-> 0, imm |-> v]
LW(r, a) == [op |-> "load", rd |-> r, rs1 |-> 0, imm |-> a, size |-> "word", signed |-> TRUE]
SW(r, a) == [op |-> "store", rs2 |-> r, rs1 |-> 0, imm |-> a, size |-> "word"]
CSRRW(c, r) == [op |-> "csr", f |-> "write", csr |-> c, src |-> "reg", rd |-> 0, rs1 |-> r]
BNE(off) == [op |-> "bne", rs1 |-> 1, rs2 |-> 0, imm |-> off]
JAL(off) == [op |-> "jal", rd |-> 0, imm |-> off]

Echo ==
  << LI(1, 48), CSRRW("mtvec", 1), LI(1, 2), CSRRW("mie", 1),
     LI(1, 1), CSRRW("mstatus", 1),
     LW(1, 44), BNE(8), JAL(248),            \* while (!(UART_RX_STATUS & 1))
     LW(1, 40), SW(1, 32), JAL(236),         \* putchar_(UART_RX_DATA)
     [op |-> "mret"] >>

EchoPrograms == {[k \in 0 .. Len(Echo) - 1 |-> Echo[k + 1]]}
=============================================================================
