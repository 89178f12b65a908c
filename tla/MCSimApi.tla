------------------------------ MODULE MCSimApi ------------------------------
(* The API with three small hex files; tohost is the word at 96 and the    *)
(* UART is at 32.  None of them stores to the timer.                       *)
EXTENDS SimApi

LI(r, v) == [op |-> "addi", rd |-> r, rs1 |-> 0, imm |-> v]
SW(r, a) == [op |-> "store", rs2 |-> r, rs1 |-> 0, imm |-> a, size |-> "word"]
JAL(off) == [op |-> "jal", rd |-> 0, imm |-> off]

(* Halts after the first window, and parks in a loop as crt.S does. *)
Halts == << LI(1, 3), LI(1, 2), LI(1, 1), SW(1, 96), JAL(0) >>
(* Sets tohost and clears it again, over and over. *)
Blinks == << LI(1, 3), SW(1, 96), SW(0, 96), JAL(244) >>
(* Transmits for ever. *)
Chatters == << LI(1, 65), SW(1, 32), JAL(252) >>

Code(p) == [k \in 0 .. Len(p) - 1 |-> p[k + 1]]
Blank == [a \in DmemIndex |-> 0]
Files == {[code |-> Code(p), data |-> Blank] : p \in {Halts, Blinks, Chatters}}
NoProgram == {Code(<<>>)}
=============================================================================
