------------------------------ MODULE Datapath ------------------------------
(***************************************************************************)
(* The combinational units of the core: alu.v's arithmetic, m_unit.v,      *)
(* branch_unit.v, and the byte lanes of dmem.v.  Bitwise logic and shifts  *)
(* are left out.                                                           *)
(***************************************************************************)
EXTENDS Words

CONSTANT LaneBase   \* number of values of a byte; a word is four of them

ASSUME LaneAssumption ==
  /\ LaneBase \in Nat \ {0} /\ LaneBase % 2 = 0
  /\ WordBase = LaneBase * (LaneBase * (LaneBase * LaneBase))

-----------------------------------------------------------------------------
(* alu.v *)

AluOps == {"add", "sub", "slt", "sltu"}

Alu(op, a, b) ==
  CASE op = "add"  -> Wrap(a + b)
    [] op = "sub"  -> Wrap(a - b)
    [] op = "slt"  -> IF Signed(a) < Signed(b) THEN 1 ELSE 0
    [] op = "sltu" -> IF a < b THEN 1 ELSE 0

-----------------------------------------------------------------------------
(* branch_unit.v *)

BranchOps == {"beq", "bne", "blt", "bge", "bltu", "bgeu"}

BranchTaken(op, a, b) ==
  CASE op = "beq"  -> a = b
    [] op = "bne"  -> a # b
    [] op = "blt"  -> Signed(a) < Signed(b)
    [] op = "bge"  -> Signed(a) >= Signed(b)
    [] op = "bltu" -> a < b
    [] op = "bgeu" -> a >= b

-----------------------------------------------------------------------------
(* m_unit.v *)

MulOps == {"mul", "mulh", "mulhsu", "mulhu", "div", "divu", "rem", "remu"}

(* The upper word of a product of the extended operands. *)
HighWord(product) == Wrap(product \div WordBase)

(* Verilog's / and %: towards zero, and the remainder with the sign of the *)
(* dividend.  A divisor of 0 is met before.                                *)
Magnitude(x) == IF x < 0 THEN -x ELSE x
Quotient(x, y) ==
  LET q == Magnitude(x) \div Magnitude(y) IN IF (x < 0) = (y < 0) THEN q ELSE -q
Remainder(x, y) ==
  LET r == Magnitude(x) % Magnitude(y) IN IF x < 0 THEN -r ELSE r

is_signed_ovf(a, b) == a = WordBase \div 2 /\ b = WordBase - 1

divu_q(a, b) == IF b = 0 THEN WordBase - 1 ELSE a \div b
div_q(a, b) ==
  IF b = 0 THEN WordBase - 1
  ELSE IF is_signed_ovf(a, b) THEN WordBase \div 2
  ELSE Wrap(Quotient(Signed(a), Signed(b)))
remu_r(a, b) == IF b = 0 THEN a ELSE a % b
rem_r(a, b) ==
  IF b = 0 THEN a
  ELSE IF is_signed_ovf(a, b) THEN 0
  ELSE Wrap(Remainder(Signed(a), Signed(b)))

MUnit(op, a, b) ==
  CASE op = "mul"    -> Wrap(Signed(a) * Signed(b))
    [] op = "mulh"   -> HighWord(Signed(a) * Signed(b))
    [] op = "mulhsu" -> HighWord(Signed(a) * b)
    [] op = "mulhu"  -> HighWord(a * b)
    [] op = "div"    -> div_q(a, b)
    [] op = "divu"   -> divu_q(a, b)
    [] op = "rem"    -> rem_r(a, b)
    [] op = "remu"   -> remu_r(a, b)

-----------------------------------------------------------------------------
(* dmem.v *)

Lane == 0 .. LaneBase - 1
Sizes == {"byte", "half", "word"}
Bytes(size) == CASE size = "byte" -> 1 [] size = "half" -> 2 [] size = "word" -> 4

(* The bytes of a word, and the word of four bytes, the lowest first. *)
Lanes(w) ==
  [k \in 0 .. 3 |->
     (CASE k = 0 -> w
        [] k = 1 -> w \div LaneBase
        [] k = 2 -> (w \div LaneBase) \div LaneBase
        [] k = 3 -> ((w \div LaneBase) \div LaneBase) \div LaneBase) % LaneBase]

FromLanes(b) == b[0] + LaneBase * (b[1] + LaneBase * (b[2] + LaneBase * b[3]))

(* The number n of `values` values, extended to a word by its top bit. *)
SignExtend(n, values) == IF n < values \div 2 THEN n ELSE n + WordBase - values

half_value(b, off) == LET h == 2 * (off \div 2) IN b[h] + LaneBase * b[h + 1]

read_data(word, off, size, signed) ==
  LET b == Lanes(word)
      Extend(n, values) == IF signed THEN SignExtend(n, values) ELSE n
  IN CASE size = "byte" -> Extend(b[off], LaneBase)
       [] size = "half" -> Extend(half_value(b, off), LaneBase * LaneBase)
       [] size = "word" -> word

(* Mutant: a half word is always stored in the lower lanes. *)
new_word_LowHalf(word, off, size, data) ==
  LET b == Lanes(word)
      d == Lanes(data)
  IN CASE size = "byte" -> FromLanes([b EXCEPT ![off] = d[0]])
       [] size = "half" -> FromLanes([b EXCEPT ![0] = d[0], ![1] = d[1]])
       [] size = "word" -> data

new_word(word, off, size, data) ==
  LET b == Lanes(word)
      d == Lanes(data)
      h == 2 * (off \div 2)
  IN CASE size = "byte" -> FromLanes([b EXCEPT ![off] = d[0]])
       [] size = "half" -> FromLanes([b EXCEPT ![h] = d[0], ![h + 1] = d[1]])
       [] size = "word" -> data
=============================================================================
