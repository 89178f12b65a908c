---------------------------- MODULE WideCounter ----------------------------
(***************************************************************************)
(* The 64-bit free-running counters of the core (mtime in clint.v, mcycle  *)
(* in csr_file.v).  Each is kept as two halves of Base values that         *)
(* software reads and writes one at a time; Base is 2^32 in the RTL.       *)
(***************************************************************************)
EXTENDS Naturals

CONSTANT Base   \* number of values of one half

ASSUME BaseAssumption == Base \in Nat \ {0}

Half == 0 .. Base - 1
Wide == [lo : Half, hi : Half]

Zero == [lo |-> 0, hi |-> 0]
AllOnes == [lo |-> Base - 1, hi |-> Base - 1]

(* The number a pair of halves stands for. *)
WideValue(c) == c.hi * Base + c.lo

(* A software write that reaches the counter in a cycle: at most one half. *)
NoWrite == [half |-> "none", data |-> 0]
WideWrites == [half : {"none", "lo", "hi"}, data : Half]

(* Mutant of CounterTick: the carry is one count late.                     *)
CounterTick_LateCarry(c, w) ==
  [lo |-> IF w.half = "lo" THEN w.data ELSE (c.lo + 1) % Base,
   hi |-> IF w.half = "hi" THEN w.data
          ELSE IF c.lo = 0 /\ w.half # "lo" THEN (c.hi + 1) % Base ELSE c.hi]

(* One rising edge of a counter, not in reset.  The carry into the upper   *)
(* half is the all-ones test on the old lower half, and a write to the     *)
(* lower half in the same cycle suppresses it.                             *)
CounterTick(c, w) ==
  [lo |-> IF w.half = "lo" THEN w.data ELSE (c.lo + 1) % Base,
   hi |-> IF w.half = "hi" THEN w.data
          ELSE IF c.lo = Base - 1 /\ w.half # "lo" THEN (c.hi + 1) % Base
          ELSE c.hi]
=============================================================================
