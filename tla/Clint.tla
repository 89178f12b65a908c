------------------------------- MODULE Clint -------------------------------
(***************************************************************************)
(* clint.v: the machine timer and the software interrupt bit.  One action, *)
(* ClintClock, is the rising clock edge; its arguments are the reset line  *)
(* and the store, if any, that the core's address decoder sends here.      *)
(***************************************************************************)
EXTENDS WideCounter

VARIABLES
  mtime,      \* 64-bit timer, counts every clock
  mtimecmp,   \* 64-bit compare register
  msip_bit    \* software interrupt pending

clintVars == <<mtime, mtimecmp, msip_bit>>

ClintRegs ==
  {"msip", "mtimecmp_lo", "mtimecmp_hi", "mtime_lo", "mtime_hi"}

(* A store to the CLINT page; reg "none" is no store, or an offset no      *)
(* register decodes.                                                       *)
ClintStores == [reg : ClintRegs \cup {"none"}, data : Half]
NoStore == [reg |-> "none", data |-> 0]

ClintTypeOK ==
  /\ mtime \in Wide
  /\ mtimecmp \in Wide
  /\ msip_bit \in BOOLEAN

(* The half of mtime a store addresses. *)
MtimeWrite(w) ==
  [half |-> CASE w.reg = "mtime_lo" -> "lo"
              [] w.reg = "mtime_hi" -> "hi"
              [] OTHER -> "none",
   data |-> w.data]

ClintReset ==
  /\ mtime' = Zero
  /\ mtimecmp' = AllOnes
  /\ msip_bit' = FALSE

ClintRun(w) ==
  /\ msip_bit' = IF w.reg = "msip" THEN w.data % 2 = 1 ELSE msip_bit
  /\ mtimecmp' = [lo |-> IF w.reg = "mtimecmp_lo" THEN w.data ELSE mtimecmp.lo,
                  hi |-> IF w.reg = "mtimecmp_hi" THEN w.data ELSE mtimecmp.hi]
  /\ mtime' = CounterTick(mtime, MtimeWrite(w))

ClintClock(reset, w) == IF reset THEN ClintReset ELSE ClintRun(w)

(* The read port: a combinational mux over the register offset. *)
ClintRead(reg) ==
  CASE reg = "msip"        -> IF msip_bit THEN 1 ELSE 0
    [] reg = "mtimecmp_lo" -> mtimecmp.lo
    [] reg = "mtimecmp_hi" -> mtimecmp.hi
    [] reg = "mtime_lo"    -> mtime.lo
    [] reg = "mtime_hi"    -> mtime.hi
    [] OTHER               -> 0

(* Mutant of mtip: both halves are compared, each on its own. *)
mtip_HalvesApart == mtime.hi >= mtimecmp.hi /\ mtime.lo >= mtimecmp.lo

(* The two interrupt lines. *)
mtip == \/ mtime.hi > mtimecmp.hi
        \/ mtime.hi = mtimecmp.hi /\ mtime.lo >= mtimecmp.lo
msip == msip_bit

-----------------------------------------------------------------------------
(* The timer on its own, with any store in any cycle and reset at any      *)
(* time: more than a program can do, so what holds here holds in the core. *)

ClintInit == mtime = Zero /\ mtimecmp = AllOnes /\ msip_bit = FALSE

ClintNext == \E reset \in BOOLEAN, w \in ClintStores : ClintClock(reset, w)

ClintSpec == ClintInit /\ [][ClintNext]_clintVars

-----------------------------------------------------------------------------
(* In a cycle that is not in reset and stores to neither half, the two     *)
(* halves together count by one modulo 2^64: the carry is neither lost     *)
(* nor early, in particular when lo is all ones (clint.v:91-95).           *)
MtimeCounts ==
  [][\A w \in ClintStores :
       ClintRun(w) /\ w.reg \notin {"mtime_lo", "mtime_hi"}
         => WideValue(mtime') = (WideValue(mtime) + 1) % (Base * Base)]_clintVars

(* The pending line is the 64-bit comparison, although it is computed      *)
(* half by half (clint.v:99-100, "mtip = (mtime >= mtimecmp)" in the       *)
(* header): in every reachable combination of halves, with every compare   *)
(* value but 0.  Of 0 the repository's README says that writing it clears  *)
(* the line (README.md:370), and the comparison says the opposite; this    *)
(* property takes no side.                                                 *)
MtipIsCompare ==
  mtimecmp # Zero => (mtip <=> WideValue(mtime) >= WideValue(mtimecmp))

=============================================================================
