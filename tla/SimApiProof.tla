---------------------------- MODULE SimApiProof ----------------------------
(***************************************************************************)
(* The halt check of raijin_step, the end of hard_reset and the count of   *)
(* cycles, for every window, budget, set of hex files and core.            *)
(***************************************************************************)
EXTENDS SimApi, RaijinCoreProof

LEMMA NextInWindow ==
  ASSUME NEW n \in Nat, NEW w \in Nat \ {0}
  PROVE  /\ n % w \in 0 .. w - 1
         /\ (n + 1) % w = 0 \/ (n + 1) % w = (n % w) + 1
<1> QED BY Z3

-----------------------------------------------------------------------------
(* The cycles since tohost was last zero are at most those since the last  *)
(* check, which found it zero.                                             *)
WindowInv ==
  /\ call \in {"none", "step", "reset", "flush"}
  /\ ran \in Nat /\ resident \in Nat
  /\ call = "step" => resident <= ran % Window

LEMMA WindowInit == SimInit => WindowInv
BY DEF SimInit, WindowInv

LEMMA StepCycleWindow == WindowInv /\ StepCycle => WindowInv'
<1> SUFFICES ASSUME WindowInv, StepCycle PROVE WindowInv'
  OBVIOUS
<1>1. /\ ran' = ran + 1 /\ ran \in Nat /\ resident \in Nat
      /\ resident <= ran % Window
      /\ resident' = IF halted' THEN resident + 1 ELSE 0
  BY DEF StepCycle, WindowInv
<1>2. /\ ran % Window \in 0 .. Window - 1
      /\ ran' % Window = 0 \/ ran' % Window = (ran % Window) + 1
  BY <1>1, NextInWindow, SimAssumption
<1>3. CASE StepEnds(ran + 1, left - 1)
  BY <1>1, <1>3 DEF StepCycle, WindowInv
<1>4. CASE ~StepEnds(ran + 1, left - 1)
  <2>1. call' = "step" /\ ~(ran' % Window = 0 /\ halted')
    BY <1>1, <1>4 DEF StepCycle, StepEnds
  <2>2. resident' \in Nat /\ resident' <= ran' % Window
    <3>1. CASE halted'
      BY <1>1, <1>2, <2>1, <3>1
    <3>2. CASE ~halted'
      BY <1>1, <1>2, <3>2, SimAssumption
    <3> QED BY <3>1, <3>2
  <2> QED BY <1>1, <2>1, <2>2 DEF WindowInv
<1> QED BY <1>3, <1>4

LEMMA WindowStep == WindowInv /\ [SimNext]_simVars => WindowInv'
<1> SUFFICES ASSUME WindowInv, [SimNext]_simVars PROVE WindowInv'
  OBVIOUS
<1>1. CASE StepCycle
  BY <1>1, StepCycleWindow
<1>2. ASSUME NEW max \in Budgets, BeginStep(max) PROVE WindowInv'
  <2>1. 0 % Window = 0
    BY SimAssumption
  <2> QED BY <1>2, <2>1 DEF BeginStep, WindowInv
<1>3. CASE BeginReset \/ ResetCycle \/ FinishReset
  BY <1>3 DEF BeginReset, ResetCycle, FinishReset, WindowInv
<1>4. ASSUME NEW f \in HexFiles, LoadHex(f) \/ LoadOverflows(f) PROVE WindowInv'
  BY <1>4 DEF LoadHex, LoadOverflows, Overwrite, WindowInv
<1>5. CASE UNCHANGED apiVars
  BY <1>5 DEF apiVars, WindowInv
<1>6. CASE HostReads \/ \E b \in Byte : HostWrites(b)
  BY <1>5, <1>6 DEF HostReads, HostWrites
<1>7. CASE UNCHANGED simVars
  BY <1>5, <1>7 DEF simVars
<1> QED BY <1>1, <1>2, <1>3, <1>4, <1>6, <1>7 DEF SimNext

(* A program that has halted runs on for less than one window of the halt  *)
(* check, whatever it stores to tohost and wherever the step began         *)
(* (raijin_api.cpp:213-221).                                               *)
THEOREM HaltIsSeen == SimSpec => []OvershootBounded
<1>1. WindowInv => OvershootBounded
  <2> SUFFICES ASSUME WindowInv, call = "step" PROVE resident < Window
    BY DEF OvershootBounded
  <2>1. ran % Window \in 0 .. Window - 1
    BY NextInWindow, SimAssumption DEF WindowInv
  <2> QED BY <2>1, SimAssumption DEF WindowInv
<1> QED BY <1>1, WindowInit, WindowStep, PTL DEF SimSpec

-----------------------------------------------------------------------------
(* Behind the last tick of a reset the core is at its start.               *)
FlushInv ==
  /\ call \in {"none", "step", "reset", "flush"}
  /\ call = "flush" => FreshCore

LEMMA ResetTickClears == ResetTick => FreshCore'
BY DEF ResetTick, Clock, ClintClock, ClintReset, CsrClock, CsrReset, FreshCore

LEMMA FlushStep == FlushInv /\ [SimNext]_simVars => FlushInv'
<1> SUFFICES ASSUME FlushInv, [SimNext]_simVars PROVE FlushInv'
  OBVIOUS
<1>1. CASE ResetCycle
  BY <1>1, ResetTickClears DEF ResetCycle, FlushInv
<1>2. CASE StepCycle \/ BeginReset \/ FinishReset
  BY <1>2 DEF StepCycle, BeginReset, FinishReset, FlushInv
<1>3. ASSUME NEW max \in Budgets, BeginStep(max) PROVE FlushInv'
  BY <1>3 DEF BeginStep, FlushInv
<1>4. ASSUME NEW f \in HexFiles, LoadHex(f) \/ LoadOverflows(f) PROVE FlushInv'
  BY <1>4 DEF LoadHex, LoadOverflows, Overwrite, FlushInv
<1>5. CASE HostReads \/ \E b \in Byte : HostWrites(b)
  BY <1>5 DEF HostReads, HostWrites, apiVars, FlushInv
<1>6. CASE UNCHANGED simVars
  BY <1>6 DEF simVars, apiVars, vars, coreVars, clintVars, csrVars, FreshCore, FlushInv
<1> QED BY <1>1, <1>2, <1>3, <1>4, <1>5, <1>6 DEF SimNext

(* However a reset began, behind a half-loaded file or in the middle of a  *)
(* program that transmits in the reset ticks too, it ends with a fresh     *)
(* core, no output, and of the old input at most the byte in the latch     *)
(* (raijin_api.cpp:114-121).                                               *)
THEOREM ResetIsClean == SimSpec => ResetLeavesOnlyLatch
<1>1. SimInit => FlushInv
  BY DEF SimInit, FlushInv
<1>2. ASSUME FlushInv, FinishReset
      PROVE  /\ FreshCore' /\ cycle_count' = 0
             /\ g_tx_buf' = <<>> /\ Len(Unread') <= 1
  <2>1. FreshCore
    BY <1>2 DEF FlushInv, FinishReset
  <2>2. FreshCore'
    BY <1>2, <2>1 DEF FinishReset, FreshCore, coreVars, clintVars, csrVars
  <2>3. g_tx_buf' = <<>> /\ g_rx_buf' = <<>> /\ cycle_count' = 0
    BY <1>2 DEF FinishReset, UartFlush
  <2>4. Len(Unread') <= 1
    BY <2>3 DEF Unread
  <2> QED BY <2>2, <2>3, <2>4
<1>3. FlushInv /\ [SimNext]_simVars =>
        [FinishReset => /\ FreshCore' /\ cycle_count' = 0
                        /\ g_tx_buf' = <<>> /\ Len(Unread') <= 1]_simVars
  BY <1>2
<1> QED BY <1>1, <1>3, FlushStep, PTL DEF SimSpec, ResetLeavesOnlyLatch

-----------------------------------------------------------------------------
(* The count of cycles. *)

(* The instruction that is executed stores to neither of the two counters. *)
CountersSpared ==
  /\ clint_store.reg \notin {"mtime_lo", "mtime_hi"}
  /\ csr_write.csr \notin {"mcycle", "mcycleh"}

Tracks(n) ==
  /\ WideValue(mtime) = n % (Base * Base)
  /\ WideValue(mcycle_ctr) = n % (Base * Base)

(* In a step the counters are ahead of the total by the cycles it has run; *)
(* behind the last tick of a reset they are zero, and the total is not yet.*)
TrackInv ==
  /\ call \in {"none", "step", "reset", "flush"}
  /\ mtime \in Wide /\ mcycle_ctr \in Wide /\ cycle_count \in Nat /\ ran \in Nat
  /\ call = "none" => Tracks(cycle_count)
  /\ call = "step" => Tracks(cycle_count + ran)
  /\ call = "flush" => mtime = Zero /\ mcycle_ctr = Zero

LEMMA BaseSquare == Base * Base \in Nat \ {0} /\ 0 % (Base * Base) = 0
<1>1. Base * Base \in Nat \ {0}
  BY BaseAssumption
<1> QED BY <1>1

LEMMA ProductNext ==
  ASSUME NEW m \in Nat, NEW q \in Nat
  PROVE  m * q + m = m * (q + 1)
OBVIOUS

(* Adding one before or after wrapping around makes no difference.         *)
LEMMA NextWraps ==
  ASSUME NEW n \in Nat, NEW m \in Nat \ {0}
  PROVE  ((n % m) + 1) % m = (n + 1) % m
<1> DEFINE q == n \div m
           r == n % m
<1>1. q \in Nat /\ r \in 0 .. m - 1 /\ n = m * q + r
  BY DivMod
<1> HIDE DEF q, r
<1>2. CASE r + 1 < m
  <2> DEFINE c == r + 1
  <2>1. c \in 0 .. m - 1 /\ n + 1 = c + m * q
    BY <1>1, <1>2
  <2> HIDE DEF c
  <2>2. (c + m * q) % m = c
    BY <1>1, <2>1, DivModUnique
  <2>3. c % m = c
    BY <2>1, RemainderSmall
  <2>4. (n + 1) % m = c
    BY <2>1, <2>2
  <2> QED BY <2>3, <2>4 DEF c, r
<1>3. CASE r + 1 = m
  <2>1. m * q + m = m * (q + 1) /\ q + 1 \in Nat /\ 0 \in 0 .. m - 1
    BY <1>1, ProductNext
  <2>2. n + 1 = 0 + m * (q + 1)
    <3> DEFINE a == m * q
               b == m * (q + 1)
    <3>1. a \in Nat /\ b \in Nat /\ b = a + m
      BY <1>1, <2>1
    <3>2. n = a + r
      BY <1>1
    <3> HIDE DEF a, b
    <3>3. n + 1 = 0 + b
      BY <1>1, <1>3, <3>1, <3>2
    <3> QED BY <3>3 DEF b
  <2>3. (n + 1) % m = 0
    BY <2>1, <2>2, DivModUnique
  <2>4. (r + 1) % m = 0
    BY <1>3
  <2> QED BY <2>3, <2>4 DEF r
<1> QED BY <1>1, <1>2, <1>3

LEMMA TickKeepsWide ==
  ASSUME NEW c \in Wide, NEW w, w.half = "none"
  PROVE  CounterTick(c, w) \in Wide
<1>1. c.lo + 1 \in Nat /\ c.hi + 1 \in Nat /\ c.hi \in Half
  BY DEF Wide, Half
<1>2. (c.lo + 1) % Base \in Half /\ (c.hi + 1) % Base \in Half
  BY <1>1, RemainderRange, BaseAssumption DEF Half
<1> QED BY <1>1, <1>2 DEF CounterTick, Wide

LEMMA ZeroTracks == Zero \in Wide /\ WideValue(Zero) = 0
<1>1. 0 \in Half
  BY BaseAssumption DEF Half
<1> QED BY <1>1, BaseAssumption DEF Zero, Wide, WideValue

(* A cycle of a step adds one to both.                                     *)
LEMMA StepTracks ==
  ASSUME TrackInv, CountersSpared, StepCycle
  PROVE  TrackInv'
<1> DEFINE m == Base * Base
           n == cycle_count + ran
<1>1. /\ call = "step" /\ Clock(FALSE) /\ ran' = ran + 1
      /\ \/ call' = "none" /\ cycle_count' = cycle_count + ran'
         \/ call' = "step" /\ cycle_count' = cycle_count
  BY DEF StepCycle, Tick
<1>2. /\ mtime \in Wide /\ mcycle_ctr \in Wide /\ cycle_count \in Nat /\ ran \in Nat
      /\ WideValue(mtime) = n % m /\ WideValue(mcycle_ctr) = n % m
  BY <1>1 DEF TrackInv, Tracks
<1>3. PICK v, w : /\ mtime' = CounterTick(mtime, v) /\ v.half = "none"
                  /\ mcycle_ctr' = CounterTick(mcycle_ctr, w) /\ w.half = "none"
  <2>1. mtime' = CounterTick(mtime, MtimeWrite(clint_store))
    BY <1>1 DEF Clock, ClintClock, ClintRun
  <2>2. MtimeWrite(clint_store).half = "none"
    BY DEF CountersSpared, MtimeWrite
  <2>3. PICK w \in {NoWrite, CycleWrite(csr_write)} : mcycle_ctr' = CounterTick(mcycle_ctr, w)
    BY <1>1 DEF Clock, CsrClock
  <2>4. NoWrite.half = "none" /\ CycleWrite(csr_write).half = "none"
    BY DEF CountersSpared, NoWrite, CycleWrite
  <2> QED BY <2>1, <2>2, <2>3, <2>4
<1>4. mtime' \in Wide /\ mcycle_ctr' \in Wide
  BY <1>2, <1>3, TickKeepsWide
<1>5. /\ WideValue(mtime)' = (WideValue(mtime) + 1) % m
      /\ WideValue(mcycle_ctr)' = (WideValue(mcycle_ctr) + 1) % m
  BY <1>2, <1>3, TickCounts DEF WideValue
<1>6. m \in Nat \ {0} /\ n \in Nat
  BY <1>2, BaseSquare
<1> HIDE DEF m, n
<1>7. ((n % m) + 1) % m = (n + 1) % m
  BY <1>6, NextWraps
<1>8. WideValue(mtime)' = (n + 1) % m /\ WideValue(mcycle_ctr)' = (n + 1) % m
  BY <1>2, <1>5, <1>7
<1>9. cycle_count' \in Nat /\ ran' \in Nat
  BY <1>1, <1>2
<1>10. CASE call' = "none" /\ cycle_count' = cycle_count + ran'
  <2>1. n + 1 = cycle_count'
    BY <1>1, <1>2, <1>10 DEF n
  <2> QED BY <1>4, <1>8, <1>9, <1>10, <2>1 DEF TrackInv, Tracks, m, WideValue
<1>11. CASE call' = "step" /\ cycle_count' = cycle_count
  <2>1. n + 1 = cycle_count' + ran'
    BY <1>1, <1>2, <1>11 DEF n
  <2> QED BY <1>4, <1>8, <1>9, <1>11, <2>1 DEF TrackInv, Tracks, m, WideValue
<1> QED BY <1>1, <1>10, <1>11

LEMMA TrackStep == TrackInv /\ (call = "step" => CountersSpared) /\ [SimNext]_simVars => TrackInv'
<1> SUFFICES ASSUME TrackInv, call = "step" => CountersSpared, [SimNext]_simVars PROVE TrackInv'
  OBVIOUS
<1>1. CASE StepCycle
  BY <1>1, StepTracks DEF StepCycle
<1>2. ASSUME NEW max \in Budgets, BeginStep(max) PROVE TrackInv'
  <2>1. /\ call = "none" /\ call' = "step" /\ ran' = 0
        /\ UNCHANGED <<mtime, mcycle_ctr, cycle_count>>
    BY <1>2 DEF BeginStep, vars, clintVars, csrVars
  <2>2. cycle_count' + ran' = cycle_count
    BY <2>1 DEF TrackInv
  <2> QED BY <2>1, <2>2 DEF TrackInv, Tracks, WideValue
<1>3. CASE BeginReset
  BY <1>3 DEF BeginReset, vars, clintVars, csrVars, TrackInv
<1>4. CASE ResetCycle
  <2>1. mtime' = Zero /\ mcycle_ctr' = Zero /\ call' \in {"reset", "flush"}
        /\ UNCHANGED <<ran, cycle_count>>
    BY <1>4 DEF ResetCycle, ResetTick, Clock, ClintClock, ClintReset, CsrClock
  <2> QED BY <2>1, ZeroTracks DEF TrackInv
<1>5. CASE FinishReset
  <2>1. /\ call = "flush" /\ call' = "none" /\ cycle_count' = 0
        /\ UNCHANGED <<mtime, mcycle_ctr, ran>>
    BY <1>5 DEF FinishReset, clintVars, csrVars
  <2>2. mtime' = Zero /\ mcycle_ctr' = Zero
    BY <2>1 DEF TrackInv
  <2>3. Tracks(cycle_count)'
    BY <2>1, <2>2, ZeroTracks, BaseSquare DEF Tracks, WideValue
  <2> QED BY <2>1, <2>2, <2>3, ZeroTracks DEF TrackInv
<1>6. ASSUME NEW f \in HexFiles, LoadHex(f) \/ LoadOverflows(f) PROVE TrackInv'
  <2>1. /\ call = "none" /\ call' \in {"none", "reset"}
        /\ UNCHANGED <<mtime, mcycle_ctr, ran, cycle_count>>
    BY <1>6 DEF LoadHex, LoadOverflows, Overwrite, clintVars, csrVars
  <2> QED BY <2>1 DEF TrackInv, Tracks, WideValue
<1>7. CASE UNCHANGED <<apiVars, mtime, mcycle_ctr>>
  BY <1>7 DEF apiVars, TrackInv, Tracks, WideValue
<1>8. CASE HostReads \/ \E b \in Byte : HostWrites(b)
  BY <1>7, <1>8 DEF HostReads, HostWrites, HostRead, HostWrite, clintVars, csrVars
<1>9. CASE UNCHANGED simVars
  BY <1>7, <1>9 DEF simVars, vars, clintVars, csrVars
<1> QED BY <1>1, <1>2, <1>3, <1>4, <1>5, <1>6, <1>8, <1>9 DEF SimNext

(* As long as the programs store to neither counter, the count of the API  *)
(* and the two of the hardware agree between any two calls, through steps  *)
(* cut short by the halt check, resets and loads (raijin_api.cpp:203-231). *)
THEOREM CountsAgree ==
  SimSpec /\ [](call = "step" => CountersSpared) => []TimerTracksCycles
<1>1. SimInit => TrackInv
  <2> SUFFICES ASSUME SimInit PROVE TrackInv
    OBVIOUS
  <2>1. call = "none" /\ cycle_count = 0 /\ ran = 0 /\ mtime = Zero /\ mcycle_ctr = Zero
    BY DEF SimInit, Init, ClintInit, CsrInit
  <2> QED BY <2>1, ZeroTracks, BaseSquare DEF TrackInv, Tracks
<1>2. TrackInv => TimerTracksCycles
  BY DEF TrackInv, Tracks, TimerTracksCycles
<1> QED BY <1>1, <1>2, TrackStep, PTL DEF SimSpec
=============================================================================
