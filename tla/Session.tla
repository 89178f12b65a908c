------------------------------- MODULE Session -------------------------------
(***************************************************************************)
(* What a raijin process does with a simulator: internal/sim's Session, the*)
(* loop of internal/runner's Run and of cmd/bench.go around it, the output *)
(* that is shown, and the verdict.  Keys and pausing are module Runner's;  *)
(* here the user may leave a run at any round.  The program is free: a     *)
(* chunk sends some bytes and may set tohost.                              *)
(*                                                                         *)
(* The transmit queue belongs to the library, not to a session, and one    *)
(* process runs program after program from its menu.                       *)
(***************************************************************************)
EXTENDS Naturals, Sequences

CONSTANTS
  Chunk,       \* cycles of a Step: 50,000 of a run, 100,000 of a benchmark
  Caps,        \* values of --max-cycles; 0 is none for a run
  Runs,        \* values of bench --runs
  ReadCap,     \* bytes ReadUart takes at most; 4096
  MaxBuffered, \* bytes the library keeps; 1 MiB
  MaxSent,     \* bound: bytes a program sends
  MaxPrograms  \* bound: programs the process runs

ASSUME SessionAssumption ==
  /\ Chunk \in Nat \ {0} /\ ReadCap \in Nat \ {0} /\ MaxBuffered \in Nat \ {0}
  /\ Caps \subseteq Nat /\ Runs \subseteq Nat \ {0}
  /\ MaxSent \in Nat /\ MaxPrograms \in Nat

VARIABLES
  task,     \* what the process is doing; cut when the user quit, or when a
            \* program of a benchmark could not be opened
  program,  \* number of the program, counted in this process
  tohost,   \* the program's word, 0 while it runs
  sent,     \* bytes the program has sent
  tx,       \* the library's queue of [program, n], the n-th byte sent
  shown,    \* bytes written to the terminal in this run
  spinner,  \* goroutine of runWithSpinner: "off", "select" or "print"
  done,     \* the channel that stops it is closed
  row,      \* what stands in the row the spinner uses
  snaps,    \* tohost in the snapshot of each run of the benchmark
  exit      \* the process's exit code, or "none"

simVars == <<program, tohost, sent, tx>>
spinnerVars == <<spinner, done, row>>
vars == <<task, program, tohost, sent, tx, shown, spinner, done, row, snaps, exit>>

NoTask == [kind |-> "none", at |-> "idle", cap |-> 0, total |-> 0, runs |-> 0, quiet |-> FALSE,
           inMenu |-> TRUE, cut |-> FALSE]

Halted == tohost # 0

SessionTypeOK ==
  /\ task.kind \in {"none", "run", "bench"}
  /\ task.at \in {"idle", "open", "loop", "end", "close", "wait", "clear", "line"}
  /\ task.cap > 0 => task.total < task.cap + Chunk
  /\ program \in 0 .. MaxPrograms /\ sent \in 0 .. MaxSent
  /\ tohost \in {0, 1, 2, 3}
  /\ Len(tx) <= MaxBuffered
  /\ exit \in {"none", "0", "1", "2"}

Init ==
  /\ task = NoTask /\ program = 0 /\ tohost = 0 /\ sent = 0 /\ tx = <<>> /\ shown = <<>>
  /\ spinner = "off" /\ done = FALSE /\ row = "clear" /\ snaps = <<>> /\ exit = "none"
-----------------------------------------------------------------------------
(* internal/sim *)

(* Mutant: the queues of the library are left as they are. *)
LoadHex_NoFlush == tohost' = 0 /\ sent' = 0 /\ UNCHANGED tx

(* A load resets the design and flushes the queues (SimApi). *)
LoadHex == tohost' = 0 /\ sent' = 0 /\ tx' = <<>>

(* The library keeps the newest bytes. *)
Newest(q) == IF Len(q) > MaxBuffered THEN SubSeq(q, Len(q) - MaxBuffered + 1, Len(q)) ELSE q

(* The oldest bytes, and what stays behind. *)
ReadUart(q) == SubSeq(q, 1, IF Len(q) < ReadCap THEN Len(q) ELSE ReadCap)
AfterRead(q) == SubSeq(q, Len(ReadUart(q)) + 1, Len(q))

(* Mutant: the round reads first and steps then, as if another round were  *)
(* sure to come.                                                           *)
StepAndRead_ReadFirst ==
  /\ \E n \in 0 .. MaxSent - sent, ran \in 1 .. Chunk :
       /\ tohost' \in {0, 1, 2, 3}
       /\ tohost' = 0 => ran = Chunk
       /\ sent' = sent + n
       /\ tx' = Newest(AfterRead(tx)
                         \o [i \in 1 .. n |-> [program |-> program, n |-> sent + i]])
       /\ shown' = IF task.quiet THEN shown ELSE shown \o ReadUart(tx)
       /\ task' = [task EXCEPT !.total = IF task.cap > 0 THEN @ + ran ELSE 0]
  /\ UNCHANGED program

(* One Step and the ReadUart behind it, with what is done with the bytes.  *)
(* A run without a cap counts no cycles.                                   *)
StepAndRead ==
  /\ \E n \in 0 .. MaxSent - sent, ran \in 1 .. Chunk :
       LET queue == Newest(tx \o [i \in 1 .. n |-> [program |-> program, n |-> sent + i]])
       IN /\ tohost' \in {0, 1, 2, 3}
          /\ tohost' = 0 => ran = Chunk
          /\ sent' = sent + n
          /\ tx' = AfterRead(queue)
          /\ shown' = IF task.quiet THEN shown ELSE shown \o ReadUart(queue)
          /\ task' = [task EXCEPT !.total = IF task.cap > 0 THEN @ + ran ELSE 0]
  /\ UNCHANGED program

(* Mutant: the cap is looked at one chunk late. *)
CapReached_Late(total, cap) == total > cap

CapReached(total, cap) == total >= cap
-----------------------------------------------------------------------------
(* internal/runner and cmd/run.go *)

(* New and LoadHex; a simulator or a file that cannot be opened ends the   *)
(* run, or from the command line the process, with 2.                      *)
RunBegin(cap, quiet, inMenu) ==
  /\ task.at = "idle" /\ exit = "none" /\ program < MaxPrograms
  /\ program' = program + 1 /\ shown' = <<>>
  /\ \/ /\ LoadHex /\ UNCHANGED exit
        /\ task' = [NoTask EXCEPT !.kind = "run", !.at = "loop", !.cap = cap,
                                  !.quiet = quiet, !.inMenu = inMenu]
     \/ /\ exit' = IF inMenu THEN exit ELSE "2"
        /\ UNCHANGED <<task, tohost, sent, tx>>
  /\ UNCHANGED <<spinnerVars, snaps>>

RunRound ==
  /\ task.kind = "run" /\ task.at = "loop"
  /\ IF (task.cap > 0 /\ CapReached(task.total, task.cap)) \/ Halted
     THEN task' = [task EXCEPT !.at = "end"] /\ UNCHANGED <<simVars, shown>>
     ELSE StepAndRead
  /\ UNCHANGED <<spinnerVars, snaps, exit>>

(* From the pause screen: back to the menu, or out of the process with 0. *)
UserLeaves ==
  /\ task.kind = "run" /\ task.at = "loop" /\ ~task.quiet
  /\ \/ task' = [task EXCEPT !.at = "end"] /\ task.inMenu /\ UNCHANGED exit
     \/ task' = [task EXCEPT !.at = "idle", !.cut = TRUE] /\ exit' = "0"
  /\ UNCHANGED <<simVars, shown, spinnerVars, snaps>>

(* Mutant: a program that ran into the cap counts as passed, too. *)
Passed_NotFailed(word) == word <= 1

(* snap.Halted && snap.Tohost == 1 *)
Passed(word) == word # 0 /\ word = 1

RunEnd ==
  /\ task.kind = "run" /\ task.at = "end"
  /\ task' = [task EXCEPT !.at = "idle"]
  /\ exit' = IF task.inMenu THEN exit ELSE IF Passed(tohost) THEN "0" ELSE "1"
  /\ UNCHANGED <<simVars, shown, spinnerVars, snaps>>

(* The result in report.Final and on the summary's pill: 0 is STOPPED, 1   *)
(* is PASS, another word FAIL with its upper bits as the subtest.          *)
Verdict(word) ==
  CASE word = 0 -> <<"STOPPED">> [] word = 1 -> <<"PASS">> [] OTHER -> <<"FAIL", word \div 2>>
-----------------------------------------------------------------------------
(* cmd/bench.go *)

BenchBegin(cap, runs) ==
  /\ task.at = "idle" /\ exit = "none" /\ program + runs <= MaxPrograms
  /\ task' = [NoTask EXCEPT !.kind = "bench", !.at = "open", !.cap = cap, !.runs = runs,
                            !.quiet = TRUE, !.inMenu = FALSE]
  /\ spinner' = "select" /\ done' = FALSE
  /\ shown' = <<>>
  /\ UNCHANGED <<simVars, row, snaps, exit>>

BenchOpen ==
  /\ task.at = "open"
  /\ program' = program + 1
  /\ \/ LoadHex /\ task' = [task EXCEPT !.at = "loop", !.total = 0]
     \/ task' = [task EXCEPT !.at = "close", !.cut = TRUE] /\ UNCHANGED <<tohost, sent, tx>>
  /\ UNCHANGED <<shown, spinnerVars, snaps, exit>>

(* The queue is drained quietly; the loop's condition has no cap of 0. *)
BenchRound ==
  /\ task.kind = "bench" /\ task.at = "loop"
  /\ IF CapReached(task.total, task.cap) \/ Halted
     THEN /\ task' = [task EXCEPT !.at = "close"]
          /\ snaps' = Append(snaps, tohost)
          /\ UNCHANGED <<simVars, shown>>
     ELSE StepAndRead /\ UNCHANGED snaps
  /\ UNCHANGED <<spinnerVars, exit>>

(* Mutant: not on the way out that a failed load takes. *)
CloseDone_OnSuccess ==
  /\ task.at = "close"
  /\ done' = ~task.cut /\ task' = [task EXCEPT !.at = "wait"]
  /\ UNCHANGED <<simVars, shown, spinner, row, snaps, exit>>

CloseDone ==
  /\ task.at = "close"
  /\ done' = TRUE /\ task' = [task EXCEPT !.at = "wait"]
  /\ UNCHANGED <<simVars, shown, spinner, row, snaps, exit>>

(* Mutant: nobody waits for the spinner. *)
WaitSpinner_Not ==
  /\ task.at = "wait"
  /\ task' = [task EXCEPT !.at = "clear"]
  /\ UNCHANGED <<simVars, shown, spinnerVars, snaps, exit>>

(* wg.Wait() *)
WaitSpinner ==
  /\ task.at = "wait" /\ spinner = "off"
  /\ task' = [task EXCEPT !.at = "clear"]
  /\ UNCHANGED <<simVars, shown, spinnerVars, snaps, exit>>

ClearRow ==
  /\ task.at = "clear"
  /\ row' = "clear" /\ task' = [task EXCEPT !.at = "line"]
  /\ UNCHANGED <<simVars, shown, spinner, done, snaps, exit>>

allPass(words) == \A i \in DOMAIN words : Passed(words[i])

(* The final line of a run; then the next run or the comparison.  A run    *)
(* that could not be opened ends the process.                              *)
RunLine ==
  /\ task.at = "line"
  /\ row' = IF task.cut THEN row ELSE "line"
  /\ IF task.cut \/ Len(snaps) = task.runs
     THEN /\ exit' = CASE task.cut -> "2" [] ~task.cut /\ allPass(snaps) -> "0" [] OTHER -> "1"
          /\ task' = [task EXCEPT !.at = "idle"]
          /\ UNCHANGED <<spinner, done>>
     ELSE /\ spinner' = "select" /\ done' = FALSE
          /\ task' = [task EXCEPT !.at = "open"]
          /\ UNCHANGED exit
  /\ UNCHANGED <<simVars, shown, snaps>>

Bench == BenchOpen \/ BenchRound \/ CloseDone \/ WaitSpinner \/ ClearRow \/ RunLine

(* The goroutine of runWithSpinner: with a tick and the closed channel     *)
(* both ready, select may take either.                                     *)
SpinnerTakesTick ==
  /\ spinner = "select" /\ spinner' = "print"
  /\ UNCHANGED <<task, simVars, shown, done, row, snaps, exit>>

SpinnerPrints ==
  /\ spinner = "print" /\ spinner' = "select"
  /\ row' = "spinner"
  /\ UNCHANGED <<task, simVars, shown, done, snaps, exit>>

SpinnerReturns ==
  /\ spinner = "select" /\ done /\ spinner' = "off"
  /\ UNCHANGED <<task, simVars, shown, done, row, snaps, exit>>

Spinner == exit = "none" /\ (SpinnerTakesTick \/ SpinnerPrints \/ SpinnerReturns)

Next ==
  \/ \E cap \in Caps, quiet, inMenu \in BOOLEAN : RunBegin(cap, quiet, inMenu)
  \/ RunRound \/ UserLeaves \/ RunEnd
  \/ \E cap \in Caps, runs \in Runs : BenchBegin(cap, runs)
  \/ Bench
  \/ Spinner

(* Both goroutines run.  Of two ready cases a Go select takes one at       *)
(* random: a spinner that finds the channel closed again and again, takes  *)
(* it at last.                                                             *)
Spec == Init /\ [][Next]_vars /\ WF_vars(Bench)
             /\ WF_vars(Spinner) /\ SF_vars(exit = "none" /\ SpinnerReturns)
-----------------------------------------------------------------------------
(* Properties. *)

(* What is shown, followed by what the library still holds, is what this   *)
(* program sent, in order and without its beginning having been passed by: *)
(* nothing of a program that ran before in the process, whose last bytes   *)
(* nobody read (runner.go:138), and no gap unless the library's queue      *)
(* overflowed.  The loop leaves without a last read, but not without the   *)
(* bytes of its last chunk: something stays behind only after full reads.  *)
OutputOfThisRun ==
  (task.kind = "run" /\ task.at # "idle" /\ ~task.quiet) =>
    LET output == shown \o tx
    IN /\ \A i \in DOMAIN output : output[i].program = program
       /\ \A i, j \in DOMAIN output : i < j => output[i].n < output[j].n
       /\ sent <= MaxBuffered => Len(output) = sent
       /\ tx # <<>> => Len(shown) >= ReadCap

(* bench.go:84-88, runner.go:212: the process says 0 for a program that    *)
(* passed, for a benchmark only when every one of its runs did, as the     *)
(* reports of those runs say; or because the user quit.                    *)
ExitTellsVerdict ==
  exit = "0" => \/ task.kind = "run" /\ task.cut
                \/ task.kind = "run" /\ Verdict(tohost) = <<"PASS">>
                \/ /\ task.kind = "bench" /\ Len(snaps) = task.runs
                   /\ \A i \in DOMAIN snaps : Verdict(snaps[i]) = <<"PASS">>

(* bench.go:136: "the caller's final line starts fresh", also when the     *)
(* spinner took a tick before the channel was closed.                      *)
SpinnerQuiet == task.at = "line" => spinner = "off" /\ row # "spinner"

(* A benchmark ends, whatever the programs do. *)
BenchEnds == task.kind = "bench" ~> exit # "none"
=============================================================================
