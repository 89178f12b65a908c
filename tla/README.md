# Raijin in TLA+

Formal models of Kaminari-Ryu: the Raijin single-cycle RV32IM core (Verilog),
the C library that runs it under Verilator, and the `raijin` command-line
program and its installer (Go) around it. The specifications are checked with
TLC on small instances and, where a result should hold for every size, proved
with TLAPS.

## 1. The system

| Component | Source | State | Operations |
|---|---|---|---|
| CPU core | `raijin/rtl/raijin_core.v`, `control.v`, `decoder.v`, `pc_reg.v`, `regfile.v`, `imem.v` | pc, 32 registers, instruction memory, 11 event counters | one rising clock edge, in or out of reset |
| ALU, M unit, branch unit, data memory | `alu.v`, `m_unit.v`, `branch_unit.v`, `dmem.v` | data memory | combinational, and a store per edge |
| CSR file | `csr_file.v` | mstatus, mie, mtvec, mepc, mcause, mscratch, mtval, mcycle | trap entry, MRET, CSR write, count |
| CLINT | `clint.v` | mtime, mtimecmp, msip | store to a half register, count, reset |
| UART and host queues | `uart_sim.v`, `sim/dpi_hooks.cpp` | receive latch; one bounded queue per direction | pre-fetch, read, transmit; push, drain, flush |
| Simulator API | `sim/raijin_api.cpp` | the verilated design, cycle count | create, reset, load_hex, step, uart_read, uart_write, getters |
| Go binding and session | `internal/sim` | tohost, output queue, watermarks, rate average | LoadHex, Reset, Step, ReadUart, Snapshot |
| Program runner | `internal/runner` | key channel, context, terminal mode, exit choice | read keys, route keys, run a chunk, pause, shut down |
| Benchmark, reports | `cmd/bench.go`, `internal/report` | a run's snapshots, spinner goroutine | runs one after the other, verdict, exit code |
| Catalog, suggestions | `internal/catalog`, `internal/suggest`, `cmd/resolve.go` | program files and their sidecars in up to three directories | list, find, resolve, suggest |
| Add, remove | `cmd/add.go`, `cmd/remove.go` | the same files | check, copy or compile, write the sidecar; delete both |
| Menu | `cmd/menu.go` | screen, rows, cursor, prompts | move, launch, import, compile, delete |
| PATH editing | `internal/pathing` | the shell's start-up file; PATH in the registry | add a directory, remove it |
| Install, uninstall, installer | `cmd/install.go`, `cmd/uninstall*.go`, `installer/main.go` | the tree under `~/.raijin`, a cleanup helper, the screens of `raijin-setup` | copy file by file, edit PATH, delete, schedule the helper |

How they interact. Go calls the C API one call at a time ("the underlying
Verilated model is not thread-safe", `session.go`). A step is a number of clock
ticks; in a tick the core and its peripherals all take the same rising edge,
and the UART calls out to the host queues in `dpi_hooks.cpp`, which belong to
the library and not to a simulator. The Go side is concurrent in four places:
the runner's reader goroutine and main loop share a channel, a context and
standard input; the spinner of `bench` shares a terminal row; `raijin-setup`
unpacks in a goroutine behind its screen; and several processes (a menu,
shells, the cleanup helper, the user) share files and PATH without any lock.

What is hard here:

- a trap arrives in the same cycle as a side effect (memory, registers, UART,
  CLINT, CSR), and everything the trap must gate is a separate wire;
- the enable bit and the return address are a stack of depth one;
- 64-bit counters that software reads and writes half by half, words that are
  read and written byte by byte;
- queues that overflow, a latch that has no reset, bytes that must come out once
  and in order, also across programs of one process;
- calls that are sequences of ticks, in which part of the design does not see
  the reset, and a halt check that is done now and then;
- a reader blocked in a system call while the run ends, a bounded channel that
  drops, escape sequences that arrive in pieces;
- files that are looked up now and changed later, names that are file names,
  sidecar names, row numbers and reserved words at once;
- installations and PATH edits cut off anywhere and begun again.

`PROJECT.json` lists these hazards at their lines, each with the properties
that would catch it going wrong. Five of them the code really has and no run
shows as a violation (a reader stuck inside an escape sequence, a pause
after end of file, a start-up file cut off while it is written, an input that is a
link to its own target, the cleanup helper overlapping an install): no property
that denies them can pass, and their notes say what the model shows instead.

## 2. The modules

```
Words           machine words, signed and unsigned
  Datapath        ALU, M unit, branches, byte lanes
WideCounter     a 64-bit counter in two halves
  Clint           timer, compare, software interrupt
  CsrFile         CSRs, trap entry, MRET, mcycle
Uart            receive latch and host queues
  UartLink        ... with a host and a polling program      UartLinkProof
                  implements ByteChannel
RaijinCore = Clint + CsrFile + Uart + Datapath + pipeline    RaijinCoreProof
  MCRaijinCore      every short program over a menu
  MCTimerProgram    the repository's interrupt demo, implements Isa  TransparencyProof
  MCEchoProgram     the C runtime's receive loop
  SimApi            the C API, calls as sequences of ticks   SimApiProof, MCSimApi
Runner          reader goroutine, key channel, main loop     RunnerProof, MCRunner
Session         programs run and benchmarked in one process  SessionProof
Suggest         names close to what was typed                  (in MenuProof)
  Catalog         the programs that are found
    Library         add and remove, by several processes
      Menu            the menu beside the shells             MenuProof, MCMenu
PathEdit        PATH lists and start-up files                (in SetupProof)
  Installation    install, uninstall, the cleanup helper
    Setup           raijin-setup on top of them              SetupProof, MCSetup
```

### The chip

`WideCounter`, `Clint`, `CsrFile`, `Uart`: each has its registers as variables,
named as in the RTL, and one operator for the rising edge (`ClintClock`,
`CsrClock`, `UartClock`) whose arguments are the wires that come in: reset, the
store that was decoded, the trap. `Datapath` has the combinational units as
operators. `RaijinCore` conjoins the edges in `Clock`, so a transition of the
model is one clock of the whole chip; its wires (`trap_en`, `mem_write_en`,
`next_pc`, ...) are operators with their Verilog names.

A word has `WordBase` values and four bytes of `LaneBase` values, a half of a
64-bit register `Base`, a UART byte `ByteBase`, an event counter `CountBase`; the
memory map is scaled to the word, a page being 32 bytes, and its whole RAM is there
(an access beyond `DEPTH_WORDS` of `dmem.v` is not modelled). Instructions are
records, one set per format that `control.v` tells apart: all branches, jumps
and loads and stores of every size, ADD, SUB, SLT, SLTU and their immediate
forms, LUI, AUIPC, the eight M operations, CSR and privileged instructions.
Bitwise logic and shifts are left out. CSRRS and CSRRC with a non-zero source
are there for mstatus and mie only (`ProgramsAssumption` says so). An access to
UART or CLINT ignores its size, in the RTL and in the model.

`ByteChannel` says what the UART promises: first in first out, each byte once, a
full channel loses one byte, a reset may discard. `UartLink` has a host that
types and drains, the protocol of `tools/c-runtime/shims/util.h` (status, then
data), and resets between any two cycles.

`Isa` says what a program is promised: its instructions take effect one after the
other, each once. `MCTimerProgram` maps the core to it: the pc of the preempted
program is `mepc` while the handler runs, and the handler's steps are stuttering.

`SimApi` wraps `RaijinCore`: `raijin_step` is a `BeginStep` and a `StepCycle` per
tick with the halt check of every `Window`-th cycle, `hard_reset` is four
`ResetCycle`s and the flush, `load_hex` replaces both memories and resets, or
stops half-way when the file is too long.

### Running programs

`Runner` has program counters for the reader goroutine (`readKeys`,
`waitForStdinInput`, `swallowEscape`) and the main goroutine (`Run`, `drain`,
`drainAndRoute`, `showPauseScreen`). The user types anything; a terminal escape
sequence arrives as one block; stdin may reach end of file. Each byte carries
its serial number, which only the properties look at.

`Session` is the rest of a run: load, step and read output in rounds, halt,
verdict, exit code, and `bench` with its spinner goroutine. The program is free:
in a chunk it sends some bytes and may set tohost. Bytes carry the number of the
program that sent them. What is left unread when a program halts stays in the
library's queue until the next load flushes it.

### Files

`Suggest` and `Catalog` are the lookups, as operators on the files: `CustomList`,
`All`, `Find`, `Resolve`, `ResolveHex`. A word is a sequence of byte codes, since
case, digits, prefixes and edit distance are what the code looks at. `Library` has
`add` and `remove` as sequences of file operations by several processes, each of
which may fail or be killed in between; files may also be changed by hand. A
command that is refused changes nothing and has no step. `Menu` adds the
menu's screens: rows and listings are read when a screen is drawn and acted on
later.

`PathEdit` has the two list and start-up file edits as operators. `Installation`
has install and uninstall as sequences of file operations (a copy has a step in
which the file is cut off), with failures and kills anywhere, on Unix and on
Windows, where an uninstall from the installed copy leaves a helper that
deletes files in the background. `Setup` adds `raijin-setup`: its screens, the
goroutine that unpacks, and the messages between them. Commands run one after
the other; the helper, the user's edits and the keys interleave with them.

Every module keeps its mutants (deliberately wrong variants of one definition,
named `<definition>_<what is wrong>`) beside the definition. They are not used by
the specification; they serve to show that each property can fail.

## 3. What the runs check

| Run | Result | What it shows |
|---|---|---|
| `core_any` | pass | traps are precise, a handler's return address is safe, the trap counters agree, the timer's half-wise carry and comparison are the 64-bit ones, the data memory is an array of bytes |
| `core_timer` | pass | the interrupt demo implements `Isa` (`InterruptsTransparent`); no tick comes before its deadline and every one is served until the demo halts, for 40 tick periods |
| `uart_link` | pass | bytes arrive in order and once, in both directions; the link implements `ByteChannel`; everything typed is received |
| `sim_api` | pass | a halted program runs on for less than a window; a reset leaves nothing of the run before but a byte in the receive latch; cycle_count, mtime and mcycle agree |
| `runner` | pass | keys in order; Ctrl+C and the pause keys answered; the run ends whatever the reader does, and a reader that does not return waits for the rest of an escape sequence |
| `session` | pass | the output shown is the program's own, without gaps, and complete up to what exceeds a full read at the halt; exit codes are verdicts; the spinner leaves the row; a benchmark ends |
| `library` | pass | a listed program is the one its name finds; an add takes effect over the remains of an earlier one; built-ins are safe; deletion and launch act on the row that was shown; suggestions are what counting edits one at a time says |
| `install` | pass | an install after any broken one is whole; PATH is as asked and other entries stay; setup's last screen is true and is reached |
| `core_uart_preempted` | violation | a preempted load of RX_DATA loses a byte |
| `uart_residue` | violation | a latched byte survives a reset |
| `runner_leak` | violation | the final letter of an arrow key is typed into the program |
| `install_rc` | violation | uninstall deletes a line of the user's below raijin's marker |

The violations are disagreements between the code and a comment of the
repository; `findings` in `PROJECT.json` quotes both. Section 6 lists what else
was met and has no run.

Bounds, and why they are enough:

- `core_any` (398,949 states): two instructions of a menu of 25, so 625 programs,
  behind two that enable interrupts and before a store of half a word, in a
  loop of six. Words have 256 values and bytes 4 (a UART page, a CLINT page and
  six memory pages), halves of the timer 3, counters 2, queues 1, so the timer
  and the counters wrap and the queues overflow. The timer's period of 9 is out
  of step with the loop, so its interrupt falls on every instruction, and a reset
  may come in any cycle. The menu has aligned and misaligned accesses, bytes and
  halves whose sign is extended, all trap causes and stores to the timer's
  halves. What takes more than two instructions is left to `core_timer`.
- `core_timer`: the demo's 31 instructions; periods 1 to 40 put the interrupt at
  every instruction of main, including periods shorter than the handler. The
  upper half of the timer stays at most 3 (a half is a whole word there). The
  demo halts within 200 cycles; the test bench gives up after `MaxCycles` = 400.
  Deadlock is not an error: the run stops when the program has halted.
- `uart_link`: queues of two, five bytes typed, three sent, two resets; overflow,
  the latch with a full queue behind it, and a reset in every phase all occur.
- `sim_api`: window 3 (256 in the code) and budgets 2 and 7, so a step ends before
  the first check and after the second; `MaxCycleCount` 8 bounds where a step may
  begin. One program halts behind a check, one sets and clears tohost, one
  transmits for ever, also in the ticks of a reset.
- `runner`: a channel of two keys, three typed bytes, `MaxSwallow` 2 (16 in the
  code): the channel fills, an escape sequence is cut off, Ctrl+C queues behind
  another key. `MaxChunks` 0 is a run without a cycle cap, so the loop may go on
  for ever. Deadlock is not an error: `Run` returns.
- `session`: a chunk of two cycles, caps 0 (none) and 4, benchmarks of one and two
  runs, reads of two bytes, a library queue of four and five bytes sent: reads
  leave bytes behind, the queue overflows, caps are met exactly and passed.
  Three programs in one process, so bytes could be inherited twice.
- `library`: a menu and a shell, two commands and one change by hand, two
  directories, stems that differ in case only, a stem that is a number, a
  sidecar that claims a built-in's name, a torn file; of the names typed, "dom" is a
  letter short of a program's and has different budgets of edits in the code and at
  suggest.go:15, "mode" is three edits from one program and four from others, on either
  side of the budget. Two commands are what it takes for one to invalidate the check of the other, or to start from its
  remains.
- `install` (906,660 states): two commands or a setup, and one edit of PATH or
  `$SHELL` by hand; one program and two SDK files, so a mixture of two versions
  can be seen; a helper of two rounds (100 in the code); packages with and
  without programs and SDK, a checkout, PATH lists with repeated and empty
  entries and another spelling, start-up files with and without an earlier
  block. In `install` and `library` the commands are bounded and then
  everything stops: in `install` that is a deadlock and not an error.

Fairness. `core_any`, `sim_api` and `library` need none. In `core_timer` the test
bench keeps clocking the core (weak fairness of a step). In `uart_link` the
program keeps polling and a reset that has begun completes. In `Runner` each
goroutine that can go on eventually does (the Go scheduler), the 30 ms discard
phase ends, and the 500 ms timer fires; nothing is assumed of the user, and the
program need not halt. In `Session` both goroutines go on (weak fairness), and a
`select` that finds its closed channel ready again and again takes it at last
(strong fairness: Go chooses among ready cases at random). In `Setup` only the
process of raijin-setup is fair; users and other commands may stop anywhere.

## 4. What is proved

All theorems hold for every value of the constants that satisfies the named
assumptions of the modules; `theorems` in `PROJECT.json` lists them.

`RaijinCoreProof` begins with the operators of `Datapath`, for every size of byte and
word:

- `WordIsItsBytes`, `BytesAreTheWords`: splitting a word and joining bytes are
  inverse.
- `StoreChangesItsBytes`, `LoadReturnsTheBytes`: what `new_word` and `read_data` do,
  byte by byte, for every size, sign and aligned offset.
- `LowWordOfProduct`: the lower word of the signed and the unsigned product agree
  (the comment at `m_unit.v:59`, on which the one multiplier for MUL rests).
- `QuotientAndRemainder`: DIV and REM, DIVU and REMU satisfy the division identity
  modulo the word, also for a divisor of zero and on overflow; the remainder is
  smaller than the divisor and has the dividend's sign.

The nonlinear facts are isolated in a few lemmas about `\div` and `%`
(`DivModUnique`, `QuotientBelow`, `SignedDivision`).

Of the core, for every program, word size, memory map, timer width, counter
width and queue capacity:

- `TypeCorrect`: `Spec => []TypeOK`. The inductive invariant is `IInv`, `TypeOK`
  together with `imem \in Programs`: the wires of a cycle are well-typed only
  because the fetched instruction is an instruction. One lemma per component
  (`CoreRegistersType`, `ClintRegistersType`, `CsrRegistersType`,
  `UartRegistersType`) shows that a clock edge keeps its part.
- `CountersAgree`: `Spec => []TrapCountersAgree`, inductive relative to `IInv`; the
  arithmetic is the lemma `SumWraps` (adding one commutes with wrapping around).
- `PreciseTraps`: `Spec => TrapCommitsNothing`.
- `ReturnAddressKept`: `Spec => InterruptsStayOff`.
- `MemoryOfBytes`: `Spec => MemoryIsBytes`, from the lane theorems and from the trap
  logic: a misaligned access traps, so an access that commits stays in its word
  (`OffsetAligned`).

The same module has the timer's theorems, for every `Base`: on its own
`ClintTypeCorrect`, `TimerLineIsCompare` (the circuit of clint.v:99-100 is the 64-bit
comparison; lemma `HalvesCompare`) and `TimerCounts` (the carry), and in the core
`CoreTimerIsCompare` and `CoreTimerCounts`, which follow because every step of the core
is a clock of the timer or leaves it alone. The comparison is stated for a set
deadline: what the line is while `mtimecmp` is 0, where code and README disagree
(section 6), is left open.

`TransparencyProof` is about the interrupt demo (`MCTimerProgram`), for every tick
period, target and word of at least 256 values:

- `InterruptsAreTransparent`: `Running => InterruptsTransparent`, the refinement of
  `Isa` in which the handler's cycles and the entry into it are stuttering. The mapping alone is
  not inductive: the step of `mret` is a stutter only because `mepc` is what the
  mapping has shown all along, and the steps of main are main's only if nothing
  interrupts before the handler can save and return. `DemoInv` says so, place by
  place (`HandlerReady`): where pc can be, interrupts off until the enabling `csrw` and all through
  the handler, `mtvec` set before that, the way back always into the loop.
- `HandlerIsSafe`: `Running => []HandlerReady`.

Behind them are lemmas, one per kind of instruction, of what a cycle of the core does
when it is not trapped (`AddiStep`, `LoadStep`, `StoreStep`, `BranchStep`, `JumpStep`,
`CsrStep`, `MretStep`) and when it is (`TrapStep`); `MainFetch` and `HandlerFetch` read the
program off instruction memory, and `Regions` tells RAM from the timer's page.
`TimerProgramAssumption` names what the model checker's instance fixes: the programs
are the demo's, word and register file are large enough for it.

`UartLinkProof`, for every capacity and number of bytes: `LinkTypeCorrect`,
`LinkDelivers` and `LinkIsChannel`, the refinement of `ByteChannel`. The inductive
invariant is `TypeOK` with `ReceivesWhatWasTyped`, `ShowsWhatWasSent` and
`DriverKnows`; the last is needed because the driver's second load is right only
if nothing but that load empties the latch. A clock edge is described once by
what it does to the bytes on their way (`EdgeKeepsPending`, `EdgeTakes`), and both
the invariant and the refinement use that.

`RunnerProof`, for every channel size, key set and escape sequence:
`RunnerTypeCorrect` and `KeysStayInOrder`. `KeysInOrder` alone is not inductive: an
ESC the reader has taken and looks behind (`peek`) is in no queue, and may yet be
sent. `IInv` says that the bytes on stdin are the last ones typed, that the other
queues rise, one before the other, and stay below the numbers taken from stdin,
an open ESC not counted.

`SessionProof`, for every chunk, cap, read size, queue size and number of programs:
`SessionTypeCorrect`, `ExitIsVerdict`, `SpinnerLeavesRow` and `OutputIsOwn`. `IInv` ties
the task's phase to the spinner, the snapshots and the output; `OutputInv` says
which of the bytes sent are shown or queued, the overflow of the queue included, and
that a byte is left unread only by a full read.

`SimApiProof`, for every window, budget, set of hex files and core: `HaltIsSeen`
(`WindowInv`: the cycles since tohost was last zero are at most those since the
last check, which is stronger than the bound and inductive) and `ResetIsClean`
(`FlushInv`: behind the last tick of a reset the core is at its start, and no other
call gets in before the flush; what is unread is at most the latch, which no reset
clears). `CountsAgree` has a hypothesis of its own,
`[](call = "step" => CountersSpared)`: no instruction of the run stores to mtime or
mcycle. The programs of `sim_api` satisfy it in all their states; for one that
writes its timer the property is false, as it should be. `TrackInv` counts in the
middle of a call: the cycles of the call under way are in the hardware and not yet
in `cycle_count`, and those of a reset are in neither.

`SetupProof` begins with the list and start-up file edits, for texts and
lists of any length: what `addToRc`, `removeFromRc`, `ListAppendUnique` and
`ListRemoveDir` leave, in which order. They rest on lemmas about `AtPlaces`,
a selection of places in their order, each numbered by how many are before it
(`Positions`, `NumberingCounts`).

On these rest its theorems, for every package, payload, checkout, start-up file, PATH
and number of commands:

- `PathIsAsAsked` and `PathKeepsOthers`. `PathInv` adds to the types that no start-up
  file has raijin's PATH line twice: `addToRc` looks for the line before it writes,
  `removeFromRc` drops one block, and a file with two would keep one.
- `SetupIsTyped`, from `TypeInv` (`DiskInv`, `HelperInv`, `CounterInv`, `WindowInv`,
  `CommandInv`): what is left of the command's plan is a sequence of copies of known
  files in known versions.
- `InstallsConverge`. `InstallConverges` speaks of the end of an install, `CopyInv` of its
  middle: as long as nobody has disturbed it (`clean`), each file it owes (`Owed`) is
  either there in the command's version or still in the plan.
- `SetupIsTruthful`, with `PayloadInv` (the same for the payload, README included),
  `ScreenInv` (which screens there are while the goroutine works) and `ResultInv` (what
  is known of PATH once a result has been computed).

`MenuProof` is about the library and the menu, for every set of directories, files,
sidecars and built-ins, any number of processes and whatever is changed by hand.
Its lemmas: a finite strict order has a least element (`LeastOf`), and `Ranked` puts
all of a set into a sequence (`RankedIs`); Go's comparison of words is such an
order (`WordOrder`), and so is the order of discovery (`ScanOrderIs`); hence of the
files of one name there is exactly one first (`FirstExists`, `FirstIsOne`), the
listing holds it and `Find` finds it (`CustomListIs`, `FindCustom`, `FindBuiltin`).

- `ListedAreFound` and `BuiltinsStay` follow with `LibraryInv`: files and commands are
  well typed, and every command under way is about a file whose stem is no
  built-in's (`JobInv`, which holds because the check at its beginning looked).
- `AddsTakeEffect`. `AddTakesEffect` speaks of an add that is done, `AddInv` of each of
  its steps: while it is undisturbed (`clean`), no other file of its name comes
  before its own in the order of discovery (`NameClear`), and what it has written
  so far is there. The files it owns may change under `NameClear`; the others may
  not.
- `MenuIsTyped`, `DeletesAsShown` and `RunsAsShown`. `ScreenInv` says what a screen's
  rows and listing have to do with the library: as long as nothing has changed
  (`fresh`) they are what would be read now, a confirmed selection is a row, and
  the removal that follows is of that row's file, although the command looks the
  name up again; `MovesStay` is the cursor.
- `TableIsDistance` is about the edit distance: the number in the table's last corner
  is at most k exactly when the second word is `Within` k edits of the first, for all
  words. The prover has no induction rule that it could apply to an operator, so
  induction is stated on a set of numbers (`Induct`, from the least element of its
  complement), and `Recursion` shows with it that a function defined row by row or
  cell by cell exists; `TableIs` and `WithinIs` are the equations that follow. One
  direction reads a path of edits off the table, by induction on i + j
  (`TableReaches`: a cell bounds the edits between two beginnings, since an edit at
  the end of a word extends both, `EndEdits` and `WithinExtends`). The other adds one
  edit at a time (`EditCounts`): a letter more, less or another in the word along the
  top changes no column before it (`SameColumns`), its own by at most one
  (`ChangedColumn`), and so every one after it (`NextColumn`).
- `SuggestionsAreRelated` has it for names: `ClosestIs` says that score, then name, is
  a strict order of the eligible candidates, so the ranking has each once and the cut
  leaves out none but for three others (`SuggestedFrom`); `EligibleIsRelated` replaces
  the table by edits counted one at a time. There are two budgets, that of the code
  and of suggest.go:25-28 and the larger one of suggest.go:15 (`BudgetsOrdered`): what
  is suggested is within the second, what must be suggested within the first.

Assumptions: `CatalogAssumption` says that directories and file names are finite in
number, stems and built-in names are not empty, and built-in names are in lower
case (they are literals, catalog.go:29-80); `LibraryAssumption` that `add` writes to
one of the directories that are read (`activeProgramDir` is one of
`UserProgramDirs`), and that what is written is a possible content. `PathAssumption` says that the user's own line is not raijin's and that a
start-up file does not begin with raijin's line in it twice, `FilesAssumption` that a
program, an SDK file and the binaries have different names, since they are in
different directories of one tree; `InstallAssumption` says which versions there are,
and that a version is neither "none" nor "torn", the two marks of a file.

Only model-checked: all liveness, which this prover does not do (`InstallingEnds`, `BenchEnds`, the runner's
and the link's).

## 5. Not modelled

- Bitwise logic and shifts of the ALU; instruction encoding and the decoder's
  immediates; the read-only identification and event CSRs.
- The getters of the C API; the session's speed average, stack watermark and
  image size (displays); `Session.Reset`, which nothing calls.
- Drawing, layout, themes, wording and statistics, with one known hazard:
  `terminal.go:157` repeats a rule `width-4` times and panics on a terminal
  narrower than four columns.
- The runner's Windows input API. The printed one-liners for other shells.
- A program file called `.hex`, whose name would be empty: it would be listed, and
  nothing that is typed finds it. A relative `RAIJIN_HOME`: program directories are
  absolute, so a custom entry's path is too, and the branches of `catalog.go:95-111`
  and `remove.go:48-50` for a relative one are left out. File systems that ignore
  case. Two installs running at the same time.
- Test benches, demo programs, build and release scripts are inputs and tests
  of the system; `timer_int_test.py` and `util.h` are the programs of two runs.

## 6. Met while modelling

Divergences from a document that have no run of their own. Where a property
comes near one it takes no side: it is silent on the case that is disputed.

- `README.md:370` says that writing 0 to the respective register clears a pending
  line; `mtip` is `mtime >= mtimecmp`, so a 0 in `mtimecmp` raises it. `MtipIsCompare` does not speak of
  `mtimecmp` = 0.
- `sim/README.md:61` says that step stops when tohost is set; it looks every 256
  cycles (`OvershootBounded` says how far the program runs on).
- `sim/README.md:60` says that a reset preserves memory; in a reset tick the
  instruction at pc still stores (`ResetCycle`).
- `keys.go:18-20` says that the reader returns on cancellation; inside an escape
  sequence it is in a blocking Read (`ReaderStops` says that it can
  be stuck nowhere else).
- `pathing_windows.go:11-13` says that removing an absent directory does nothing;
  the rewrite drops empty and repeated entries.
- `suggest.go:15` speaks of the ceiling of half the length; the code adds one to
  the floor, as its own comment at 25-28 says. `SuggestionsMatch` lets a name be
  suggested or not that only the larger budget admits.

Behaviour that a maintainer may want to know, visible in the models:

- Library: an input that is a link to its own target is truncated before it is
  read (paths are compared, not files); without `--force`, `add` overwrites a file
  whose sidecar carries another name; with it, the result may stay shadowed by
  an earlier directory; a listed program that has gone may resolve to another
  directory's file of the same stem; a program named by digits cannot be
  deleted by its name.
- Installation: a kill while the start-up file is written cuts it off; an
  uninstall under another `$SHELL` leaves the first shell's line; a commented-out
  PATH line counts as present; the SDK's files and the README are never
  removed; a PATH failure in a Windows self-uninstall skips the cleanup; the
  helper of an uninstall deletes files of an install that follows within 20
  seconds, which is why `InstallConverges` speaks of undisturbed installs.
- Runs: output beyond full reads of 4096 bytes that is unread when a program halts is
  not shown; a pause after end of file never returns; a quit from
  the pause screen exits with 0; Esc on the summary returns to the menu although
  its footer says quit; a cap is met to the next chunk.

## 7. Plan

1. Bitwise logic and shifts on lanes of bits, and the decoder's immediates.
2. The runner's Windows reader, and `Runner` composed with `Session`.
