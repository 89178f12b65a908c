------------------------------- MODULE Runner -------------------------------
(***************************************************************************)
(* internal/runner: one interactive `raijin run`.  The main goroutine      *)
(* steps the simulator, shows its output and routes keys to it; a reader   *)
(* goroutine takes bytes from the raw-mode terminal, filters escape        *)
(* sequences, and hands keys over in the bounded channel keyCh.  The       *)
(* user's typing is free; so is the program's own behaviour.               *)
(*                                                                         *)
(* Every byte carries a serial number and whether it is part of an escape  *)
(* sequence the terminal sent.                                             *)
(***************************************************************************)
EXTENDS Naturals, Sequences, Functions

CONSTANTS
  Keys,         \* the single keys the user may press
  Final,        \* the bytes '@'..'~', which end swallowEscape
  Sequences,    \* escape sequences of the terminal, without the ESC
  KeyCap,       \* capacity of keyCh (64)
  MaxSwallow,   \* bytes swallowEscape reads at most (16)
  MaxTyped,     \* bound: bytes on stdin in all
  MaxChunks     \* Options.MaxCycles in chunks; 0 is no cap

ASSUME RunnerAssumption ==
  /\ KeyCap \in Nat \ {0} /\ MaxSwallow \in Nat \ {0}
  /\ MaxTyped \in Nat /\ MaxChunks \in Nat
  /\ \A s \in Sequences : s \in Seq(Range(s))

VARIABLES
  \* terminal
  stdin,      \* bytes the terminal holds
  typed,      \* how many bytes it was ever given
  hangup,     \* stdin at end of file
  raw, alt,   \* raw mode, alternate screen
  \* reader goroutine
  reader,     \* its program counter
  swallowed,  \* bytes read by the swallowEscape in progress
  \* shared
  keyCh,
  cancelled,  \* ctx
  \* main goroutine
  main,       \* its program counter
  inMenu,     \* Options.InMenu
  choice,
  chunks,     \* totalRun in chunks; without a cap, only its parity
  halted,
  g_rx_buf    \* keys routed to the UART, oldest first

termVars == <<stdin, typed, hangup>>
readerVars == <<reader, swallowed>>
mainVars == <<main, inMenu, choice, chunks, halted, g_rx_buf, raw, alt>>
vars == <<termVars, readerVars, keyCh, cancelled, mainVars>>

CtrlC == "ctrl_c"
Esc == "esc"
Dropped == "control"   \* the control and non-ASCII bytes readKeys filters

Init ==
  /\ stdin = <<>> /\ typed = 0 /\ hangup = FALSE
  /\ raw = TRUE   \* else the terminal makes Ctrl+C a signal of it
  /\ alt = TRUE
  /\ reader = "top" /\ swallowed = 0
  /\ keyCh = <<>> /\ cancelled = FALSE
  /\ main = "discard" /\ inMenu \in BOOLEAN /\ choice = "natural"
  /\ chunks = 0 /\ halted = FALSE /\ g_rx_buf = <<>>

-----------------------------------------------------------------------------
(* The user and the terminal. *)

Press(k) ==
  /\ ~hangup /\ typed < MaxTyped
  /\ stdin' = Append(stdin, [key |-> k, part |-> FALSE, id |-> typed + 1])
  /\ typed' = typed + 1
  /\ UNCHANGED <<hangup, readerVars, keyCh, cancelled, mainVars>>

(* An arrow or function key, or a late reply: ESC and its tail at once. *)
PressSequence(s) ==
  LET bytes == <<Esc>> \o s
  IN /\ ~hangup /\ typed + Len(bytes) <= MaxTyped
     /\ stdin' = stdin \o [i \in 1 .. Len(bytes) |->
                             [key |-> bytes[i], part |-> TRUE, id |-> typed + i]]
     /\ typed' = typed + Len(bytes)
     /\ UNCHANGED <<hangup, readerVars, keyCh, cancelled, mainVars>>

HangUp ==
  /\ ~hangup /\ hangup' = TRUE
  /\ UNCHANGED <<stdin, typed, readerVars, keyCh, cancelled, mainVars>>

-----------------------------------------------------------------------------
(* readKeys *)

Readable == stdin # <<>> \/ hangup   \* poll(2) says so

ReaderTop ==
  /\ reader = "top"
  /\ reader' = IF cancelled THEN "done" ELSE "wait"
  /\ UNCHANGED <<termVars, swallowed, keyCh, cancelled, mainVars>>

(* Mutant: waits in the kernel, without the 10 ms timeout. *)
WaitForStdinInput_Blocks ==
  /\ reader = "wait" /\ Readable
  /\ reader' = "read"
  /\ UNCHANGED <<termVars, swallowed, keyCh, cancelled, mainVars>>

(* waitForStdinInput: input wins over a cancelled context. *)
WaitForStdinInput ==
  /\ reader = "wait" /\ (Readable \/ cancelled)
  /\ reader' = IF Readable THEN "read" ELSE "done"
  /\ UNCHANGED <<termVars, swallowed, keyCh, cancelled, mainVars>>

(* Mutants of Send: a queue without a cap; Ctrl+C jumps the queue. *)
Send_NoCap(b) == keyCh' = Append(keyCh, b)
Send_CtrlCFirst(b) ==
  IF b.key = CtrlC THEN keyCh' = <<b>> \o keyCh ELSE keyCh' = Append(keyCh, b)

(* The select has two ready cases once the context is cancelled, and drops *)
(* the new byte when the channel is full.                                  *)
Send(b) ==
  \/ Len(keyCh) < KeyCap /\ keyCh' = Append(keyCh, b)
  \/ (Len(keyCh) >= KeyCap \/ cancelled) /\ UNCHANGED keyCh

(* stdin.Read blocks until there is a byte, or returns an error at EOF.    *)
ReadKey ==
  /\ reader = "read" /\ Readable
  /\ UNCHANGED <<typed, hangup, swallowed, cancelled, mainVars>>
  /\ IF stdin = <<>>
     THEN reader' = "done" /\ UNCHANGED <<stdin, keyCh>>
     ELSE /\ stdin' = Tail(stdin)
          /\ reader' = IF Head(stdin).key = Esc THEN "peek" ELSE "top"
          /\ IF Head(stdin).key \in {Esc, Dropped}
             THEN UNCHANGED keyCh
             ELSE Send(Head(stdin))

(* The 40 ms poll after an ESC: more input means a sequence.  The lone ESC *)
(* is the last byte read, so its serial number is known.                   *)
PeekFindsMore ==
  /\ reader = "peek" /\ Readable
  /\ reader' = "swallow" /\ swallowed' = 0
  /\ UNCHANGED <<termVars, keyCh, cancelled, mainVars>>

PeekTimesOut ==
  /\ reader = "peek" /\ ~Readable
  /\ reader' = "top"
  /\ Send([key |-> Esc, part |-> FALSE, id |-> typed])
  /\ UNCHANGED <<termVars, swallowed, cancelled, mainVars>>

(* One round of the loop in swallowEscape: a blocking Read, with no look   *)
(* at the context.                                                         *)
SwallowByte ==
  /\ reader = "swallow" /\ Readable
  /\ UNCHANGED <<typed, hangup, keyCh, cancelled, mainVars>>
  /\ IF stdin = <<>>
     THEN reader' = "top" /\ UNCHANGED <<stdin, swallowed>>
     ELSE /\ stdin' = Tail(stdin)
          /\ swallowed' = swallowed + 1
          /\ reader' = IF Head(stdin).key \in Final \/ swallowed' = MaxSwallow
                       THEN "top" ELSE "swallow"

Reader == \/ ReaderTop \/ WaitForStdinInput \/ ReadKey
          \/ PeekFindsMore \/ PeekTimesOut \/ SwallowByte

-----------------------------------------------------------------------------
(* Run, drainAndRoute and showPauseScreen *)

(* drain: the first 30 ms of input are thrown away. *)
DiscardEarlyKey ==
  /\ main = "discard" /\ keyCh # <<>>
  /\ keyCh' = Tail(keyCh)
  /\ UNCHANGED <<termVars, readerVars, cancelled, mainVars>>

StartLoop ==
  /\ main = "discard" /\ main' = "route"
  /\ UNCHANGED <<termVars, readerVars, keyCh, cancelled, inMenu, choice,
                 chunks, halted, g_rx_buf, raw, alt>>

(* Mutant: a program that owns the keyboard gets Ctrl+C too. *)
RouteKey_ForwardsCtrlC ==
  /\ main = "route" /\ keyCh # <<>>
  /\ keyCh' = Tail(keyCh)
  /\ g_rx_buf' = Append(g_rx_buf, Head(keyCh))
  /\ UNCHANGED <<termVars, readerVars, cancelled, main, inMenu, choice, chunks,
                 halted, raw, alt>>

RouteKey ==
  /\ main = "route" /\ keyCh # <<>>
  /\ keyCh' = Tail(keyCh)
  /\ IF Head(keyCh).key = CtrlC
     THEN main' = "pause" /\ UNCHANGED g_rx_buf
     ELSE g_rx_buf' = Append(g_rx_buf, Head(keyCh)) /\ UNCHANGED main
  /\ UNCHANGED <<termVars, readerVars, cancelled, inMenu, choice, chunks,
                 halted, raw, alt>>

RouteDone ==
  /\ main = "route" /\ keyCh = <<>> /\ main' = "step"
  /\ UNCHANGED <<termVars, readerVars, keyCh, cancelled, inMenu, choice,
                 chunks, halted, g_rx_buf, raw, alt>>

(* Stop at the cap or the halt, or run a chunk in which the program may    *)
(* halt.  After a pause this comes before the rest of the channel.         *)
RunChunk ==
  /\ main = "step"
  /\ IF (MaxChunks > 0 /\ chunks >= MaxChunks) \/ halted
     THEN main' = "cancel" /\ UNCHANGED <<chunks, halted>>
     ELSE /\ chunks' = IF MaxChunks > 0 THEN chunks + 1 ELSE 1 - chunks
          /\ halted' \in BOOLEAN
          /\ main' = "route"
  /\ UNCHANGED <<termVars, readerVars, keyCh, cancelled, inMenu, choice,
                 g_rx_buf, raw, alt>>

(* Mutant of Resume: Enter is left to the menu mode. *)
Resume_ROnly(k) == k = "r"

ToMenu(k) == k \in {"enter", "m"} /\ inMenu
Resume(k) == k = "r" \/ (k \in {"enter", "m"} /\ ~inMenu)
QuitApp(k) == k \in {"q", CtrlC, Esc}

(* The pause screen blocks on the channel; nobody ever closes it. *)
AnswerPause ==
  /\ main = "pause" /\ keyCh # <<>>
  /\ LET k == Head(keyCh).key
     IN /\ main' = CASE ToMenu(k) \/ QuitApp(k) -> "cancel"
                     [] Resume(k) -> "step"
                     [] OTHER -> "pause"
        /\ choice' = CASE ToMenu(k) -> "menu" [] QuitApp(k) -> "quit" [] OTHER -> choice
  /\ keyCh' = Tail(keyCh)
  /\ UNCHANGED <<termVars, readerVars, cancelled, inMenu, chunks, halted,
                 g_rx_buf, raw, alt>>

(* cancel() and restoreStdin() *)
Cancel ==
  /\ main = "cancel" /\ main' = "join"
  /\ cancelled' = TRUE /\ raw' = FALSE
  /\ UNCHANGED <<termVars, readerVars, keyCh, inMenu, choice, chunks, halted,
                 g_rx_buf, alt>>

(* Wait for the reader, at most 500 ms, and empty the channel. *)
JoinReader ==
  /\ main = "join" /\ reader = "done" /\ main' = "leave"
  /\ keyCh' = <<>>
  /\ UNCHANGED <<termVars, readerVars, cancelled, inMenu, choice, chunks,
                 halted, g_rx_buf, raw, alt>>

(* Mutant: Run waits for the reader for as long as it takes. *)
JoinTimesOut_Never == FALSE

JoinTimesOut ==
  /\ main = "join" /\ reader # "done" /\ main' = "leave"
  /\ keyCh' = <<>>
  /\ UNCHANGED <<termVars, readerVars, cancelled, inMenu, choice, chunks,
                 halted, g_rx_buf, raw, alt>>

(* tty.leave(), then os.Exit, the caller's menu, or the summary screen. *)
Leave ==
  /\ main = "leave" /\ alt' = FALSE
  /\ main' = CASE choice = "quit" -> "exited"
               [] choice = "menu" -> "returned"
               [] OTHER           -> "summary"
  /\ UNCHANGED <<termVars, readerVars, keyCh, cancelled, inMenu, choice,
                 chunks, halted, g_rx_buf, raw>>

Main == \/ DiscardEarlyKey \/ StartLoop \/ RouteKey \/ RouteDone \/ RunChunk
        \/ AnswerPause \/ Cancel \/ JoinReader \/ JoinTimesOut \/ Leave

Next ==
  \/ \E k \in Keys : Press(k)
  \/ \E s \in Sequences : PressSequence(s)
  \/ HangUp
  \/ Reader /\ main # "exited"   \* os.Exit ends every goroutine
  \/ Main

Spec == Init /\ [][Next]_vars

(* The Go scheduler runs a goroutine that can go on, and the 500 ms timer  *)
(* fires; the user need not type and the program need not halt.            *)
FairSpec ==
  /\ Spec
  /\ WF_vars(Reader /\ main # "exited")
  /\ WF_vars(Main)
  /\ WF_vars(StartLoop)

-----------------------------------------------------------------------------
Bytes == [key : Keys \cup {Esc} \cup UNION {Range(s) : s \in Sequences},
          part : BOOLEAN, id : 1 .. MaxTyped]

TypeOK ==
  /\ {stdin, keyCh, g_rx_buf} \subseteq Seq(Bytes)
  /\ Len(keyCh) <= KeyCap
  /\ typed \in 0 .. MaxTyped
  /\ hangup \in BOOLEAN /\ raw \in BOOLEAN /\ alt \in BOOLEAN
  /\ cancelled \in BOOLEAN /\ inMenu \in BOOLEAN /\ halted \in BOOLEAN
  /\ reader \in {"top", "wait", "read", "peek", "swallow", "done"}
  /\ swallowed \in 0 .. MaxSwallow
  /\ main \in {"discard", "route", "step", "pause", "cancel", "join", "leave",
               "summary", "returned", "exited"}
  /\ choice \in {"natural", "menu", "quit"}
  /\ chunks \in 0 .. IF MaxChunks > 0 THEN MaxChunks ELSE 1

(* Keys reach the program in the order they were typed and at most once,   *)
(* whatever the reader filters, the channel drops, the start discards and  *)
(* the pause screen takes (keys.go:21-96 with runner.go:176-186, 220-232). *)
KeysInOrder ==
  LET path == g_rx_buf \o keyCh \o stdin
  IN \A i, j \in DOMAIN path : i < j => path[i].id < path[j].id

Gone == main \in {"summary", "returned", "exited"}

(* No way out of the loop waits for the user: Run ends although the reader *)
(* may be blocked in a Read (runner.go:157-170).                           *)
RunEnds == main = "cancel" ~> Gone

(* A Ctrl+C that the reader delivered is not left behind a busy program:   *)
(* the loop pauses, or ends first (runner.go:119-128, 220-232).            *)
CtrlCAnswered ==
  main \in {"route", "step"} /\ (\E i \in DOMAIN keyCh : keyCh[i].key = CtrlC)
    ~> main \notin {"route", "step", "discard"}

(* Every key the comment at runner.go:239-248 lists takes the user out of  *)
(* the pause screen, in menu mode and in direct mode, also when it is      *)
(* queued behind other keys.                                               *)
PauseAnswered ==
  main = "pause" /\ (\E i \in DOMAIN keyCh :
                       keyCh[i].key \in {"enter", "m", "r", "q", CtrlC, Esc})
    ~> main # "pause"

(* Once the context is cancelled the reader returns without another key,   *)
(* unless it waits for the rest of an escape sequence (keys.go:18-20,      *)
(* 33-36): that Read is the only place where it can be stuck.              *)
ReaderStops ==
  cancelled ~> \/ reader = "done" \/ main = "exited"
               \/ reader = "swallow" /\ ~Readable

(* keys.go:98-100: swallowEscape consumes the sequence "so nothing after   *)
(* the ESC byte (the CSI header, parameters, and final letter) leaks into  *)
(* the key stream".                                                        *)
SequenceNeverLeaks == \A i \in DOMAIN keyCh : ~keyCh[i].part

=============================================================================
