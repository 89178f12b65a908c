-------------------------------- MODULE Menu --------------------------------
(***************************************************************************)
(* cmd/menu.go: the interactive menu, one process beside the shells that   *)
(* change the same library.  A screen shows the library as it was when the *)
(* screen was drawn; what the user picks there is acted on later.          *)
(***************************************************************************)
EXTENDS Library

CONSTANTS
  MenuProc,    \* the menu's process
  Selections   \* what the user may type at the deletion prompt

ASSUME MenuAssumption ==
  /\ MenuProc \in Procs /\ builtins # <<>>
  /\ \A w \in Selections : w \in Seq(Nat) /\ w # <<>>

VARIABLES
  screen,   \* what the menu shows or waits for
  items,    \* the rows of the selection screen
  cursor,   \* the selected row, from 1
  customs,  \* the listing of the deletion screen
  selection,\* the line typed there
  launched, \* what the runner was last started on
  fresh     \* nothing changed since the rows or the listing were read

menuVars == <<screen, items, cursor, customs, selection, launched, fresh>>
vars == <<hex, meta, job, commands, edits, menuVars>>

Actions == <<"import", "compile", "remove", "demos", "info", "quit">>
Row(kind, e) == [kind |-> kind, entry |-> e]
Sep == Row("sep", NoEntry)

initialMenu ==
  LET listed == CustomList
      demo(e) == Row("demo", e)
  IN [i \in DOMAIN Builtins |-> demo(Builtins[i])]
  \o (IF listed = <<>> THEN <<>> ELSE <<Sep>> \o [i \in DOMAIN listed |-> demo(listed[i])])
  \o <<Sep>> \o [i \in DOMAIN Actions |-> Row(Actions[i], NoEntry)]

(* Mutants of the cursor's moves. *)
prev_OneStep(c) == IF c = 1 THEN Len(items) ELSE c - 1

(* The nearest row upwards, and around, that is no separator. *)
prev(c) ==
  LET rows == {r \in DOMAIN items : items[r].kind # "sep"}
      above == {r \in rows : r < c}
  IN IF above # {} THEN Max(above) ELSE Max(rows)

next(c) ==
  LET rows == {r \in DOMAIN items : items[r].kind # "sep"}
      below == {r \in rows : r > c}
  IN IF below # {} THEN Min(below) ELSE Min(rows)

-----------------------------------------------------------------------------
(* Screens. *)

(* The menu alone moves; the library stays. *)
Quiet == UNCHANGED <<hex, meta, job, commands, edits>>

(* showMenu: every return to it reads the catalog again. *)
ShowMenu ==
  /\ screen' = "menu" /\ items' = initialMenu /\ cursor' = 1 /\ fresh' = TRUE
  /\ customs' = <<>> /\ selection' = <<>> /\ launched' = NoFile

MenuInit ==
  /\ LibraryInit
  /\ screen = "menu" /\ items = initialMenu /\ cursor = 1 /\ fresh = TRUE
  /\ customs = <<>> /\ selection = <<>> /\ launched = NoFile

(* The program of the selection screen ends, and its model with it. *)
LeaveMenu == items' = <<>> /\ cursor' = 0

Goto(s) == screen' = s /\ LeaveMenu /\ UNCHANGED <<customs, selection, launched, fresh>>

(* Update: the keys that move the cursor.  "end" steps off a separator.    *)
MoveCursor ==
  /\ screen = "menu" /\ Quiet
  /\ cursor' \in {prev(cursor), next(cursor), 1,
                  IF items[Len(items)].kind = "sep" THEN prev(Len(items)) ELSE Len(items)}
  /\ UNCHANGED <<screen, items, customs, selection, launched, fresh>>

(* Enter on a program: what ResolveHex finds by now is run, or a screen    *)
(* says that nothing is there.  The run itself returns to the menu.        *)
LaunchPick ==
  LET it == items[cursor]
      file == ResolveHex(it.entry)
  IN /\ screen = "menu" /\ it.kind = "demo" /\ Quiet
     /\ screen' = IF file = NoFile THEN "wait" ELSE "running"
     /\ launched' = file
     /\ LeaveMenu /\ UNCHANGED <<customs, selection, fresh>>

RunReturns == screen = "running" /\ Quiet /\ ShowMenu

(* menuDeleteProgram: the listing is read when the screen is entered. *)
EnterDelete ==
  /\ customs' = CustomList /\ fresh' = TRUE
  /\ screen' = IF customs' = <<>> THEN "wait" ELSE "delete"
  /\ LeaveMenu /\ UNCHANGED <<selection, launched>>

PickAction ==
  LET kind == items[cursor].kind
  IN /\ screen = "menu" /\ Quiet
     /\ \/ kind \in {"import", "compile"} /\ Goto(kind)
        \/ kind = "remove" /\ EnterDelete
        \/ kind \in {"demos", "info"} /\ Goto("wait")

(* Esc, q or Ctrl+C on the menu, its quit row, or Ctrl+C in waitEnter. *)
QuitMenu ==
  /\ \/ screen = "menu" \/ screen = "wait"
  /\ Quiet /\ Goto("gone")

(* waitEnter: Enter returns, every other key is swallowed. *)
PressEnter == screen = "wait" /\ Quiet /\ ShowMenu

(* A blank line cancels the action at its first prompt. *)
CancelPrompt == screen \in {"import", "compile", "delete"} /\ Quiet /\ ShowMenu

isImportableBinary(i) == i.ext \in {"hex", "elf"}
isCompilableSource(i) == i.ext \in {"c", "s"}

(* A file of the other kind, or one that add refuses: the error screen. *)
RefuseInput ==
  /\ screen \in {"import", "compile"} /\ Quiet
  /\ \E i \in Inputs, n \in OptNames :
       \/ screen = "import" /\ ~isImportableBinary(i)
       \/ screen = "compile" /\ ~isCompilableSource(i)
       \/ ~AddAllowed(i, ProgramName(i, n), FALSE)
  /\ Goto("wait")

(* menuImportProgram, menuCompileProgram: never with --force. *)
SubmitInput ==
  /\ \E i \in Inputs, n \in OptNames :
       /\ \/ screen = "import" /\ isImportableBinary(i)
          \/ screen = "compile" /\ isCompilableSource(i)
       /\ AddBegin(MenuProc, i, n, FALSE)
  /\ Goto("busy")

IsNumber(w) == \A i \in DOMAIN w : w[i] \in 48 .. 57
Atoi(w) == FoldLeft(LAMBDA n, c : 10 * n + (c - 48), 0, w)

(* Mutant: the number typed is taken for an index from 0. *)
resolveCustomSelection_FromZero(sel, list) ==
  LET named == SelectInSeq(list, LAMBDA e : lower(e.name) = lower(sel))
  IN IF IsNumber(sel)
     THEN IF Atoi(sel) \in 0 .. Len(list) - 1 THEN list[Atoi(sel) + 1] ELSE NoEntry
     ELSE IF named = 0 THEN NoEntry ELSE list[named]

(* A line of digits is a row number, even if a program has that name. *)
resolveCustomSelection(sel, list) ==
  LET named == SelectInSeq(list, LAMBDA e : lower(e.name) = lower(sel))
  IN IF IsNumber(sel) THEN IF Atoi(sel) \in DOMAIN list THEN list[Atoi(sel)] ELSE NoEntry
     ELSE IF named = 0 THEN NoEntry ELSE list[named]

SelectProgram ==
  /\ screen = "delete" /\ Quiet
  /\ \E sel \in Selections :
       /\ selection' = sel
       /\ screen' = IF resolveCustomSelection(sel, customs) = NoEntry THEN "wait" ELSE "confirm"
  /\ UNCHANGED <<items, cursor, customs, launched, fresh>>

(* Anything but y. *)
DeclineDelete == screen = "confirm" /\ Quiet /\ Goto("wait")

(* y: removeProgramByName looks the name up again. *)
ConfirmDelete ==
  /\ screen = "confirm"
  /\ RemoveBegin(MenuProc, resolveCustomSelection(selection, customs).name)
  /\ Goto("busy")

DeleteFindsNothing ==
  LET e == Find(resolveCustomSelection(selection, customs).name)
  IN screen = "confirm" /\ (e # NoEntry => e.kind # "custom") /\ Quiet /\ Goto("wait")

(* The command the menu is in goes on; its end, good or bad, is a screen   *)
(* that waits for Enter.                                                   *)
MenuCommand ==
  /\ screen = "busy" /\ Command(MenuProc)
  /\ screen' = IF Resting(MenuProc)' THEN "wait" ELSE "busy"
  /\ fresh' = (fresh /\ files' = files)
  /\ UNCHANGED <<items, cursor, customs, selection, launched>>

runMenu ==
  \/ MoveCursor \/ LaunchPick \/ RunReturns \/ PickAction \/ QuitMenu \/ PressEnter
  \/ CancelPrompt \/ RefuseInput \/ SubmitInput
  \/ SelectProgram \/ DeclineDelete \/ ConfirmDelete \/ DeleteFindsNothing \/ MenuCommand

Others ==
  /\ \/ \E p \in Procs \ {MenuProc} : Shell(p)
     \/ \E edit \in HandEdits : EditByHand(edit)
  /\ fresh' = (fresh /\ files' = files)
  /\ UNCHANGED <<screen, items, cursor, customs, selection, launched>>

MenuNext == runMenu \/ Others

MenuSpec == MenuInit /\ [][MenuNext]_vars
-----------------------------------------------------------------------------
(* Properties. *)

(* Types, and the cursor is never on a separator: Enter there does nothing *)
(* and the preview would show an empty row.                                *)
MenuTypeOK ==
  /\ LibraryTypeOK
  /\ screen \in {"menu", "running", "wait", "import", "compile", "delete", "confirm",
                 "busy", "gone"}
  /\ \A r \in DOMAIN items : items[r].kind = "demo" <=> items[r].entry \in Entries
  /\ screen = "menu" => cursor \in DOMAIN items /\ items[cursor].kind # "sep"
  /\ Range(customs) \subseteq Entries
  /\ selection \in Selections \cup {<<>>} /\ fresh \in BOOLEAN

(* menuDeleteProgram: what is deleted after the confirmation is the row    *)
(* the user chose, by its number or its name, unless the library was       *)
(* changed under the listing; no other file goes with it.                  *)
DeleteAsShown ==
  [][(screen = "busy" /\ job[MenuProc].at = "rm_hex" /\ job'[MenuProc].at = "rm_json" /\ fresh) =>
       \E r \in DOMAIN customs :
         /\ IF IsNumber(selection) THEN r = Atoi(selection)
            ELSE lower(customs[r].name) = lower(selection)
         /\ hex' = [hex EXCEPT ![customs[r].dir][customs[r].stem] = NoFile]]_vars

(* runMenu, case "demo": the program started from a row is the one its     *)
(* name stands for on the command line, and for one of the user's own it   *)
(* is the very file listed, although other directories hold files of that  *)
(* stem; only when the library changed may it be another.                  *)
RunAsShown ==
  [][(screen = "menu" /\ screen' = "running" /\ fresh) =>
       LET e == items[cursor].entry
       IN /\ launched' = Resolve(e.name, {}).hexPath
          /\ e.kind = "custom" => launched' = [dir |-> e.dir, stem |-> e.stem]]_vars
=============================================================================
